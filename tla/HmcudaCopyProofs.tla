--------------------------- MODULE HmcudaCopyProofs ---------------------------
(***************************************************************************)
(* The data path of a copy, for pages, batches, addresses, lengths and     *)
(* page tables of any size and shape.                                      *)
(***************************************************************************)
EXTENDS HmcudaCopy, FiniteSetTheorems, SequenceTheorems, WellFoundedInduction, TLAPS

Entries == [base : Nat, len : Nat]

LEMMA LeastOf ==
  ASSUME NEW S \in SUBSET Nat, S # {}
  PROVE  \E m \in S : \A k \in S : m <= k
<1>1. IsWellFoundedOn(OpToRel(<, Nat), Nat)
  BY NatLessThanWellFounded
<1>2. PICK m \in S : \A k \in S : ~ (<<k, m>> \in OpToRel(<, Nat))
  BY <1>1, WFMin
<1>3. ASSUME NEW k \in S PROVE m <= k
  <2>1. m \in Nat /\ k \in Nat /\ ~(k < m)
    BY <1>2 DEF OpToRel
  <2>2. QED
    BY <2>1
<1>4. QED
  BY <1>3

------------------------------------------------------------------------------
(* Division.                                                               *)

LEMMA Divided ==
  ASSUME NEW x \in Nat, NEW p \in Nat \ {0}
  PROVE  /\ x \div p \in Nat /\ x % p \in 0..(p - 1)
         /\ x = (x \div p) * p + (x % p)
  OBVIOUS

LEMMA DividedAs ==
  ASSUME NEW p \in Nat \ {0}, NEW q \in Nat, NEW r \in 0..(p - 1)
  PROVE  (q * p + r) \div p = q /\ (q * p + r) % p = r
  OBVIOUS

LEMMA Times ==
  ASSUME NEW p \in Nat, NEW q \in Nat, NEW s \in Nat
  PROVE  /\ (q + s) * p = q * p + s * p /\ (q + 1) * p = q * p + p /\ q * p \in Nat
         /\ q <= s => q * p <= s * p
         /\ q < s => q * p + p <= s * p
  OBVIOUS

LEMMA Multiple ==
  ASSUME NEW p \in Nat \ {0}, NEW w \in Nat \ {0}, p % w = 0, NEW x \in Nat, x % p = 0
  PROVE  x % w = 0
<1> DEFINE a == x \div p
<1> DEFINE b == p \div w
<1>3. a \in Nat /\ b \in Nat /\ x = a * p /\ p = b * w
  <2>1. x = a * p + (x % p)
    BY Divided
  <2>2. p = b * w + (p % w)
    BY Divided
  <2>3. a \in Nat /\ b \in Nat /\ a * p \in Nat /\ b * w \in Nat
    BY Divided, Times
  <2>4. QED
    BY <2>1, <2>2, <2>3
<1> HIDE DEF a, b
<1>4. x = (a * b) * w + 0 /\ a * b \in Nat
  BY <1>3, SMTT(30)
<1> DEFINE c == a * b
<1>5. c \in Nat /\ x = c * w + 0 /\ 0 \in 0..(w - 1)
  BY <1>4
<1> HIDE DEF c
<1>6. QED
  BY <1>5, DividedAs

(* Sums and differences of multiples are multiples.                        *)
LEMMA Multiples ==
  ASSUME NEW w \in Nat \ {0}, NEW x \in Nat, NEW y \in Nat, x % w = 0
  PROVE  (x + y) % w = y % w
<1>1. x = (x \div w) * w /\ x \div w \in Nat
  BY Divided
<1>2. y = (y \div w) * w + (y % w) /\ y \div w \in Nat /\ y % w \in 0..(w - 1)
  BY Divided
<1> DEFINE a == x \div w
<1> DEFINE b == y \div w
<1> DEFINE r == y % w
<1>3. a \in Nat /\ b \in Nat /\ r \in 0..(w - 1) /\ x = a * w /\ y = b * w + r
  BY <1>1, <1>2
<1> HIDE DEF a, b, r
<1>4. x + y = (a + b) * w + r /\ a + b \in Nat
  <2>1. (a + b) * w = a * w + b * w /\ a * w \in Nat /\ b * w \in Nat
    BY <1>3, Times
  <2>2. QED
    BY <1>3, <2>1
<1>5. (x + y) % w = r
  BY <1>3, <1>4, DividedAs
<1>6. QED
  BY <1>5 DEF r

------------------------------------------------------------------------------
(* The running sum of the lengths of entries.                              *)

Adds(f, n, entries) == f[0] = 0 /\ \A k \in 1..n : f[k] = f[k - 1] + entries[k].len
Runs(f, n, entries) == f \in [0..n -> Nat] /\ Adds(f, n, entries)

(* The recursive definition has a solution.                                *)
LEMMA Solution ==
  ASSUME NEW entries, NEW len \in Nat, \A k \in 1..len : entries[k].len \in Nat
  PROVE  \E f : Runs(f, len, entries)
<1> DEFINE Bad == {n \in 0..len : ~ \E f : Runs(f, n, entries)}
<1>1. SUFFICES ASSUME Bad # {} PROVE FALSE
  OBVIOUS
<1>2. PICK n \in Bad : \A k \in Bad : n <= k
  <2>1. Bad \in SUBSET Nat
    OBVIOUS
  <2>2. QED
    BY <1>1, <2>1, LeastOf
<1>3. n # 0
  <2>1. Runs([k \in 0..0 |-> 0], 0, entries)
    BY DEF Runs, Adds
  <2>2. QED
    BY <1>2, <2>1
<1>4. n \in Nat /\ n - 1 \in 0..len /\ n - 1 \notin Bad /\ n \in 1..len
  BY <1>2, <1>3
<1>5. PICK f : Runs(f, n - 1, entries)
  BY <1>4
<1> DEFINE g == [k \in 0..n |-> IF k = n THEN f[n - 1] + entries[n].len ELSE f[k]]
<1>6. Runs(g, n, entries)
  <2>1. /\ f \in [0..(n - 1) -> Nat] /\ f[0] = 0
        /\ \A k \in 1..(n - 1) : f[k] = f[k - 1] + entries[k].len
    BY <1>5 DEF Runs, Adds
  <2>2. g \in [0..n -> Nat]
    <3>1. f[n - 1] + entries[n].len \in Nat
      BY <1>4, <2>1
    <3>2. \A k \in 0..n : k # n => k \in 0..(n - 1)
      BY <1>4
    <3>3. QED
      BY <2>1, <3>1, <3>2
  <2>3. g[0] = 0
    BY <1>3, <1>4, <2>1
  <2>4. ASSUME NEW k \in 1..n PROVE g[k] = g[k - 1] + entries[k].len
    <3>1. k - 1 \in 0..n /\ k - 1 # n /\ k \in 0..n
      BY <1>4
    <3>2. g[k - 1] = f[k - 1]
      BY <3>1
    <3>3. CASE k = n
      BY <3>1, <3>2, <3>3
    <3>4. CASE k # n
      <4>1. k \in 1..(n - 1)
        BY <1>4, <3>4
      <4>2. QED
        BY <2>1, <3>1, <3>2, <3>4, <4>1
    <3>5. QED
      BY <3>3, <3>4
  <2> HIDE DEF g
  <2>5. QED
    BY <2>2, <2>3, <2>4 DEF Runs, Adds
<1>7. QED
  BY <1>2, <1>6

(* It has one only.                                                        *)
LEMMA OneSolution ==
  ASSUME NEW f, NEW g, NEW n \in Nat, NEW entries, Adds(f, n, entries), Adds(g, n, entries)
  PROVE  \A k \in 0..n : f[k] = g[k]
<1> DEFINE Bad == {k \in 0..n : f[k] # g[k]}
<1>1. SUFFICES ASSUME Bad # {} PROVE FALSE
  OBVIOUS
<1>2. PICK k \in Bad : \A j \in Bad : k <= j
  <2>1. Bad \in SUBSET Nat
    OBVIOUS
  <2>2. QED
    BY <1>1, <2>1, LeastOf
<1>3. k \in 1..n /\ k - 1 \in 0..n /\ k - 1 \notin Bad
  BY <1>2 DEF Adds
<1>4. QED
  BY <1>2, <1>3 DEF Adds

LEMMA OffsetsAre ==
  ASSUME NEW entries \in Seq(Entries)
  PROVE  Runs(Offsets(entries), Len(entries), entries)
<1> DEFINE n == Len(entries)
<1>1. n \in Nat /\ \A k \in 1..n : entries[k].len \in Nat
  <2>1. n \in Nat /\ \A k \in 1..n : entries[k] \in Entries
    BY LenProperties, ElementOfSeq
  <2>2. QED
    BY <2>1 DEF Entries
<1>2. PICK f : Runs(f, n, entries)
  BY <1>1, Solution
<1> DEFINE Eq(g) == g = [k \in 0..n |-> IF k = 0 THEN 0 ELSE g[k - 1] + entries[k].len]
<1>3. Eq(f)
  <2>1. /\ f \in [0..n -> Nat] /\ f[0] = 0
        /\ \A k \in 1..n : f[k] = f[k - 1] + entries[k].len
    BY <1>2 DEF Runs, Adds
  <2>2. \A k \in 0..n : k # 0 => k \in 1..n
    BY <1>1
  <2>3. QED
    BY <2>1, <2>2
<1>4. Offsets(entries) = CHOOSE g : Eq(g)
  BY DEF Offsets
<1>5. Eq(Offsets(entries))
  BY <1>3, <1>4
<1> DEFINE o == Offsets(entries)
<1>6. o = [k \in 0..n |-> IF k = 0 THEN 0 ELSE o[k - 1] + entries[k].len]
  BY <1>5
<1> HIDE DEF o
<1>7. Adds(o, n, entries)
  <2>1. o[0] = 0 /\ \A k \in 1..n : o[k] = o[k - 1] + entries[k].len
    BY <1>1, <1>6
  <2>2. QED
    BY <2>1 DEF Adds
<1>8. \A k \in 0..n : o[k] = f[k]
  BY <1>1, <1>2, <1>7, OneSolution DEF Runs
<1>9. f \in [0..n -> Nat]
  BY <1>2 DEF Runs, Adds
<1>10. o \in [0..n -> Nat]
  BY <1>6, <1>8, <1>9
<1>11. QED
  BY <1>7, <1>10 DEF Runs, o

LEMMA OffsetFacts ==
  ASSUME NEW entries \in Seq(Entries)
  PROVE  /\ Len(entries) \in Nat /\ DOMAIN entries = 1..Len(entries)
         /\ \A n \in 1..Len(entries) :
              /\ entries[n] \in Entries /\ entries[n].base \in Nat /\ entries[n].len \in Nat
              /\ n - 1 \in 0..Len(entries) /\ n \in 0..Len(entries)
              /\ Offsets(entries)[n] = Offsets(entries)[n - 1] + entries[n].len
         /\ \A n \in 0..Len(entries) : Offsets(entries)[n] \in Nat
         /\ Offsets(entries)[0] = 0
         /\ Sum(entries) = Offsets(entries)[Len(entries)] /\ Sum(entries) \in Nat
<1>1. Len(entries) \in Nat /\ DOMAIN entries = 1..Len(entries) /\ \A n \in 1..Len(entries) : entries[n] \in Entries
  BY LenProperties, ElementOfSeq
<1>2. \A n \in 1..Len(entries) : entries[n].base \in Nat /\ entries[n].len \in Nat
  BY <1>1 DEF Entries
<1>3. \A n \in 1..Len(entries) : n - 1 \in 0..Len(entries) /\ n \in 0..Len(entries)
  BY <1>1
<1>4. /\ Offsets(entries) \in [0..Len(entries) -> Nat] /\ Offsets(entries)[0] = 0
      /\ \A n \in 1..Len(entries) : Offsets(entries)[n] = Offsets(entries)[n - 1] + entries[n].len
  BY OffsetsAre DEF Runs, Adds
<1>5. Len(entries) \in 0..Len(entries)
  BY <1>1
<1>6. QED
  BY <1>1, <1>2, <1>3, <1>4, <1>5 DEF Sum

(* Entries of the same lengths lie at the same offsets.                    *)
LEMMA SameOffsets ==
  ASSUME NEW s \in Seq(Entries), NEW t \in Seq(Entries), NEW n \in 0..Len(s), n <= Len(t),
         \A k \in 1..n : s[k].len = t[k].len
  PROVE  \A k \in 0..n : Offsets(s)[k] = Offsets(t)[k]
<1>1. n \in Nat /\ Len(s) \in Nat /\ Len(t) \in Nat
  BY OffsetFacts
<1>2. \A k \in 1..n : k \in 1..Len(s) /\ k \in 1..Len(t)
  BY <1>1
<1>3. Adds(Offsets(s), n, s)
  BY <1>2, OffsetFacts DEF Adds
<1>4. Adds(Offsets(t), n, s)
  BY <1>2, OffsetFacts DEF Adds
<1>5. QED
  BY <1>1, <1>3, <1>4, OneSolution

LEMMA Ascending ==
  ASSUME NEW entries \in Seq(Entries), NEW j \in 0..Len(entries)
  PROVE  \A k \in 0..Len(entries) : j <= k => Offsets(entries)[j] <= Offsets(entries)[k]
<1> DEFINE o == Offsets(entries)
<1> DEFINE Bad == {k \in 0..Len(entries) : j <= k /\ ~(o[j] <= o[k])}
<1>1. SUFFICES ASSUME Bad # {} PROVE FALSE
  OBVIOUS
<1>2. /\ Len(entries) \in Nat /\ \A k \in 0..Len(entries) : o[k] \in Nat
      /\ \A k \in 1..Len(entries) : o[k] = o[k - 1] + entries[k].len /\ entries[k].len \in Nat
  BY OffsetFacts
<1> HIDE DEF o
<1>3. PICK k \in Bad : \A m \in Bad : k <= m
  <2>1. Bad \in SUBSET Nat
    OBVIOUS
  <2>2. QED
    BY <1>1, <2>1, LeastOf
<1>4. k # j /\ k \in 1..Len(entries) /\ k - 1 \in 0..Len(entries) /\ j <= k - 1 /\ k - 1 \notin Bad
  BY <1>2, <1>3
<1>5. o[j] <= o[k - 1] /\ o[k] = o[k - 1] + entries[k].len
  BY <1>2, <1>4
<1>6. o[j] <= o[k]
  <2>1. o[j] \in Nat /\ o[k - 1] \in Nat /\ o[k] \in Nat /\ entries[k].len \in Nat
    BY <1>2, <1>4
  <2>2. QED
    BY <1>5, <2>1
<1>7. QED
  BY <1>3, <1>6

(* Every byte below the sum lies in an entry.                              *)
LEMMA EntryOf ==
  ASSUME NEW entries \in Seq(Entries), NEW x \in Nat, x < Sum(entries)
  PROVE  \E n \in 1..Len(entries) : Offsets(entries)[n - 1] <= x /\ x < Offsets(entries)[n]
<1> DEFINE o == Offsets(entries)
<1> DEFINE Past == {n \in 0..Len(entries) : x < o[n]}
<1>1. /\ Len(entries) \in Nat /\ \A k \in 0..Len(entries) : o[k] \in Nat
      /\ o[0] = 0 /\ Sum(entries) = o[Len(entries)]
  BY OffsetFacts
<1> HIDE DEF o
<1>2. Len(entries) \in Past
  BY <1>1
<1>3. PICK n \in Past : \A m \in Past : n <= m
  <2>1. Past \in SUBSET Nat
    OBVIOUS
  <2>2. QED
    BY <1>2, <2>1, LeastOf
<1>4. n # 0 /\ n \in 1..Len(entries) /\ n - 1 \in 0..Len(entries) /\ n - 1 \notin Past
  BY <1>1, <1>3
<1>5. o[n - 1] <= x /\ x < o[n]
  BY <1>1, <1>3, <1>4
<1>6. QED
  BY <1>4, <1>5 DEF o
------------------------------------------------------------------------------
(* The pages of a batch.                                                   *)

LEMMA JobFacts ==
  ASSUME TypeOK
  PROVE  /\ PageSize \in Nat \ {0} /\ MaxPages \in Nat \ {0} /\ WordSize \in Nat \ {0} /\ PageSize % WordSize = 0
         /\ job.addr \in Nat /\ job.total \in Nat /\ HeaderSize \in Nat
         /\ 0..((job.addr + job.total) \div PageSize) \subseteq DOMAIN job.frame
         /\ \A p, q \in DOMAIN job.frame : job.frame[p] \in Nat /\ (job.frame[p] = job.frame[q] => p = q)
<1>1. job \in Jobs
  BY DEF TypeOK
<1>2. job.addr \in Addrs /\ job.total \in Totals /\ job.frame \in FrameMaps
  BY <1>1 DEF Jobs
<1>3. QED
  BY <1>2, CopyAssumption

LEMMA JobNumbers ==
  ASSUME TypeOK
  PROVE  /\ PageSize \in Nat \ {0} /\ job.addr + off \in Nat /\ off \in Nat /\ job.addr \in Nat
<1>1. PageSize \in Nat \ {0} /\ job.addr \in Nat
  BY JobFacts
<1>2. off \in Nat
  BY DEF TypeOK
<1>3. QED
  BY <1>1, <1>2

(* Where the bytes of page m of a batch that begins at byte off lie: byte  *)
(* k of the batch is byte d of page m when it is byte m * PageSize + d of  *)
(* the pages.                                                              *)
LEMMA PhysIs ==
  ASSUME TypeOK, NEW k \in Nat, NEW m \in Nat, NEW d \in 0..(PageSize - 1), PageOff + k = m * PageSize + d
  PROVE  Phys(off + k) = (job.frame[(job.addr + off) \div PageSize + m] * PageSize) + d
<1> DEFINE x == job.addr + off
<1> DEFINE q == x \div PageSize
<1>1. PageSize \in Nat \ {0} /\ x \in Nat /\ off \in Nat /\ job.addr \in Nat
  BY JobNumbers
<1>2. x = (q * PageSize) + PageOff /\ q \in Nat /\ PageOff \in 0..(PageSize - 1)
  BY <1>1, Divided DEF PageOff
<1>3. job.addr + (off + k) = x + k
  BY <1>1
<1> HIDE DEF x, q
<1>4. x + k = ((q + m) * PageSize) + d /\ q + m \in Nat
  <2>1. (q + m) * PageSize = (q * PageSize) + (m * PageSize) /\ q * PageSize \in Nat /\ m * PageSize \in Nat
    BY <1>1, <1>2, Times
  <2>2. QED
    BY <1>1, <1>2, <2>1
<1>5. (x + k) \div PageSize = q + m /\ (x + k) % PageSize = d
  <2> DEFINE r == q + m
  <2>1. r \in Nat /\ x + k = (r * PageSize) + d
    BY <1>4
  <2> HIDE DEF r
  <2>2. (x + k) \div PageSize = r /\ (x + k) % PageSize = d
    BY <1>1, <2>1, DividedAs
  <2>3. QED
    BY <2>2 DEF r
<1>6. QED
  BY <1>3, <1>5 DEF Phys, x, q

(* A batch of a copy that is not over has at least a byte, does not go     *)
(* past its pages or the copy, and ends with one of them.                  *)
LEMMA BatchFacts ==
  ASSUME TypeOK, off < job.total
  PROVE  /\ PageOff \in 0..(PageSize - 1)
         /\ BatchPages \in Nat /\ BatchPages > 0
         /\ BatchCount \in Nat /\ BatchCount > 0 /\ off + BatchCount <= job.total
         /\ PageOff + BatchCount <= BatchPages * PageSize
         /\ PageOff + BatchCount = BatchPages * PageSize \/ off + BatchCount = job.total
         /\ \A m \in 0..(BatchPages - 1) : (job.addr + off) \div PageSize + m \in DOMAIN job.frame
<1> DEFINE x == job.addr + off
<1> DEFINE q == x \div PageSize
<1> DEFINE left == job.total - off
<1> DEFINE need == CeilDiv(PageOff + left, PageSize)
<1>1. PageSize \in Nat \ {0} /\ MaxPages \in Nat \ {0} /\ job.addr \in Nat /\ job.total \in Nat /\ off \in Nat
      /\ x \in Nat /\ left \in Nat /\ left > 0
  <2>1. MaxPages \in Nat \ {0} /\ job.total \in Nat
    BY JobFacts
  <2>2. QED
    BY <2>1, JobNumbers
<1>2. x = (q * PageSize) + PageOff /\ q \in Nat /\ PageOff \in 0..(PageSize - 1)
  BY <1>1, Divided DEF PageOff
<1>3. PageOff + left + PageSize - 1 \in Nat
  BY <1>1, <1>2
<1> DEFINE y == PageOff + left + PageSize - 1
<1>4. need = y \div PageSize /\ y = (need * PageSize) + (y % PageSize) /\ need \in Nat /\ y % PageSize \in 0..(PageSize - 1)
  BY <1>1, <1>3, Divided DEF CeilDiv
<1>5. need > 0 /\ PageOff + left <= need * PageSize /\ (need * PageSize) - PageSize < PageOff + left
  <2> DEFINE r == y % PageSize
  <2> DEFINE t == need * PageSize
  <2>1. y = t + r /\ r \in 0..(PageSize - 1) /\ t \in Nat /\ need \in Nat
    BY <1>1, <1>4, Times
  <2>2. need = 0 => t = 0
    BY <1>1
  <2> HIDE DEF r, t, need
  <2>3. PageOff + left + PageSize - 1 = t + r
    BY <2>1
  <2> HIDE DEF y, left
  <2>4. need # 0 /\ PageOff + left <= t /\ t - PageSize < PageOff + left
    BY <1>1, <1>2, <2>1, <2>2, <2>3
  <2>5. QED
    BY <2>1, <2>4 DEF t
<1>6. BatchPages = Least(MaxPages, need)
  <2>1. PageOff + job.total - off = PageOff + left
    BY <1>1, <1>2
  <2>2. QED
    BY <2>1 DEF BatchPages
<1> HIDE DEF need, y, x, q
<1>7. BatchPages \in Nat /\ BatchPages > 0 /\ BatchPages <= need
  <2>1. MaxPages \in Nat \ {0} /\ need \in Nat /\ need > 0
    BY <1>1, <1>4, <1>5
  <2>2. QED
    BY <1>6, <2>1 DEF Least
<1>8. BatchPages * PageSize \in Nat /\ PageSize <= BatchPages * PageSize
  <2>1. BatchPages * PageSize \in Nat /\ (0 < BatchPages => 0 * PageSize + PageSize <= BatchPages * PageSize)
    BY <1>1, <1>7, Times
  <2>2. 0 * PageSize = 0
    BY <1>1
  <2>3. QED
    BY <1>1, <1>7, <2>1, <2>2
<1>9. BatchCount = Least(BatchPages * PageSize - PageOff, left)
  BY DEF BatchCount
<1>10. /\ BatchCount \in Nat /\ BatchCount > 0 /\ off + BatchCount <= job.total
       /\ PageOff + BatchCount <= BatchPages * PageSize
       /\ PageOff + BatchCount = BatchPages * PageSize \/ off + BatchCount = job.total
  BY <1>1, <1>2, <1>8, <1>9 DEF Least
<1>11. ASSUME NEW m \in 0..(BatchPages - 1) PROVE q + m \in DOMAIN job.frame
  <2> DEFINE z == job.addr + job.total
  <2>1. z \in Nat /\ z = (q * PageSize) + PageOff + left
    BY <1>1, <1>2 DEF x
  <2>2. m \in Nat /\ m < need /\ (m * PageSize) + PageSize <= need * PageSize /\ m * PageSize \in Nat
    <3>1. m \in Nat /\ m < need
      BY <1>4, <1>7
    <3>2. QED
      BY <1>1, <1>4, <3>1, Times
  <2>3. (q + m) * PageSize = (q * PageSize) + (m * PageSize) /\ q * PageSize \in Nat
    BY <1>1, <1>2, <2>2, Times
  <2>4. (q + m) * PageSize <= z
    <3>1. need * PageSize \in Nat
      BY <1>1, <1>4, Times
    <3>2. QED
      BY <1>1, <1>2, <1>5, <2>1, <2>2, <2>3, <3>1
  <2>5. q + m <= z \div PageSize
    <3> DEFINE u == z \div PageSize
    <3>1. u \in Nat /\ z = (u * PageSize) + (z % PageSize) /\ z % PageSize \in 0..(PageSize - 1)
      BY <1>1, <2>1, Divided
    <3> DEFINE v == z % PageSize
    <3>a. z = (u * PageSize) + v /\ v \in 0..(PageSize - 1)
      BY <3>1
    <3> HIDE DEF u, v, z
    <3>2. SUFFICES ASSUME u < q + m PROVE FALSE
      BY <1>2, <2>2, <3>1 DEF u
    <3>3. (u * PageSize) + PageSize <= (q + m) * PageSize /\ u * PageSize \in Nat
      BY <1>1, <1>2, <2>2, <3>1, <3>2, Times
    <3>4. (q + m) * PageSize \in Nat
      BY <1>1, <1>2, <2>2, Times
    <3>5. QED
      BY <1>1, <2>1, <2>4, <3>a, <3>3, <3>4
  <2>6. q + m \in 0..(z \div PageSize)
    <3>1. z \div PageSize \in Nat
      BY <1>1, <2>1, Divided
    <3>2. QED
      BY <1>2, <2>2, <2>5, <3>1
  <2>7. QED
    BY <2>6, JobFacts
<1>12. QED
  BY <1>2, <1>7, <1>10, <1>11 DEF x, q

LEMMA EndOfPage ==
  ASSUME TypeOK, NEW k \in Nat, NEW m \in Nat, PageOff + k = m * PageSize
  PROVE  PageEnd(off + k)
<1> DEFINE x == job.addr + off
<1> DEFINE q == x \div PageSize
<1>1. PageSize \in Nat \ {0} /\ x \in Nat /\ off \in Nat /\ job.addr \in Nat
  BY JobNumbers
<1>2. x = (q * PageSize) + PageOff /\ q \in Nat /\ PageOff \in 0..(PageSize - 1)
  BY <1>1, Divided DEF PageOff
<1>3. job.addr + (off + k) = x + k
  BY <1>1
<1> HIDE DEF x, q
<1>4. x + k = ((q + m) * PageSize) + 0 /\ q + m \in Nat
  <2>1. (q + m) * PageSize = (q * PageSize) + (m * PageSize) /\ q * PageSize \in Nat /\ m * PageSize \in Nat
    BY <1>1, <1>2, Times
  <2>2. QED
    BY <1>1, <1>2, <2>1
<1>5. (x + k) % PageSize = 0
  <2> DEFINE z == 0
  <2>1. z \in 0..(PageSize - 1)
    BY <1>1
  <2> HIDE DEF z
  <2>2. (((q + m) * PageSize) + z) % PageSize = z
    BY <1>1, <1>4, <2>1, DividedAs
  <2>3. QED
    BY <1>4, <2>2 DEF z
<1>6. QED
  BY <1>3, <1>5 DEF PageEnd

LEMMA SamePlaces ==
  ASSUME UNCHANGED job
  PROVE  \A k : Phys(k)' = Phys(k) /\ (PageEnd(k)' <=> PageEnd(k))
  BY DEF Phys, PageEnd

LEMMA SameBatch ==
  ASSUME UNCHANGED <<job, off>>
  PROVE  PageOff' = PageOff /\ BatchPages' = BatchPages /\ BatchCount' = BatchCount /\ Frames' = Frames
<1>1. PageOff' = PageOff
  BY DEF PageOff
<1>2. BatchPages' = BatchPages
  BY <1>1 DEF BatchPages
<1>3. BatchCount' = BatchCount
  BY <1>1, <1>2 DEF BatchCount
<1>4. Frames' = Frames
  BY <1>2 DEF Frames
<1>5. QED
  BY <1>1, <1>2, <1>3, <1>4

LEMMA SameKind ==
  ASSUME UNCHANGED job
  PROVE  (Stray' <=> Stray) /\ (Searched' <=> Searched) /\ (Searched => ~Stray)
  BY DEF Stray, Searched

(* Where no byte is moved.                                                 *)
LEMMA NothingMoved ==
  ASSUME TypeOK, TypeOK', Aligned, MovesPrefix, EmbeddedPointersFound,
         UNCHANGED <<job, moved, scanned>>, off' + hoff' = off + hoff \/ Stray,
         UNCHANGED spoiled \/ (Stray /\ spoiled' \subseteq {Phys(k) : k \in 0..(job.total - 1)})
  PROVE  Aligned' /\ MovesPrefix' /\ EmbeddedPointersFound'
<1>1. \A k : Phys(k)' = Phys(k)
  BY SamePlaces
<1>2. (Stray' <=> Stray) /\ (Searched' <=> Searched) /\ (Searched => ~Stray)
  BY SameKind
<1>3. CASE Stray
  <2>1. moved = {} /\ scanned = {} /\ spoiled' \subseteq {Phys(k) : k \in 0..(job.total - 1)}
    BY <1>2, <1>3 DEF MovesPrefix, EmbeddedPointersFound
  <2>2. {Phys(k)' : k \in 0..(job'.total - 1)} = {Phys(k) : k \in 0..(job.total - 1)}
    BY <1>1
  <2>3. MovesPrefix'
    BY <1>2, <1>3, <2>1, <2>2 DEF MovesPrefix
  <2>4. Aligned' /\ EmbeddedPointersFound'
    BY <1>2, <1>3, <2>1 DEF Aligned, EmbeddedPointersFound
  <2>5. QED
    BY <2>3, <2>4
<1>4. CASE ~Stray
  <2>1. off' + hoff' = off + hoff /\ spoiled' = {}
    BY <1>4 DEF MovesPrefix
  <2>2. off' + hoff' - 1 = off + hoff - 1
    <3>1. off \in Nat /\ hoff \in Nat /\ off' \in Nat /\ hoff' \in Nat
      BY DEF TypeOK
    <3>2. off + hoff - 1 = (off + hoff) - 1 /\ off' + hoff' - 1 = (off' + hoff') - 1
      BY <3>1
    <3> DEFINE a == off' + hoff'
    <3> DEFINE b == off + hoff
    <3>3. a = b
      BY <2>1
    <3> HIDE DEF a, b
    <3>4. a - 1 = b - 1
      BY <3>3
    <3>5. QED
      BY <3>2, <3>4 DEF a, b
  <2>3. {<<Phys(k)', k>> : k \in 0..(off' + hoff' - 1)} = {<<Phys(k), k>> : k \in 0..(off + hoff - 1)}
    BY <1>1, <2>2
  <2>4. moved' = {<<Phys(k)', k>> : k \in 0..(off' + hoff' - 1)}
    BY <1>4, <2>3 DEF MovesPrefix
  <2>5. MovesPrefix'
    BY <1>2, <1>4, <2>1, <2>4 DEF MovesPrefix
  <2>6. Aligned' /\ EmbeddedPointersFound'
    BY <1>2, <2>1 DEF Aligned, EmbeddedPointersFound, WordsIn
  <2>7. QED
    BY <2>5, <2>6
<1>5. QED
  BY <1>3, <1>4

(* What the invariant says of the entries.                                 *)
LEMMA EntryFacts ==
  ASSUME TypeOK
  PROVE  /\ sg \in Seq(Entries) /\ pages \in Seq(Nat)
         /\ off \in Nat /\ count \in Nat /\ i \in Nat /\ rem \in Nat /\ hoff \in Nat
         /\ seg.n \in Nat /\ seg.done \in Nat /\ seg \in [n : Nat, done : Nat]
  BY DEF TypeOK, Entries

LEMMA PagesAre ==
  ASSUME TypeOK, off < job.total, pages = Frames
  PROVE  /\ Len(pages) = BatchPages
         /\ \A m \in 0..(BatchPages - 1) :
              /\ pages[m + 1] = job.frame[(job.addr + off) \div PageSize + m]
              /\ pages[m + 1] \in Nat
<1>1. BatchPages \in Nat /\ pages \in Seq(Nat)
  BY BatchFacts, EntryFacts
<1>2. pages = [p \in 1..BatchPages |-> job.frame[(job.addr + off) \div PageSize + p - 1]]
  BY DEF Frames
<1>3. Len(pages) = BatchPages
  <2>1. DOMAIN pages = 1..BatchPages /\ DOMAIN pages = 1..Len(pages) /\ Len(pages) \in Nat
    BY <1>1, <1>2, LenProperties
  <2>2. QED
    BY <1>1, <2>1
<1>4. \A m \in 0..(BatchPages - 1) : m + 1 \in 1..BatchPages
  BY <1>1
<1>5. (job.addr + off) \div PageSize \in Nat
  <2>1. PageSize \in Nat \ {0} /\ job.addr + off \in Nat
    BY JobNumbers
  <2>2. QED
    BY <2>1, Divided
<1>6. \A m \in 0..(BatchPages - 1) :
        (job.addr + off) \div PageSize + (m + 1) - 1 = (job.addr + off) \div PageSize + m
  BY <1>1, <1>5
<1>7. \A m \in 0..(BatchPages - 1) : pages[m + 1] = job.frame[(job.addr + off) \div PageSize + m]
  BY <1>2, <1>4, <1>6
<1>8. \A m \in 0..(BatchPages - 1) : pages[m + 1] \in Nat
  BY <1>1, <1>3, <1>4, ElementOfSeq
<1>9. QED
  BY <1>3, <1>7, <1>8
------------------------------------------------------------------------------
LEMMA StartBatchStep ==
  ASSUME CopyInv, StartBatch
  PROVE  CopyInv'
<1>1. /\ pc = "loop" /\ off < job.total /\ pc' = "coalesce"
      /\ pages' = Frames /\ count' = BatchCount /\ rem' = BatchCount /\ i' = 0 /\ sg' = <<>>
      /\ UNCHANGED <<job, off, seg, hoff, err, resp, backed, moved, spoiled, scanned, result>>
  BY DEF StartBatch, More, Frames, hostVars
<1>2. TypeOK /\ Position /\ Aligned /\ MovesPrefix /\ EmbeddedPointersFound
  BY DEF CopyInv
<1>3. BatchPages \in Nat /\ BatchCount \in Nat
  BY <1>1, <1>2, BatchFacts
<1>4. hoff = 0
  BY <1>1, <1>2 DEF Position
<1>5. TypeOK'
  <2>1. \A p \in 1..BatchPages : job.frame[(job.addr + off) \div PageSize + p - 1] \in Nat
    <3>1. SUFFICES ASSUME NEW p \in 1..BatchPages
                   PROVE  job.frame[(job.addr + off) \div PageSize + p - 1] \in Nat
      OBVIOUS
    <3>2. p - 1 \in 0..(BatchPages - 1)
      BY <1>3
    <3>3. (job.addr + off) \div PageSize + (p - 1) \in DOMAIN job.frame
      BY <1>1, <1>2, <3>2, BatchFacts
    <3>4. (job.addr + off) \div PageSize \in Nat
      <4>1. PageSize \in Nat \ {0} /\ job.addr + off \in Nat
        BY <1>2, JobNumbers
      <4>2. QED
        BY <4>1, Divided
    <3>5. (job.addr + off) \div PageSize + (p - 1) = (job.addr + off) \div PageSize + p - 1
      BY <1>3, <3>4
    <3>6. QED
      BY <1>2, <3>3, <3>5, JobFacts
  <2>2. pages' \in Seq(Nat)
    <3>1. pages' \in [1..BatchPages -> Nat]
      BY <1>1, <2>1 DEF Frames
    <3>2. QED
      BY <1>3, <3>1, SeqDef
  <2>3. sg' \in Seq([base : Nat, len : Nat])
    BY <1>1, EmptySeq
  <2>4. QED
    BY <1>1, <1>2, <1>3, <2>2, <2>3 DEF TypeOK
<1>6. PageOff' = PageOff /\ BatchPages' = BatchPages /\ BatchCount' = BatchCount /\ Frames' = Frames
  BY <1>1, SameBatch
<1>7. Len(<<>>) = 0 /\ Sum(<<>>) = 0 /\ DOMAIN <<>> = {}
  <2>1. <<>> \in Seq(Entries) /\ Len(<<>>) = 0
    BY EmptySeq
  <2>2. Sum(<<>>) = Offsets(<<>>)[0] /\ Offsets(<<>>)[0] = 0
    BY <2>1, OffsetFacts
  <2>3. QED
    BY <2>1, <2>2
<1>8. Gathered'
  BY <1>1, <1>3, <1>6, <1>7 DEF Gathered
<1>9. PageByPage'
  <2>1. Len(pages)' \in Nat
    BY <1>5, LenProperties DEF TypeOK
  <2>2. QED
    BY <1>1, <1>4, <2>1 DEF PageByPage
<1>10. Position'
  BY <1>1, <1>2, SameKind DEF Position
<1>11. Aligned' /\ MovesPrefix' /\ EmbeddedPointersFound'
  BY <1>1, <1>2, <1>5, NothingMoved
<1>12. QED
  BY <1>5, <1>8, <1>9, <1>10, <1>11 DEF CopyInv

(* One turn of the coalescing loop: page m = i of the batch, byte c of it. *)
LEMMA TurnFacts ==
  ASSUME CopyInv, Coalesce
  PROVE  /\ i \in 0..(BatchPages - 1) /\ pages[i + 1] \in Nat
         /\ count - rem \in Nat /\ PgOff \in 0..(PageSize - 1)
         /\ PgLen \in Nat /\ PgLen > 0 /\ PgLen <= rem /\ PgOff + PgLen <= PageSize
         /\ PageOff + (count - rem) = (i * PageSize) + PgOff
         /\ i > 0 => PgOff = 0
         /\ \A b \in 0..(PgLen - 1) :
              Phys(off + ((count - rem) + b)) = (pages[i + 1] * PageSize) + (PgOff + b)
         /\ PageEnd(off + ((count - rem) + PgLen))
         /\ rem - PgLen > 0 => PageOff + ((count - rem) + PgLen) = (i + 1) * PageSize
<1>1. pc = "coalesce" /\ i < Len(pages) /\ rem > 0
  BY DEF Coalesce
<1>2. TypeOK /\ Gathered /\ PageByPage
  BY DEF CopyInv
<1>3. /\ off < job.total /\ pages = Frames /\ count = BatchCount /\ rem <= count
      /\ i = 0 => rem = count
      /\ i > 0 => PageOff + (count - rem) = i * PageSize
  BY <1>1, <1>2 DEF Gathered, PageByPage
<1>4. /\ PageOff \in 0..(PageSize - 1) /\ BatchPages \in Nat
      /\ PageOff + count = BatchPages * PageSize \/ off + count = job.total
  BY <1>2, <1>3, BatchFacts
<1>5. i \in 0..(BatchPages - 1) /\ pages[i + 1] \in Nat
      /\ pages[i + 1] = job.frame[(job.addr + off) \div PageSize + i]
  <2>1. i \in 0..(BatchPages - 1)
    BY <1>1, <1>2, <1>3, <1>4, PagesAre, EntryFacts
  <2>2. QED
    BY <1>2, <1>3, <2>1, PagesAre
<1>6. PageSize \in Nat \ {0} /\ off \in Nat /\ count \in Nat /\ rem \in Nat /\ i \in Nat /\ job.total \in Nat
  BY <1>2, JobFacts, EntryFacts
<1> DEFINE c == count - rem
<1>7. c \in Nat
  BY <1>3, <1>6
<1>8. PgOff \in 0..(PageSize - 1) /\ (i > 0 => PgOff = 0) /\ PageOff + c = (i * PageSize) + PgOff
  <2>1. CASE i = 0
    <3>1. PgOff = PageOff /\ c = 0
      BY <1>3, <1>6, <2>1 DEF PgOff
    <3>2. i * PageSize = 0
      BY <1>6, <2>1
    <3> HIDE DEF c
    <3>3. QED
      BY <1>4, <1>6, <2>1, <3>1, <3>2
  <2>2. CASE i # 0
    <3>1. PgOff = 0 /\ i > 0
      BY <1>6, <2>2 DEF PgOff
    <3>2. i * PageSize \in Nat /\ PageOff + c = i * PageSize
      BY <1>3, <1>6, <3>1, Times
    <3> HIDE DEF c
    <3>3. QED
      BY <1>6, <3>1, <3>2
  <2>3. QED
    BY <2>1, <2>2
<1>9. /\ PgLen \in Nat /\ PgLen > 0 /\ PgLen <= rem /\ PgOff + PgLen <= PageSize
      /\ rem - PgLen > 0 => PgOff + PgLen = PageSize
  BY <1>1, <1>6, <1>8 DEF PgLen, Least
<1>10. c + PgLen \in Nat /\ (rem - PgLen = 0 => c + PgLen = count) /\ (rem - PgLen > 0 \/ rem - PgLen = 0)
  BY <1>6, <1>7, <1>9
<1> HIDE DEF c
<1>11. ASSUME NEW b \in 0..(PgLen - 1)
       PROVE  Phys(off + (c + b)) = (pages[i + 1] * PageSize) + (PgOff + b)
  <2>1. PgOff + b \in 0..(PageSize - 1) /\ c + b \in Nat
    BY <1>6, <1>7, <1>8, <1>9
  <2>2. PageOff + (c + b) = (i * PageSize) + (PgOff + b)
    <3>1. i * PageSize \in Nat
      BY <1>6, Times
    <3>2. QED
      BY <1>4, <1>6, <1>7, <1>8, <1>9, <3>1
  <2>3. QED
    BY <1>2, <1>5, <1>6, <2>1, <2>2, PhysIs
<1>12. ASSUME rem - PgLen > 0 PROVE PageOff + (c + PgLen) = (i + 1) * PageSize
  <2>1. (i + 1) * PageSize = (i * PageSize) + PageSize /\ i * PageSize \in Nat
    BY <1>6, Times
  <2>2. QED
    BY <1>4, <1>6, <1>7, <1>8, <1>9, <1>12, <2>1
<1>13. PageEnd(off + (c + PgLen))
  <2>1. CASE rem - PgLen > 0
    <3> DEFINE k == c + PgLen
    <3> DEFINE m == i + 1
    <3>1. k \in Nat /\ m \in Nat /\ PageOff + k = m * PageSize
      BY <1>6, <1>10, <1>12, <2>1
    <3> HIDE DEF k, m
    <3>2. PageEnd(off + k)
      BY <1>2, <3>1, EndOfPage
    <3>3. QED
      BY <3>2 DEF k
  <2>2. CASE rem - PgLen = 0
    <3>1. c + PgLen = count
      BY <1>10, <2>2
    <3>2. CASE off + count = job.total
      BY <3>1, <3>2 DEF PageEnd
    <3>3. CASE PageOff + count = BatchPages * PageSize
      BY <1>2, <1>4, <1>6, <3>1, <3>3, EndOfPage
    <3>4. QED
      BY <1>4, <3>2, <3>3
  <2>3. QED
    BY <1>10, <2>1, <2>2
<1>14. QED
  BY <1>5, <1>7, <1>8, <1>9, <1>11, <1>12, <1>13 DEF c

Appended(s, e, t) == t = Append(s, e)
Prolonged(s, g, t) == t = [s EXCEPT ![Len(s)].len = @ + g]

LEMMA AppendEntry ==
  ASSUME NEW s \in Seq(Entries), NEW e \in Entries, NEW t, Appended(s, e, t)
  PROVE  /\ t \in Seq(Entries) /\ Len(t) = Len(s) + 1
         /\ \A k \in 1..Len(s) : t[k] = s[k]
         /\ t[Len(s) + 1] = e
         /\ \A k \in 0..Len(s) : Offsets(t)[k] = Offsets(s)[k]
         /\ Offsets(t)[Len(s) + 1] = Sum(s) + e.len /\ Sum(t) = Sum(s) + e.len
<1>1. /\ t \in Seq(Entries) /\ Len(t) = Len(s) + 1 /\ Len(s) \in Nat
      /\ \A k \in 1..Len(s) : t[k] = s[k]
      /\ t[Len(s) + 1] = e
  BY AppendProperties, LenProperties DEF Appended
<1>2. Len(s) \in 0..Len(s) /\ Len(s) <= Len(t) /\ Len(s) + 1 \in 1..Len(t) /\ (Len(s) + 1) - 1 = Len(s)
  BY <1>1
<1>3. \A k \in 0..Len(s) : Offsets(s)[k] = Offsets(t)[k]
  BY <1>1, <1>2, SameOffsets
<1>4. Offsets(t)[Len(s) + 1] = Offsets(t)[(Len(s) + 1) - 1] + t[Len(s) + 1].len
  BY <1>1, <1>2, OffsetFacts
<1>5. Offsets(t)[Len(s) + 1] = Sum(s) + e.len
  BY <1>1, <1>2, <1>3, <1>4 DEF Sum
<1>6. QED
  BY <1>1, <1>3, <1>5 DEF Sum

Longer(s, g, t) ==
  /\ t \in Seq(Entries) /\ Len(t) = Len(s) /\ Len(s) \in 1..Len(s)
  /\ \A k \in 1..(Len(s) - 1) : t[k] = s[k]
  /\ t[Len(s)].base = s[Len(s)].base /\ t[Len(s)].len = s[Len(s)].len + g
  /\ \A k \in 0..(Len(s) - 1) : Offsets(t)[k] = Offsets(s)[k]
  /\ Offsets(t)[Len(s)] = Sum(s) + g /\ Sum(t) = Sum(s) + g

LEMMA LongerEntry ==
  ASSUME NEW s \in Seq(Entries), s # <<>>, NEW g \in Nat, NEW t, Prolonged(s, g, t)
  PROVE  Longer(s, g, t)
<1> DEFINE L == Len(s)
<1>1. L \in Nat /\ L # 0 /\ L \in 1..L /\ DOMAIN s = 1..L /\ L - 1 \in 0..L /\ L - 1 <= L
  BY LenProperties, EmptySeq
<1>2. s[L] \in Entries /\ s[L].len \in Nat /\ s[L].base \in Nat /\ Sum(s) = Offsets(s)[L - 1] + s[L].len
      /\ Offsets(s)[L - 1] \in Nat
  BY <1>1, OffsetFacts
<1> DEFINE x == [s[L] EXCEPT !.len = s[L].len + g]
<1>3. t = [s EXCEPT ![L] = x]
  BY DEF Prolonged
<1>n. Len(s) = L
  OBVIOUS
<1> HIDE DEF L
<1>4. x \in Entries /\ x.base = s[L].base /\ x.len = s[L].len + g
  <2> DEFINE y == s[L]
  <2>1. y \in [base : Nat, len : Nat]
    BY <1>2 DEF Entries
  <2>2. x = [y EXCEPT !.len = y.len + g]
    OBVIOUS
  <2> HIDE DEF x, y
  <2>3. x \in [base : Nat, len : Nat] /\ x.base = y.base /\ x.len = y.len + g
    BY <2>1, <2>2
  <2>4. QED
    BY <2>3 DEF y, Entries
<1> HIDE DEF x
<1>5. t \in Seq(Entries) /\ Len(t) = L
  BY <1>1, <1>3, <1>4, <1>n, ExceptSeq
<1>6. t[L] = x /\ \A k \in 1..(L - 1) : t[k] = s[k]
  BY <1>1, <1>3
<1>7. \A k \in 0..(L - 1) : Offsets(t)[k] = Offsets(s)[k]
  <2>1. L - 1 \in 0..Len(t) /\ L - 1 <= Len(s) /\ \A k \in 1..(L - 1) : t[k].len = s[k].len
    BY <1>1, <1>5, <1>6, <1>n
  <2>2. QED
    BY <1>5, <2>1, SameOffsets
<1>8. Sum(t) = Offsets(t)[L - 1] + t[L].len /\ Sum(t) = Offsets(t)[L]
  BY <1>1, <1>5, OffsetFacts
<1>9. Sum(t) = Sum(s) + g
  <2>1. Offsets(t)[L - 1] = Offsets(s)[L - 1]
    <3>1. L - 1 \in 0..(L - 1)
      BY <1>1
    <3>2. QED
      BY <1>7, <3>1
  <2>2. Sum(t) = Offsets(s)[L - 1] + (s[L].len + g)
    BY <1>4, <1>6, <1>8, <2>1
  <2>3. QED
    BY <1>2, <2>2
<1>10. QED
  BY <1>1, <1>4, <1>5, <1>6, <1>7, <1>8, <1>9, <1>n DEF Longer

(* What Gathered says of the entries.                                      *)
GoodEntry(s, n) ==
  /\ s[n].len > 0 /\ PageEnd(off + Offsets(s)[n])
  /\ \A b \in 0..(s[n].len - 1) : s[n].base + b = Phys(off + Offsets(s)[n - 1] + b)

LEMMA CoalesceStep ==
  ASSUME CopyInv, Coalesce
  PROVE  CopyInv'
<1> DEFINE c == count - rem
<1> DEFINE L == Len(sg)
<1> DEFINE x == pages[i + 1]
<1>1. /\ pc = "coalesce" /\ i < Len(pages) /\ rem > 0
      /\ sg' = IF Joins THEN [sg EXCEPT ![Len(sg)].len = @ + PgLen]
               ELSE Append(sg, [base |-> pages[i + 1] * PageSize + PgOff, len |-> PgLen])
      /\ rem' = rem - PgLen /\ i' = i + 1
      /\ UNCHANGED <<job, pc, off, count, pages, seg, hoff, err, resp, backed, moved, spoiled, scanned, result>>
  BY DEF Coalesce, hostVars
<1>2. TypeOK /\ Gathered /\ PageByPage /\ Position /\ Aligned /\ MovesPrefix /\ EmbeddedPointersFound
  BY DEF CopyInv
<1>3. /\ off < job.total /\ pages = Frames /\ count = BatchCount /\ rem <= count
      /\ Sum(sg) = c /\ (sg = <<>> <=> i = 0) /\ hoff = 0
      /\ i > 0 => PageOff + c = i * PageSize
      /\ \A n \in DOMAIN sg : GoodEntry(sg, n)
  BY <1>1, <1>2 DEF Gathered, PageByPage, GoodEntry
<1>4. /\ sg \in Seq(Entries) /\ off \in Nat /\ i \in Nat /\ rem \in Nat /\ count \in Nat /\ PageSize \in Nat \ {0}
      /\ L \in Nat /\ DOMAIN sg = 1..L
  BY <1>2, EntryFacts, JobFacts, OffsetFacts
<1>5. /\ i \in 0..(BatchPages - 1) /\ x \in Nat /\ c \in Nat /\ PgOff \in 0..(PageSize - 1)
      /\ PgLen \in Nat /\ PgLen > 0 /\ PgLen <= rem /\ PgOff + PgLen <= PageSize
      /\ i > 0 => PgOff = 0
      /\ \A b \in 0..(PgLen - 1) : Phys(off + (c + b)) = (x * PageSize) + (PgOff + b)
      /\ PageEnd(off + (c + PgLen))
      /\ rem - PgLen > 0 => PageOff + (c + PgLen) = (i + 1) * PageSize
  BY TurnFacts
<1>6. x * PageSize \in Nat
  BY <1>4, <1>5, Times
<1>7. rem' \in Nat /\ count' - rem' = c + PgLen
  <2>1. rem' = rem - PgLen /\ count' = count
    BY <1>1
  <2>2. rem \in Nat /\ count \in Nat /\ PgLen \in Nat /\ PgLen <= rem
    BY <1>4, <1>5
  <2>3. QED
    BY <2>1, <2>2
<1>n. Len(sg) = L
  OBVIOUS
<1> HIDE DEF c, x, L
<1>8. /\ sg' \in Seq(Entries) /\ sg' # <<>> /\ Sum(sg') = c + PgLen
      /\ \A n \in 1..Len(sg') : GoodEntry(sg', n)
  <2>1. CASE Joins
    <3>1. sg # <<>> /\ x = pages[i] + 1 /\ i > 0 /\ PgOff = 0
      BY <1>3, <1>4, <1>5, <2>1 DEF Joins, x
    <3>2. Prolonged(sg, PgLen, sg')
      BY <1>1, <2>1 DEF Prolonged
    <3>3. /\ sg' \in Seq(Entries) /\ Len(sg') = L /\ L \in 1..L
          /\ \A k \in 1..(L - 1) : sg'[k] = sg[k]
          /\ sg'[L].base = sg[L].base /\ sg'[L].len = sg[L].len + PgLen
          /\ \A k \in 0..(L - 1) : Offsets(sg')[k] = Offsets(sg)[k]
          /\ Offsets(sg')[L] = c + PgLen /\ Sum(sg') = c + PgLen
      <4>1. PgLen \in Nat /\ Sum(sg) = c /\ sg \in Seq(Entries) /\ sg # <<>>
        BY <1>3, <1>4, <1>5, <3>1
      <4>2. Longer(sg, PgLen, sg')
        BY <3>2, <4>1, LongerEntry
      <4>3. QED
        BY <1>n, <4>1, <4>2 DEF Longer
    <3>4. GoodEntry(sg, L) /\ Offsets(sg)[L - 1] \in Nat /\ sg[L].base \in Nat /\ sg[L].len \in Nat
          /\ c = Offsets(sg)[L - 1] + sg[L].len
      <4>1. L \in 1..Len(sg) /\ L \in DOMAIN sg /\ sg \in Seq(Entries) /\ Sum(sg) = c
        BY <1>3, <1>4, <1>n, <3>3
      <4>2. /\ Offsets(sg)[L] = Offsets(sg)[L - 1] + sg[L].len
            /\ sg[L].base \in Nat /\ sg[L].len \in Nat /\ L - 1 \in 0..Len(sg)
        BY <4>1, OffsetFacts
      <4>3. Offsets(sg)[L - 1] \in Nat
        BY <4>1, <4>2, OffsetFacts
      <4>4. Offsets(sg)[L] = c
        BY <1>n, <4>1 DEF Sum
      <4>5. QED
        BY <1>3, <4>1, <4>2, <4>3, <4>4
    <3> DEFINE o == Offsets(sg)[L - 1]
    <3> DEFINE l == sg[L].len
    <3> DEFINE base == sg[L].base
    <3>5. /\ o \in Nat /\ l \in Nat /\ base \in Nat /\ l > 0 /\ c = o + l
          /\ \A b \in 0..(l - 1) : base + b = Phys(off + o + b)
          /\ Offsets(sg')[L - 1] = o /\ sg'[L].base = base /\ sg'[L].len = l + PgLen
      <4>1. L - 1 \in 0..(L - 1)
        BY <1>4, <3>3
      <4>2. QED
        BY <3>3, <3>4, <4>1 DEF GoodEntry
    <3> HIDE DEF o, l, base
    (* The last byte of the entry is the last one of the page before.      *)
    <3>6. base + l = x * PageSize
      <4> DEFINE m == i - 1
      <4> DEFINE d == PageSize - 1
      <4> DEFINE k == c - 1
      <4>1. m \in Nat /\ d \in 0..(PageSize - 1) /\ k \in Nat /\ m \in 0..(BatchPages - 1) /\ m + 1 = i
        <5>1. BatchPages \in Nat
          BY <1>2, <1>3, BatchFacts
        <5>2. QED
          BY <1>4, <1>5, <3>1, <3>5, <5>1
      <4>2. PageOff + k = (m * PageSize) + d
        <5>1. PageOff + c = (m + 1) * PageSize
          BY <1>3, <3>1, <4>1
        <5>2. (m + 1) * PageSize = (m * PageSize) + PageSize /\ m * PageSize \in Nat
          BY <1>4, <4>1, Times
        <5>3. PageOff \in Nat
          BY <1>2, <1>3, BatchFacts
        <5>4. QED
          BY <1>4, <1>5, <4>1, <5>1, <5>2, <5>3
      <4>3. pages[i] = job.frame[(job.addr + off) \div PageSize + m] /\ pages[i] \in Nat
        BY <1>2, <1>3, <4>1, PagesAre
      <4> HIDE DEF m, k
      <4>4. Phys(off + k) = (pages[i] * PageSize) + d
        BY <1>2, <4>1, <4>2, <4>3, PhysIs
      <4>5. x * PageSize = (pages[i] * PageSize) + PageSize /\ pages[i] * PageSize \in Nat
        BY <1>4, <3>1, <4>3, Times
      <4>6. base + (l - 1) = Phys(off + o + (l - 1))
        BY <3>5
      <4>7. off + o + (l - 1) = off + k
        BY <1>4, <3>5 DEF k
      <4>8. base + (l - 1) = (pages[i] * PageSize) + d
        BY <4>4, <4>6, <4>7
      <4> DEFINE y == pages[i] * PageSize
      <4>9. /\ x * PageSize = y + PageSize /\ base + (l - 1) = y + d /\ y \in Nat
            /\ PageSize \in Nat /\ base \in Nat /\ l \in Nat /\ d \in 0..(PageSize - 1)
        BY <1>4, <3>5, <4>1, <4>5, <4>8
      <4> HIDE DEF y
      <4>10. QED
        BY <4>9
    <3>7. GoodEntry(sg', L)
      <4>1. PageEnd(off + Offsets(sg')[L])
        BY <1>5, <3>3
      <4>2. sg'[L].len > 0
        BY <1>5, <3>5
      <4>3. ASSUME NEW b \in 0..(sg'[L].len - 1)
            PROVE  sg'[L].base + b = Phys(off + Offsets(sg')[L - 1] + b)
        <5>1. b \in 0..((l + PgLen) - 1)
          BY <3>5
        <5>2. CASE b < l
          <6>1. b \in 0..(l - 1)
            BY <3>5, <5>1, <5>2
          <6>2. QED
            BY <3>5, <6>1
        <5>3. CASE ~(b < l)
          <6> DEFINE bb == b - l
          <6>1. bb \in 0..(PgLen - 1) /\ b = l + bb
            BY <1>5, <3>5, <5>1, <5>3
          <6>2. Phys(off + (c + bb)) = (x * PageSize) + (PgOff + bb)
            BY <1>5, <6>1
          <6>3. off + (c + bb) = off + o + b
            BY <1>4, <1>5, <3>5, <5>1, <6>1
          <6>4. (x * PageSize) + (PgOff + bb) = base + b
            BY <1>6, <3>1, <3>5, <3>6, <5>1, <6>1
          <6>5. QED
            BY <3>5, <6>2, <6>3, <6>4
        <5>4. QED
          BY <5>2, <5>3
      <4>4. QED
        BY <4>1, <4>2, <4>3 DEF GoodEntry
    <3>8. ASSUME NEW n \in 1..(L - 1) PROVE GoodEntry(sg', n)
      <4>1. n \in DOMAIN sg /\ n \in 0..(L - 1) /\ n - 1 \in 0..(L - 1)
        BY <1>4
      <4>2. GoodEntry(sg, n)
        BY <1>3, <4>1
      <4>3. sg'[n] = sg[n] /\ Offsets(sg')[n] = Offsets(sg)[n] /\ Offsets(sg')[n - 1] = Offsets(sg)[n - 1]
        BY <3>3, <4>1
      <4>4. QED
        BY <4>2, <4>3 DEF GoodEntry
    <3>9. \A n \in 1..Len(sg') : n = L \/ n \in 1..(L - 1)
      BY <1>4, <3>3
    <3>10. sg' # <<>>
      BY <3>3, EmptySeq
    <3>11. QED
      BY <3>3, <3>7, <3>8, <3>9, <3>10
  <2>2. CASE ~Joins
    <3> DEFINE e == [base |-> (x * PageSize) + PgOff, len |-> PgLen]
    <3>1. Appended(sg, e, sg')
      BY <1>1, <2>2 DEF x, Appended
    <3>2. e \in Entries /\ e.base = (x * PageSize) + PgOff /\ e.len = PgLen
      BY <1>5, <1>6 DEF Entries
    <3> HIDE DEF e
    <3>3. /\ sg' \in Seq(Entries) /\ Len(sg') = L + 1
          /\ \A k \in 1..L : sg'[k] = sg[k]
          /\ sg'[L + 1] = e
          /\ \A k \in 0..L : Offsets(sg')[k] = Offsets(sg)[k]
          /\ Offsets(sg')[L + 1] = c + PgLen /\ Sum(sg') = c + PgLen
      BY <1>3, <1>4, <1>n, <3>1, <3>2, AppendEntry
    <3>4. L \in 0..L /\ (L + 1) - 1 = L /\ Offsets(sg)[L] = c
      BY <1>3, <1>4, <1>n DEF Sum
    <3>5. GoodEntry(sg', L + 1)
      <4>1. PageEnd(off + Offsets(sg')[L + 1])
        BY <1>5, <3>3
      <4>2. sg'[L + 1].len > 0
        BY <1>5, <3>2, <3>3
      <4>3. ASSUME NEW b \in 0..(sg'[L + 1].len - 1)
            PROVE  sg'[L + 1].base + b = Phys(off + Offsets(sg')[(L + 1) - 1] + b)
        <5>1. b \in 0..(PgLen - 1)
          BY <3>2, <3>3
        <5>2. Phys(off + (c + b)) = (x * PageSize) + (PgOff + b)
          BY <1>5, <5>1
        <5>3. off + (c + b) = off + c + b
          BY <1>4, <1>5, <5>1
        <5>4. Offsets(sg')[(L + 1) - 1] = c
          BY <3>3, <3>4
        <5>5. (x * PageSize) + (PgOff + b) = e.base + b
          BY <1>5, <1>6, <3>2, <5>1
        <5>6. QED
          BY <3>3, <5>2, <5>3, <5>4, <5>5
      <4>4. QED
        BY <4>1, <4>2, <4>3 DEF GoodEntry
    <3>6. ASSUME NEW n \in 1..L PROVE GoodEntry(sg', n)
      <4>1. n \in DOMAIN sg /\ n \in 0..L /\ n - 1 \in 0..L
        BY <1>4
      <4>2. GoodEntry(sg, n)
        BY <1>3, <4>1
      <4>3. sg'[n] = sg[n] /\ Offsets(sg')[n] = Offsets(sg)[n] /\ Offsets(sg')[n - 1] = Offsets(sg)[n - 1]
        BY <3>3, <4>1
      <4>4. QED
        BY <4>2, <4>3 DEF GoodEntry
    <3>7. \A n \in 1..Len(sg') : n = L + 1 \/ n \in 1..L
      BY <1>4, <3>3
    <3>8. sg' # <<>>
      BY <1>4, <3>3, EmptySeq
    <3>9. QED
      BY <3>3, <3>5, <3>6, <3>7, <3>8
  <2>3. QED
    BY <2>1, <2>2
<1>9. TypeOK'
  <2>1. i' \in Nat
    BY <1>1, <1>4
  <2>2. QED
    BY <1>1, <1>2, <1>7, <1>8, <2>1 DEF TypeOK, Entries
<1>10. PageOff' = PageOff /\ BatchCount' = BatchCount /\ Frames' = Frames
  BY <1>1, SameBatch
<1>11. \A k : Phys(k)' = Phys(k) /\ (PageEnd(k)' <=> PageEnd(k))
  BY <1>1, SamePlaces
<1>12. Gathered'
  <2>1. DOMAIN sg' = 1..Len(sg')
    BY <1>8, LenProperties
  <2>2. ASSUME NEW n \in DOMAIN sg'
        PROVE  (/\ sg[n].len > 0 /\ PageEnd(off + Offsets(sg)[n])
                /\ \A b \in 0..(sg[n].len - 1) : sg[n].base + b = Phys(off + Offsets(sg)[n - 1] + b))'
    <3>1. GoodEntry(sg', n)
      BY <1>8, <2>1
    <3>2. job' = job /\ off' = off
      BY <1>1
    <3>3. QED
      BY <3>1, <3>2 DEF GoodEntry, PageEnd, Phys
  <2>3. rem' <= count' /\ Sum(sg') = count' - rem'
    <3>1. rem' <= count'
      <4>1. rem' = rem - PgLen /\ count' = count
        BY <1>1
      <4>2. rem \in Nat /\ count \in Nat /\ PgLen \in Nat /\ rem <= count
        BY <1>3, <1>4, <1>5
      <4>3. QED
        BY <4>1, <4>2
    <3>2. QED
      BY <1>7, <1>8, <3>1
  <2>4. QED
    BY <1>1, <1>3, <1>10, <2>2, <2>3 DEF Gathered
<1>13. PageByPage'
  <2>1. i' <= Len(pages')
    <3>1. Len(pages) \in Nat
      BY <1>2, EntryFacts, LenProperties
    <3>2. QED
      BY <1>1, <1>4, <3>1
  <2>2. i' # 0 /\ sg' # <<>> /\ hoff' = 0
    BY <1>1, <1>3, <1>4, <1>8
  <2>3. rem' > 0 => PageOff' + (count' - rem') = i' * PageSize
    BY <1>1, <1>5, <1>7, <1>10
  <2>4. QED
    BY <2>1, <2>2, <2>3 DEF PageByPage
<1>14. Position'
  BY <1>1, <1>2, SameKind DEF Position
<1>15. Aligned' /\ MovesPrefix' /\ EmbeddedPointersFound'
  BY <1>1, <1>2, <1>9, NothingMoved
<1>16. QED
  BY <1>9, <1>12, <1>13, <1>14, <1>15 DEF CopyInv
------------------------------------------------------------------------------
(* The other steps.                                                        *)

LEMMA SameEntries ==
  ASSUME TypeOK, Gathered, pc \in {"coalesce", "host"}, UNCHANGED <<job, off, count, pages, rem, sg>>
  PROVE  Gathered'
<1>1. BatchCount' = BatchCount /\ Frames' = Frames
  BY SameBatch
<1>2. /\ off < job.total /\ pages = Frames /\ count = BatchCount
      /\ rem <= count /\ Sum(sg) = count - rem
      /\ \A n \in DOMAIN sg : GoodEntry(sg, n)
  BY DEF Gathered, GoodEntry
<1>3. ASSUME NEW n \in DOMAIN sg'
      PROVE  (/\ sg[n].len > 0 /\ PageEnd(off + Offsets(sg)[n])
              /\ \A b \in 0..(sg[n].len - 1) : sg[n].base + b = Phys(off + Offsets(sg)[n - 1] + b))'
  <2>1. GoodEntry(sg, n)
    BY <1>2
  <2>2. job' = job /\ off' = off /\ sg' = sg
    OBVIOUS
  <2>3. QED
    BY <2>1, <2>2 DEF GoodEntry, PageEnd, Phys
<1>4. (off < job.total /\ pages = Frames /\ count = BatchCount /\ rem <= count /\ Sum(sg) = count - rem)'
  BY <1>1, <1>2
<1>5. QED
  BY <1>3, <1>4 DEF Gathered

(* A whole batch is in the entries when it is sent.                        *)
LEMMA BatchInEntries ==
  ASSUME TypeOK, Gathered, PageByPage, Coalesced
  PROVE  rem = 0
<1>1. pc = "coalesce" /\ (i >= Len(pages) \/ rem = 0)
  BY DEF Coalesced
<1>2. /\ off < job.total /\ pages = Frames /\ count = BatchCount /\ rem <= count
      /\ i <= Len(pages)
      /\ i > 0 /\ rem > 0 => PageOff + (count - rem) = i * PageSize
  BY <1>1 DEF Gathered, PageByPage
<1>3. /\ PageOff \in Nat /\ BatchPages \in Nat /\ BatchPages > 0 /\ Len(pages) = BatchPages
      /\ PageOff + count <= BatchPages * PageSize
  BY <1>2, BatchFacts, PagesAre
<1>4. rem \in Nat /\ count \in Nat /\ i \in Nat
  BY EntryFacts
<1>5. ASSUME rem # 0 PROVE FALSE
  <2>1. i = BatchPages /\ i > 0 /\ rem > 0
    BY <1>1, <1>2, <1>3, <1>4, <1>5
  <2>2. PageOff + (count - rem) = BatchPages * PageSize
    BY <1>2, <2>1
  <2>3. QED
    BY <1>2, <1>3, <1>4, <2>1, <2>2
<1>6. QED
  BY <1>5

LEMMA WantedIs ==
  ASSUME TypeOK, Gathered, pc \in {"coalesce", "host"}, rem = 0
  PROVE  Sum(sg) = count /\ Wanted = count
<1>1. Sum(sg) = count - rem /\ count \in Nat
  BY EntryFacts DEF Gathered
<1>2. Sum(sg) = count
  BY <1>1
<1>3. QED
  BY <1>2 DEF Wanted

LEMMA SubmitStep ==
  ASSUME CopyInv, Submit
  PROVE  CopyInv'
<1>1. /\ Coalesced /\ pc = "coalesce" /\ pc' = "host" /\ seg' = [n |-> 1, done |-> 0]
      /\ err' = (Stray \/ Sum(sg) < Wanted)
      /\ UNCHANGED <<job, off, count, pages, i, rem, sg, hoff, resp, backed, moved, spoiled, scanned, result>>
  BY DEF Submit, Coalesced, loopVars
<1>2. TypeOK /\ Gathered /\ PageByPage /\ Position /\ Aligned /\ MovesPrefix /\ EmbeddedPointersFound
  BY DEF CopyInv
<1>3. rem = 0 /\ hoff = 0
  BY <1>1, <1>2, BatchInEntries DEF PageByPage
<1>4. TypeOK'
  <2>1. err' \in BOOLEAN
    BY <1>1
  <2>2. QED
    BY <1>1, <1>2, <2>1 DEF TypeOK
<1>5. Gathered'
  BY <1>1, <1>2, SameEntries
<1>6. PageByPage'
  BY <1>1 DEF PageByPage
<1>7. Position'
  <2>1. sg \in Seq(Entries) /\ Len(sg) \in Nat /\ DOMAIN sg = 1..Len(sg) /\ Offsets(sg)[0] = 0
    BY <1>2, EntryFacts, OffsetFacts
  <2>2. \A n \in 1..Len(sg) : sg[n].len > 0
    BY <1>1, <1>2, <2>1 DEF Gathered
  <2>3. seg'.n = 1 /\ seg'.done = 0 /\ 1 \in 1..(Len(sg) + 1) /\ 1 - 1 = 0
    BY <1>1, <2>1
  <2>4. 1 <= Len(sg) => 0 < sg[1].len
    BY <2>1, <2>2
  <2>5. hoff' = Offsets(sg')[seg'.n - 1] + seg'.done
    BY <1>1, <1>3, <2>1, <2>3
  <2>6. off + hoff <= job.total /\ (result = "ok" => off + hoff = job.total)
    BY <1>2 DEF Position
  <2>7. rem' = 0 /\ seg'.n \in 1..(Len(sg') + 1) /\ (seg'.n <= Len(sg') => seg'.done < sg'[seg'.n].len)
    BY <1>1, <1>3, <2>3, <2>4
  <2>8. resp' = resp /\ pc' = "host" /\ ~resp /\ (Stray => hoff = 0)
        /\ (Stray => err') /\ (Stray' <=> Stray)
    BY <1>1, <1>2, SameKind DEF Position
  <2>9. QED
    BY <1>1, <2>3, <2>5, <2>6, <2>7, <2>8 DEF Position
<1>8. Aligned' /\ MovesPrefix' /\ EmbeddedPointersFound'
  BY <1>1, <1>2, <1>4, NothingMoved
<1>9. QED
  BY <1>4, <1>5, <1>6, <1>7, <1>8 DEF CopyInv

(* Steps that end the call without moving anything.                        *)
LEMMA StopStep ==
  ASSUME CopyInv, pc' = "done", result' \in {"ok", "cuda", "errno"}, pages' \in Seq(Nat),
         UNCHANGED <<job, off, count, i, rem, sg, seg, hoff, err, resp, backed, moved, spoiled, scanned>>,
         result' = "ok" => off + hoff = job.total
  PROVE  CopyInv'
<1>1. TypeOK /\ Position /\ Aligned /\ MovesPrefix /\ EmbeddedPointersFound
  BY DEF CopyInv
<1>2. TypeOK'
  BY <1>1 DEF TypeOK
<1>3. Gathered' /\ PageByPage'
  BY DEF Gathered, PageByPage
<1>4. Position'
  BY <1>1, SameKind DEF Position
<1>5. Aligned' /\ MovesPrefix' /\ EmbeddedPointersFound'
  BY <1>1, <1>2, NothingMoved
<1>6. QED
  BY <1>2, <1>3, <1>4, <1>5 DEF CopyInv

LEMMA PinFailsStep ==
  ASSUME CopyInv, PinFails
  PROVE  CopyInv'
<1>1. /\ pc' = "done" /\ result' = "errno"
      /\ UNCHANGED <<job, off, count, pages, i, rem, sg, seg, hoff, err, resp, backed, moved, spoiled, scanned>>
  BY DEF PinFails, Stop, loopVars, hostVars
<1>2. pages' \in Seq(Nat)
  BY <1>1 DEF CopyInv, TypeOK
<1>3. QED
  BY <1>1, <1>2, StopStep

LEMMA SubmitFailsStep ==
  ASSUME CopyInv, SubmitFails
  PROVE  CopyInv'
<1>1. /\ pc' = "done" /\ result' = "errno" /\ pages' = <<>>
      /\ UNCHANGED <<job, off, count, i, rem, sg, seg, hoff, err, resp, backed, moved, spoiled, scanned>>
  BY DEF SubmitFails, Stop, hostVars
<1>2. pages' \in Seq(Nat)
  BY <1>1, EmptySeq DEF CopyInv, TypeOK
<1>3. QED
  BY <1>1, <1>2, StopStep

LEMMA LoopDoneStep ==
  ASSUME CopyInv, LoopDone
  PROVE  CopyInv'
<1>1. /\ pc = "loop" /\ ~(off < job.total) /\ pc' = "done" /\ result' = "ok"
      /\ UNCHANGED <<job, off, count, pages, i, rem, sg, seg, hoff, err, resp, backed, moved, spoiled, scanned>>
  BY DEF LoopDone, More, Stop, loopVars, hostVars
<1>2. TypeOK /\ hoff = 0 /\ off + hoff <= job.total
  BY <1>1 DEF CopyInv, Position
<1>3. pages' \in Seq(Nat)
  BY <1>1, <1>2 DEF TypeOK
<1>4. off \in Nat /\ job.total \in Nat
  BY <1>2, EntryFacts, JobFacts
<1>5. off + hoff = job.total
  BY <1>1, <1>2, <1>4
<1>6. QED
  BY <1>1, <1>3, <1>5, StopStep

LEMMA ReapStep ==
  ASSUME CopyInv, Reap
  PROVE  CopyInv'
<1>1. /\ pc = "reap" /\ pages' = <<>>
      /\ UNCHANGED <<job, count, i, rem, sg, seg, err, resp, backed, moved, spoiled, scanned>>
  BY DEF Reap
<1>2. TypeOK /\ Position /\ Aligned /\ MovesPrefix /\ EmbeddedPointersFound
  BY DEF CopyInv
<1>3. pages' \in Seq(Nat)
  BY <1>1, EmptySeq
<1>4. CASE resp
  <2>1. pc' = "done" /\ result' = "cuda" /\ UNCHANGED <<off, hoff>>
    BY <1>4 DEF Reap, Stop
  <2>2. QED
    BY <1>1, <1>3, <2>1, StopStep
<1>5. CASE ~resp
  <2>1. pc' = "loop" /\ off' = off + count /\ hoff' = 0 /\ result' = result
    BY <1>5 DEF Reap
  <2>2. off \in Nat /\ count \in Nat /\ hoff \in Nat /\ job.total \in Nat
    BY <1>2, EntryFacts, JobFacts
  <2>3. /\ off + count <= job.total /\ off + hoff <= job.total /\ (result = "ok" => off + hoff = job.total)
        /\ ~Stray => hoff = count
        /\ Stray => hoff = 0 /\ err
    BY <1>1, <1>2, <1>5 DEF Position
  <2>4. off' \in Nat /\ hoff' \in Nat /\ off' + hoff' = off + count
    BY <2>1, <2>2
  <2>5. off' + hoff' = off + hoff \/ Stray
    BY <2>3, <2>4
  <2>6. TypeOK'
    BY <1>1, <1>2, <1>3, <2>1, <2>4 DEF TypeOK
  <2>7. Gathered' /\ PageByPage'
    BY <2>1 DEF Gathered, PageByPage
  <2>8. off' + hoff' <= job.total /\ (result = "ok" => off' + hoff' = job.total)
    <3>1. off + count <= job.total /\ (result = "ok" => off + count = job.total)
      BY <2>2, <2>3
    <3>2. QED
      BY <2>4, <3>1
  <2>9. Position'
    BY <1>1, <1>5, <2>1, <2>3, <2>8, SameKind DEF Position
  <2>10. Aligned' /\ MovesPrefix' /\ EmbeddedPointersFound'
    BY <1>1, <1>2, <2>5, <2>6, NothingMoved
  <2>11. QED
    BY <2>6, <2>7, <2>9, <2>10 DEF CopyInv
<1>6. QED
  BY <1>4, <1>5

LEMMA HostFailsStep ==
  ASSUME CopyInv, HostFails
  PROVE  CopyInv'
<1>1. /\ pc = "host" /\ err' = TRUE
      /\ UNCHANGED <<job, pc, off, count, pages, i, rem, sg, seg, hoff, resp, backed, moved, spoiled, scanned, result>>
  BY DEF HostFails, loopVars
<1>2. TypeOK /\ Gathered /\ Position /\ Aligned /\ MovesPrefix /\ EmbeddedPointersFound
  BY DEF CopyInv
<1>3. TypeOK'
  BY <1>1, <1>2 DEF TypeOK
<1>4. Gathered'
  BY <1>1, <1>2, SameEntries
<1>5. PageByPage' /\ Position'
  BY <1>1, <1>2, SameKind DEF PageByPage, Position
<1>6. Aligned' /\ MovesPrefix' /\ EmbeddedPointersFound'
  BY <1>1, <1>2, <1>3, NothingMoved
<1>7. QED
  BY <1>3, <1>4, <1>5, <1>6 DEF CopyInv

(* The entry the daemon is at.                                             *)
LEMMA EntryAt ==
  ASSUME CopyInv, pc = "host"
  PROVE  /\ sg \in Seq(Entries) /\ Len(sg) \in Nat /\ rem = 0 /\ Wanted = count /\ Sum(sg) = count
         /\ off \in Nat /\ hoff \in Nat /\ count \in Nat /\ job.total \in Nat /\ off + count <= job.total
         /\ seg.n \in 1..(Len(sg) + 1) /\ seg.done \in Nat
         /\ seg.n <= Len(sg) =>
              /\ seg.n \in 1..Len(sg) /\ GoodEntry(sg, seg.n)
              /\ sg[seg.n].base \in Nat /\ sg[seg.n].len \in Nat /\ seg.done < sg[seg.n].len
              /\ Offsets(sg)[seg.n - 1] \in Nat /\ hoff = Offsets(sg)[seg.n - 1] + seg.done
              /\ Offsets(sg)[seg.n] = Offsets(sg)[seg.n - 1] + sg[seg.n].len
              /\ Offsets(sg)[seg.n] <= count
         /\ seg.n = Len(sg) + 1 => hoff = count
<1>1. TypeOK /\ Gathered /\ Position
  BY DEF CopyInv
<1>2. /\ rem = 0 /\ seg.n \in 1..(Len(sg) + 1)
      /\ hoff = Offsets(sg)[seg.n - 1] + seg.done
      /\ seg.n = Len(sg) + 1 => seg.done = 0
      /\ seg.n <= Len(sg) => seg.done < sg[seg.n].len
  BY <1>1 DEF Position
<1>3. Sum(sg) = count /\ Wanted = count
  BY <1>1, <1>2, WantedIs
<1>4. /\ sg \in Seq(Entries) /\ off \in Nat /\ hoff \in Nat /\ count \in Nat /\ seg.n \in Nat /\ seg.done \in Nat
      /\ job.total \in Nat
  BY <1>1, EntryFacts, JobFacts
<1>5. off + count <= job.total
  <2>1. off < job.total /\ count = BatchCount
    BY <1>1 DEF Gathered
  <2>2. QED
    BY <1>1, <2>1, BatchFacts
<1>6. Len(sg) \in Nat /\ DOMAIN sg = 1..Len(sg) /\ Offsets(sg)[Len(sg)] = count
  BY <1>3, <1>4, OffsetFacts
<1>7. ASSUME seg.n <= Len(sg)
      PROVE  /\ seg.n \in 1..Len(sg) /\ GoodEntry(sg, seg.n)
             /\ sg[seg.n].base \in Nat /\ sg[seg.n].len \in Nat
             /\ Offsets(sg)[seg.n - 1] \in Nat
             /\ Offsets(sg)[seg.n] = Offsets(sg)[seg.n - 1] + sg[seg.n].len
             /\ Offsets(sg)[seg.n] <= count
  <2>1. seg.n \in 1..Len(sg) /\ seg.n \in 0..Len(sg) /\ Len(sg) \in 0..Len(sg)
    BY <1>2, <1>4, <1>6, <1>7
  <2>2. GoodEntry(sg, seg.n)
    BY <1>1, <1>6, <2>1 DEF Gathered, GoodEntry
  <2>3. Offsets(sg)[seg.n] <= Offsets(sg)[Len(sg)]
    BY <1>4, <1>7, <2>1, Ascending
  <2>4. QED
    BY <1>4, <1>6, <2>1, <2>2, <2>3, OffsetFacts
<1>8. ASSUME seg.n = Len(sg) + 1 PROVE hoff = count
  <2>1. seg.n - 1 = Len(sg) /\ seg.done = 0
    BY <1>2, <1>6, <1>8
  <2>2. QED
    BY <1>2, <1>4, <1>6, <2>1
<1>9. QED
  BY <1>2, <1>3, <1>4, <1>5, <1>6, <1>7, <1>8

(* What a request names lies in the range of the copy.                     *)
LEMMA OwnBytes ==
  ASSUME CopyInv, pc = "host", NEW e \in DOMAIN sg, NEW b \in 0..(sg[e].len - 1)
  PROVE  sg[e].base + b \in Nat /\ \E k \in 0..(job.total - 1) : sg[e].base + b = Phys(k)
<1> DEFINE o == Offsets(sg)[e - 1]
<1> DEFINE l == sg[e].len
<1> DEFINE base == sg[e].base
<1>1. /\ sg \in Seq(Entries) /\ Len(sg) \in Nat /\ Sum(sg) = count /\ off \in Nat /\ count \in Nat
      /\ job.total \in Nat /\ off + count <= job.total
  BY EntryAt
<1>2. DOMAIN sg = 1..Len(sg) /\ Offsets(sg)[Len(sg)] = count
  BY <1>1, OffsetFacts
<1>3. GoodEntry(sg, e)
  BY <1>2 DEF CopyInv, Gathered, GoodEntry
<1>4. o \in Nat /\ l \in Nat /\ base \in Nat /\ Offsets(sg)[e] = o + l
  BY <1>1, <1>2, OffsetFacts
<1>5. o + l <= count
  <2>1. e \in 0..Len(sg) /\ Len(sg) \in 0..Len(sg) /\ e <= Len(sg)
    BY <1>1, <1>2
  <2>2. Offsets(sg)[e] <= Offsets(sg)[Len(sg)]
    BY <1>1, <2>1, Ascending
  <2>3. QED
    BY <1>2, <1>4, <2>2
<1>6. base + b = Phys(off + o + b)
  BY <1>3 DEF GoodEntry
<1>7. b \in 0..(l - 1)
  OBVIOUS
<1> DEFINE t == job.total
<1>8. t \in Nat /\ off + count <= t
  BY <1>1
<1> HIDE DEF o, l, base, t
<1>9. off + o + b \in 0..(t - 1) /\ base + b \in Nat
  BY <1>1, <1>4, <1>5, <1>7, <1>8
<1>10. QED
  BY <1>6, <1>9 DEF base, t

LEMMA HostRespondStep ==
  ASSUME CopyInv, HostRespond
  PROVE  CopyInv'
<1>1. /\ pc = "host" /\ ~Segments /\ pc' = "reap"
      /\ resp' = (IF Stray THEN resp ELSE err)
      /\ spoiled' = IF Stray THEN spoiled \cup FirstBytes(HeaderSize) ELSE spoiled
      /\ UNCHANGED <<job, off, count, pages, i, rem, sg, seg, hoff, err, backed, moved, scanned, result>>
  BY DEF HostRespond, loopVars
<1>2. TypeOK /\ Position /\ Aligned /\ MovesPrefix /\ EmbeddedPointersFound
  BY DEF CopyInv
<1>a. ASSUME NEW x \in FirstBytes(HeaderSize)
      PROVE  x \in Nat /\ x \in {Phys(k) : k \in 0..(job.total - 1)}
  <2>1. PICK e \in DOMAIN sg : \E b \in {c \in 0..(sg[e].len - 1) : Offsets(sg)[e - 1] + c < HeaderSize} :
          x = sg[e].base + b
    BY DEF FirstBytes
  <2>2. PICK b \in 0..(sg[e].len - 1) : x = sg[e].base + b
    BY <2>1
  <2>3. QED
    BY <1>1, <2>2, OwnBytes
<1>b. UNCHANGED spoiled \/ (Stray /\ spoiled' \subseteq {Phys(k) : k \in 0..(job.total - 1)})
  BY <1>1, <1>2, <1>a DEF MovesPrefix
<1>3. TypeOK'
  <2>1. spoiled' \subseteq Nat /\ resp' \in BOOLEAN
    BY <1>1, <1>2, <1>a DEF TypeOK
  <2>2. QED
    BY <1>1, <1>2, <2>1 DEF TypeOK
<1>4. Gathered' /\ PageByPage'
  BY <1>1 DEF Gathered, PageByPage
<1>5. ~err => hoff = count
  <2>1. SUFFICES ASSUME ~err PROVE hoff = count
    OBVIOUS
  <2>2. ~(seg.n <= Len(sg)) \/ ~(hoff < Wanted)
    BY <1>1, <2>1 DEF Segments
  <2>3. CASE seg.n = Len(sg) + 1
    BY <1>1, <2>3, EntryAt
  <2>4. CASE seg.n # Len(sg) + 1
    <3>1. Len(sg) \in Nat /\ seg.n \in 1..(Len(sg) + 1) /\ Wanted = count
      BY <1>1, EntryAt
    <3>2. seg.n <= Len(sg)
      BY <2>4, <3>1
    <3>3. /\ hoff = Offsets(sg)[seg.n - 1] + seg.done /\ seg.done < sg[seg.n].len
          /\ Offsets(sg)[seg.n] = Offsets(sg)[seg.n - 1] + sg[seg.n].len
          /\ Offsets(sg)[seg.n] <= count
          /\ Offsets(sg)[seg.n - 1] \in Nat /\ sg[seg.n].len \in Nat /\ seg.done \in Nat /\ count \in Nat
      BY <1>1, <3>2, EntryAt
    <3>4. hoff < count
      BY <3>3
    <3>5. QED
      BY <2>2, <3>1, <3>2, <3>4
  <2>5. QED
    BY <2>3, <2>4
<1>6. Position'
  <2>1. off + count <= job.total
    BY <1>1, EntryAt
  <2>2. off + hoff <= job.total /\ (result = "ok" => off + hoff = job.total) /\ (Stray => hoff = 0 /\ err)
    BY <1>1, <1>2 DEF Position
  <2>3. resp' = (err /\ ~Stray)
    BY <1>1, <1>2 DEF Position, TypeOK
  <2>4. QED
    BY <1>1, <1>5, <2>1, <2>2, <2>3, SameKind DEF Position
<1>7. Aligned' /\ MovesPrefix' /\ EmbeddedPointersFound'
  BY <1>1, <1>2, <1>3, <1>b, NothingMoved
<1>8. QED
  BY <1>3, <1>4, <1>6, <1>7 DEF CopyInv
------------------------------------------------------------------------------
(* Moving a segment.                                                       *)

LEMMA QuotientGrows ==
  ASSUME NEW p \in Nat \ {0}, NEW x \in Nat, NEW y \in Nat, x <= y
  PROVE  x \div p <= y \div p
<1> DEFINE a == x \div p
<1> DEFINE r == x % p
<1> DEFINE b == y \div p
<1> DEFINE t == y % p
<1>1. a \in Nat /\ r \in 0..(p - 1) /\ x = a * p + r
  BY Divided
<1>2. b \in Nat /\ t \in 0..(p - 1) /\ y = b * p + t
  BY Divided
<1> HIDE DEF a, r, b, t
<1>3. SUFFICES ASSUME b < a PROVE FALSE
  BY <1>1, <1>2 DEF a, b
<1>4. b * p + p <= a * p /\ a * p \in Nat /\ b * p \in Nat
  BY <1>1, <1>2, <1>3, Times
<1>5. QED
  BY <1>1, <1>2, <1>4

(* The byte of guest memory where byte k of the range lies.                *)
LEMMA PhysFacts ==
  ASSUME TypeOK, NEW k \in Nat, k <= job.total
  PROVE  /\ (job.addr + k) \div PageSize \in DOMAIN job.frame
         /\ job.frame[(job.addr + k) \div PageSize] \in Nat
         /\ Phys(k) \in Nat
         /\ Phys(k) \div PageSize = job.frame[(job.addr + k) \div PageSize]
         /\ Phys(k) % PageSize = (job.addr + k) % PageSize
<1> DEFINE x == job.addr + k
<1> DEFINE z == job.addr + job.total
<1>1. PageSize \in Nat \ {0} /\ x \in Nat /\ z \in Nat /\ x <= z
  BY JobFacts
<1> HIDE DEF x, z
<1>2. x \div PageSize \in Nat /\ z \div PageSize \in Nat /\ x % PageSize \in 0..(PageSize - 1)
  BY <1>1, Divided
<1>3. x \div PageSize <= z \div PageSize
  BY <1>1, QuotientGrows
<1>4. x \div PageSize \in 0..(z \div PageSize)
  <2> DEFINE a == x \div PageSize
  <2> DEFINE b == z \div PageSize
  <2>1. a \in Nat /\ b \in Nat /\ a <= b
    BY <1>2, <1>3
  <2> HIDE DEF a, b
  <2>2. a \in 0..b
    BY <2>1
  <2>3. QED
    BY <2>2 DEF a, b
<1>5. x \div PageSize \in DOMAIN job.frame
  BY <1>4, JobFacts DEF z
<1>6. job.frame[x \div PageSize] \in Nat
  BY <1>5, JobFacts
<1> DEFINE f == job.frame[x \div PageSize]
<1> DEFINE r == x % PageSize
<1>7. f \in Nat /\ r \in 0..(PageSize - 1) /\ Phys(k) = (f * PageSize) + r
  BY <1>2, <1>6 DEF Phys, x
<1> HIDE DEF f, r
<1>8. f * PageSize \in Nat
  BY <1>1, <1>7, Times
<1>9. Phys(k) \in Nat
  BY <1>1, <1>7, <1>8
<1>10. Phys(k) \div PageSize = f /\ Phys(k) % PageSize = r
  BY <1>1, <1>7, DividedAs
<1>11. QED
  BY <1>5, <1>6, <1>9, <1>10 DEF f, r, x

(* The words of m bytes, a multiple of a word, and of the n bytes behind.  *)
LEMMA WordsAppend ==
  ASSUME NEW m \in Nat, NEW n \in Nat, m % WordSize = 0
  PROVE  WordsIn(m) \cup {m + w : w \in WordsIn(n)} = WordsIn(m + n)
<1>1. WordSize \in Nat \ {0} /\ m + n \in Nat
  BY CopyAssumption
<1>2. ASSUME NEW w \in WordsIn(m) PROVE w \in WordsIn(m + n)
  <2>1. w \in 0..(m - 1) /\ w % WordSize = 0 /\ w + WordSize <= m
    BY DEF WordsIn
  <2>2. w \in 0..((m + n) - 1) /\ w + WordSize <= m + n
    BY <1>1, <2>1
  <2>3. QED
    BY <2>1, <2>2 DEF WordsIn
<1>3. ASSUME NEW v \in WordsIn(n) PROVE m + v \in WordsIn(m + n)
  <2>1. v \in 0..(n - 1) /\ v % WordSize = 0 /\ v + WordSize <= n
    BY DEF WordsIn
  <2>2. m + v \in 0..((m + n) - 1) /\ (m + v) + WordSize <= m + n /\ v \in Nat
    BY <1>1, <2>1
  <2>3. (m + v) % WordSize = 0
    BY <1>1, <2>1, <2>2, Multiples
  <2>4. QED
    BY <2>2, <2>3 DEF WordsIn
<1>4. ASSUME NEW w \in WordsIn(m + n), w \notin WordsIn(m) PROVE \E v \in WordsIn(n) : w = m + v
  <2>1. w \in 0..((m + n) - 1) /\ w % WordSize = 0 /\ w + WordSize <= m + n /\ w \in Nat
    BY <1>1 DEF WordsIn
  <2>2. ~(w < m)
    <3>1. SUFFICES ASSUME w < m PROVE FALSE
      OBVIOUS
    <3> DEFINE a == w \div WordSize
    <3> DEFINE b == m \div WordSize
    <3>2. a \in Nat /\ b \in Nat /\ w = a * WordSize /\ m = b * WordSize
      <4>1. w = (a * WordSize) + (w % WordSize) /\ a \in Nat
        BY <1>1, <2>1, Divided
      <4>2. m = (b * WordSize) + (m % WordSize) /\ b \in Nat
        BY <1>1, Divided
      <4>3. a * WordSize \in Nat /\ b * WordSize \in Nat
        BY <1>1, <4>1, <4>2, Times
      <4>4. QED
        BY <2>1, <4>1, <4>2, <4>3
    <3> HIDE DEF a, b
    <3>3. a < b
      <4>1. SUFFICES ASSUME b <= a PROVE FALSE
        BY <3>2
      <4>2. b * WordSize <= a * WordSize
        BY <1>1, <3>2, <4>1, Times
      <4>3. QED
        BY <2>1, <3>1, <3>2, <4>2
    <3>4. w + WordSize <= m
      BY <1>1, <3>2, <3>3, Times
    <3>5. w \in 0..(m - 1)
      BY <2>1, <3>1
    <3>6. QED
      BY <1>4, <2>1, <3>4, <3>5 DEF WordsIn
  <2> DEFINE v == w - m
  <2>3. v \in Nat /\ w = m + v /\ v \in 0..(n - 1) /\ v + WordSize <= n
    BY <1>1, <2>1, <2>2
  <2> HIDE DEF v
  <2>4. v % WordSize = 0
    <3>1. (m + v) % WordSize = v % WordSize
      BY <1>1, <2>3, Multiples
    <3>2. QED
      BY <2>1, <2>3, <3>1
  <2>5. v \in WordsIn(n)
    BY <2>3, <2>4 DEF WordsIn
  <2>6. QED
    BY <2>3, <2>5
<1>5. QED
  BY <1>2, <1>3, <1>4

(* n bytes, from where the daemon is in an entry, to a place where its     *)
(* mapping of guest memory may end.                                        *)
LEMMA ChunkFacts ==
  ASSUME CopyInv, pc = "host", Segments, NEW n \in Cuts(sg[seg.n], seg.done)
  PROVE  /\ n \in Nat /\ n > 0 /\ Chunk(n) = n /\ seg.n \in 1..Len(sg)
         /\ off + hoff \in Nat /\ off + hoff < job.total
         /\ (off + hoff) + n \in Nat /\ (off + hoff) + n <= job.total
         /\ seg.done + n <= sg[seg.n].len
         /\ \A b \in 0..(n - 1) : sg[seg.n].base + seg.done + b = Phys((off + hoff) + b)
         /\ (job.addr + ((off + hoff) + n)) % PageSize = 0 \/ (off + hoff) + n = job.total
<1> DEFINE e == sg[seg.n]
<1> DEFINE o == Offsets(sg)[seg.n - 1]
<1> DEFINE m == off + hoff
<1>1. seg.n <= Len(sg) /\ hoff < Wanted
  BY DEF Segments
<1>2. /\ sg \in Seq(Entries) /\ Len(sg) \in Nat /\ Wanted = count /\ off \in Nat /\ hoff \in Nat /\ count \in Nat
      /\ job.total \in Nat /\ off + count <= job.total /\ seg.n \in 1..Len(sg) /\ seg.done \in Nat
      /\ GoodEntry(sg, seg.n) /\ e.base \in Nat /\ e.len \in Nat /\ seg.done < e.len
      /\ o \in Nat /\ hoff = o + seg.done /\ Offsets(sg)[seg.n] = o + e.len /\ o + e.len <= count
  <2>1. Offsets(sg)[seg.n] = o + e.len /\ Offsets(sg)[seg.n] <= count
    BY <1>1, EntryAt
  <2>2. QED
    BY <1>1, <2>1, EntryAt
<1>3. TypeOK /\ PageSize \in Nat \ {0} /\ job.addr \in Nat
  BY JobFacts DEF CopyInv
<1>4. n \in 1..(e.len - seg.done) /\ (n = e.len - seg.done \/ (e.base + seg.done + n) % PageSize = 0)
  BY DEF Cuts
<1>5. /\ PageEnd(off + Offsets(sg)[seg.n])
      /\ \A b \in 0..(e.len - 1) : e.base + b = Phys(off + o + b)
  BY <1>2 DEF GoodEntry
<1> HIDE DEF e, o
<1> DEFINE d == seg.done
<1> DEFINE t == job.total
<1> DEFINE base == e.base
<1> DEFINE l == e.len
<1>t. /\ off \in Nat /\ hoff \in Nat /\ count \in Nat /\ t \in Nat /\ d \in Nat /\ o \in Nat /\ l \in Nat /\ base \in Nat
      /\ off + count <= t /\ hoff = o + d /\ o + l <= count /\ hoff < count /\ d < l
  BY <1>1, <1>2
<1>6. n \in Nat /\ n > 0 /\ d + n <= l
  <2>1. n \in 1..(l - d) /\ l \in Nat /\ d \in Nat /\ d < l
    BY <1>t, <1>4
  <2> HIDE DEF d, l
  <2>2. QED
    BY <2>1
<1> HIDE DEF d, t, base, l
<1>7. hoff + n <= count
  BY <1>t, <1>6
<1>8. Chunk(n) = n
  <2>1. ~(hoff + n > count)
    BY <1>t, <1>6, <1>7
  <2>2. QED
    BY <1>2, <2>1 DEF Chunk
<1>9. m \in Nat /\ m < t /\ m + n \in Nat /\ m + n <= t
  BY <1>t, <1>6, <1>7
<1>10. ASSUME NEW b \in Nat, d + b < l PROVE base + d + b = Phys(m + b)
  <2> DEFINE a == d + b
  <2>1. a \in 0..(l - 1)
    BY <1>t, <1>10
  <2>2. base + a = Phys(off + o + a)
    BY <1>5, <2>1 DEF base, l
  <2>3. base + a = base + d + b /\ off + o + a = m + b
    BY <1>t
  <2>4. QED
    BY <2>2, <2>3
<1>11. ASSUME NEW b \in 0..(n - 1) PROVE base + d + b = Phys(m + b)
  <2>1. b \in Nat /\ d + b < l
    BY <1>t, <1>6
  <2>2. QED
    BY <1>10, <2>1
<1>12. (job.addr + (m + n)) % PageSize = 0 \/ m + n = t
  <2>1. CASE d + n = l
    <3>1. off + (o + l) = m + n
      BY <1>t, <1>6, <2>1
    <3>2. Offsets(sg)[seg.n] = o + l
      BY <1>2 DEF l
    <3>3. PageEnd(m + n)
      BY <1>5, <3>1, <3>2
    <3>4. QED
      BY <3>3 DEF PageEnd, t
  <2>2. CASE d + n # l
    <3>1. d + n < l
      BY <1>t, <1>6, <2>2
    <3>2. n # l - d
      BY <1>t, <1>6, <2>2
    <3>3. (base + d + n) % PageSize = 0
      BY <1>4, <3>2 DEF base, d, l
    <3>4. base + d + n = Phys(m + n)
      BY <1>6, <1>10, <3>1
    <3> HIDE DEF m
    <3>5. Phys(m + n) % PageSize = (job.addr + (m + n)) % PageSize
      BY <1>3, <1>9, PhysFacts DEF t
    <3>6. QED
      BY <3>3, <3>4, <3>5
  <2>3. QED
    BY <2>1, <2>2
<1>13. QED
  BY <1>2, <1>6, <1>8, <1>9, <1>11, <1>12 DEF e, d, t, base, l

LEMMA HostChunkStep ==
  ASSUME CopyInv, HostChunk
  PROVE  CopyInv'
<1> DEFINE m == off + hoff
<1> DEFINE e == sg[seg.n]
<1> DEFINE d == seg.done
<1>1. Segments /\ pc = "host" /\ backed' = (backed \/ (job.cmd = "HOST_ALLOC" /\ off + hoff = 0))
      /\ UNCHANGED <<job, pc, off, count, pages, i, rem, sg, err, resp, spoiled, result>>
  BY DEF HostChunk, Segments, loopVars
<1>2. PICK n \in Cuts(sg[seg.n], seg.done) :
       /\ moved' = moved \cup {<<sg[seg.n].base + seg.done + b, off + hoff + b>> :
                                 b \in 0..(Chunk(n) - 1)}
       /\ scanned' = IF Searched
                     THEN scanned \cup {off + hoff + w : w \in WordsIn(Chunk(n))}
                     ELSE scanned
       /\ hoff'  = hoff + Chunk(n)
       /\ seg'   = IF seg.done + n = sg[seg.n].len
                   THEN [n |-> seg.n + 1, done |-> 0]
                   ELSE [seg EXCEPT !.done = @ + n]
  BY DEF HostChunk
<1>3. TypeOK /\ Gathered /\ Position /\ Aligned /\ MovesPrefix /\ EmbeddedPointersFound
  BY DEF CopyInv
<1>k. ~Stray /\ (Stray' <=> Stray) /\ (Searched' <=> Searched)
  BY <1>1, <1>3, SameKind DEF Segments, Position
<1>4. /\ n \in Nat /\ n > 0 /\ Chunk(n) = n /\ seg.n \in 1..Len(sg)
      /\ m \in Nat /\ m < job.total /\ m + n \in Nat /\ m + n <= job.total
      /\ d + n <= e.len
      /\ \A b \in 0..(n - 1) : e.base + d + b = Phys(m + b)
      /\ (job.addr + (m + n)) % PageSize = 0 \/ m + n = job.total
  BY <1>1, ChunkFacts
<1>5. /\ off \in Nat /\ hoff \in Nat /\ hoff' = hoff + n /\ hoff' \in Nat /\ off' = off /\ job' = job
      /\ off' + hoff' = m + n
  <2>1. off \in Nat /\ hoff \in Nat
    BY <1>3, EntryFacts
  <2>2. hoff' = hoff + n
    BY <1>2, <1>4
  <2>3. n \in Nat
    BY <1>4
  <2>4. off' = off /\ job' = job
    BY <1>1
  <2>5. hoff' \in Nat
    BY <2>1, <2>2, <2>3
  <2>6. off + (hoff + n) = (off + hoff) + n
    BY <2>1, <2>3
  <2>7. QED
    BY <2>1, <2>2, <2>4, <2>5, <2>6
<1>6. /\ moved' = moved \cup {<<e.base + d + b, m + b>> : b \in 0..(n - 1)}
      /\ scanned' = IF Searched THEN scanned \cup {m + w : w \in WordsIn(n)} ELSE scanned
      /\ seg' = IF d + n = e.len THEN [n |-> seg.n + 1, done |-> 0] ELSE [seg EXCEPT !.done = d + n]
  BY <1>2, <1>4
<1>7. PageSize \in Nat \ {0} /\ WordSize \in Nat \ {0} /\ PageSize % WordSize = 0 /\ job.addr \in Nat /\ job.total \in Nat
  BY <1>3, JobFacts
<1>8. /\ Len(sg) \in Nat /\ seg.n \in Nat /\ d \in Nat /\ rem = 0 /\ e.base \in Nat /\ e.len \in Nat
      /\ Offsets(sg)[seg.n - 1] \in Nat /\ hoff = Offsets(sg)[seg.n - 1] + d
      /\ Offsets(sg)[seg.n] = Offsets(sg)[seg.n - 1] + e.len
  <2>1. Len(sg) \in Nat /\ seg.n <= Len(sg) /\ seg.n \in Nat /\ d \in Nat /\ rem = 0
    BY <1>1, <1>3, <1>4, EntryAt, EntryFacts
  <2>2. QED
    BY <1>1, <2>1, EntryAt
<1> DEFINE base == e.base
<1> DEFINE l == e.len
<1> DEFINE o == Offsets(sg)[seg.n - 1]
<1>t. /\ m \in Nat /\ n \in Nat /\ n > 0 /\ d \in Nat /\ base \in Nat /\ l \in Nat /\ o \in Nat /\ hoff \in Nat
      /\ hoff = o + d /\ d + n <= l /\ hoff' = hoff + n
  BY <1>4, <1>5, <1>8
<1> HIDE DEF m, e, d, base, l, o
<1>9. MovesPrefix'
  <2>1. moved = {<<Phys(k), k>> : k \in 0..(m - 1)}
    <3>1. off + hoff - 1 = m - 1
      BY <1>5 DEF m
    <3>2. QED
      BY <1>3, <1>k, <3>1 DEF MovesPrefix
  <2>2. {<<e.base + d + b, m + b>> : b \in 0..(n - 1)} = {<<Phys(m + b), m + b>> : b \in 0..(n - 1)}
    BY <1>4
  <2>3. {<<Phys(k), k>> : k \in 0..(m - 1)} \cup {<<Phys(m + b), m + b>> : b \in 0..(n - 1)}
          = {<<Phys(k), k>> : k \in 0..((m + n) - 1)}
    <3>1. \A k \in 0..(m - 1) : k \in 0..((m + n) - 1)
      BY <1>4
    <3>2. \A b \in 0..(n - 1) : m + b \in 0..((m + n) - 1)
      BY <1>4
    <3>3. \A k \in 0..((m + n) - 1) : k \in 0..(m - 1) \/ (k - m \in 0..(n - 1) /\ m + (k - m) = k)
      BY <1>4
    <3> DEFINE A == {<<Phys(k), k>> : k \in 0..(m - 1)}
    <3> DEFINE B == {<<Phys(m + b), m + b>> : b \in 0..(n - 1)}
    <3> DEFINE C == {<<Phys(k), k>> : k \in 0..((m + n) - 1)}
    <3>4. A \subseteq C
      BY <3>1
    <3>5. B \subseteq C
      BY <3>2
    <3>6. ASSUME NEW x \in C, x \notin A PROVE x \in B
      <4>1. PICK k \in 0..((m + n) - 1) : x = <<Phys(k), k>>
        OBVIOUS
      <4>2. k \notin 0..(m - 1)
        BY <3>6, <4>1
      <4> DEFINE b == k - m
      <4>3. b \in 0..(n - 1) /\ m + b = k
        BY <3>3, <4>2
      <4> HIDE DEF b
      <4>4. x = <<Phys(m + b), m + b>>
        BY <4>1, <4>3
      <4>5. QED
        BY <4>3, <4>4
    <3>7. A \cup B = C
      <4> HIDE DEF A, B, C
      <4>1. QED
        BY <3>4, <3>5, <3>6
    <3>8. QED
      BY <3>7
  <2>4. moved' = {<<Phys(k), k>> : k \in 0..((m + n) - 1)}
    BY <1>6, <2>1, <2>2, <2>3
  <2>5. off' + hoff' - 1 = (m + n) - 1
    <3>1. off' + hoff' - 1 = (off' + hoff') - 1
      BY <1>5
    <3>2. QED
      BY <1>5, <3>1
  <2>6. MovesPrefix' <=> moved' = {<<Phys(k)', k>> : k \in 0..(off' + hoff' - 1)}
    <3>1. spoiled' = {}
      BY <1>1, <1>3, <1>k DEF MovesPrefix
    <3>2. QED
      BY <1>k, <3>1 DEF MovesPrefix
  <2>7. \A k : Phys(k)' = Phys(k)
    BY <1>1, SamePlaces
  <2>8. {<<Phys(k)', k>> : k \in 0..(off' + hoff' - 1)} = {<<Phys(k), k>> : k \in 0..((m + n) - 1)}
    BY <2>5, <2>7
  <2>9. QED
    BY <2>4, <2>6, <2>8
<1>10. ASSUME job.addr % WordSize = 0 PROVE m % WordSize = 0
  <2>1. m % WordSize = 0 \/ m = job.total
    BY <1>3, <1>k, <1>10 DEF Aligned, m
  <2>2. QED
    BY <1>4, <1>7, <2>1
<1>11. Aligned'
  <2>1. SUFFICES ASSUME job.addr % WordSize = 0 PROVE (m + n) % WordSize = 0 \/ m + n = job.total
    BY <1>5 DEF Aligned
  <2>2. ASSUME (job.addr + (m + n)) % PageSize = 0 PROVE (m + n) % WordSize = 0
    <3>1. job.addr + (m + n) \in Nat
      <4>1. job.addr \in Nat
        BY <1>7
      <4>2. QED
        BY <1>t, <4>1
    <3>2. (job.addr + (m + n)) % WordSize = 0
      BY <1>7, <2>2, <3>1, Multiple
    <3>3. (job.addr + (m + n)) % WordSize = (m + n) % WordSize
      BY <1>4, <1>7, <2>1, Multiples
    <3>4. QED
      BY <3>2, <3>3
  <2>3. QED
    BY <1>4, <2>2
<1>12. EmbeddedPointersFound'
  <2>a. CASE ~Searched
    BY <1>3, <1>6, <1>k, <2>a DEF EmbeddedPointersFound
  <2>1. SUFFICES ASSUME Searched, job.addr % WordSize = 0 PROVE scanned' = WordsIn(m + n)
    BY <1>5, <1>k, <2>a DEF EmbeddedPointersFound, WordsIn
  <2>2. scanned = WordsIn(m)
    BY <1>3, <2>1 DEF EmbeddedPointersFound, m
  <2>3. WordsIn(m) \cup {m + w : w \in WordsIn(n)} = WordsIn(m + n)
    BY <1>4, <1>10, <2>1, WordsAppend
  <2>4. QED
    BY <1>6, <2>1, <2>2, <2>3
<1>13. seg' \in [n : Nat, done : Nat] /\ (d + n = e.len => seg'.n = seg.n + 1 /\ seg'.done = 0)
       /\ (d + n # e.len => seg'.n = seg.n /\ seg'.done = d + n)
  <2>1. seg \in [n : Nat, done : Nat] /\ d + n \in Nat /\ seg.n + 1 \in Nat
    <3>1. seg \in [n : Nat, done : Nat] /\ seg.n \in Nat
      BY <1>3, EntryFacts
    <3>2. QED
      BY <1>t, <3>1
  <2>2. CASE d + n = e.len
    <3>1. seg' = [n |-> seg.n + 1, done |-> 0]
      BY <1>6, <2>2
    <3>2. QED
      BY <2>1, <2>2, <3>1
  <2>3. CASE d + n # e.len
    <3>1. seg' = [seg EXCEPT !.done = d + n]
      BY <1>6, <2>3
    <3>2. QED
      BY <2>1, <2>3, <3>1
  <2>4. QED
    BY <2>2, <2>3
<1>14. TypeOK'
  <2>1. moved' \subseteq Nat \X Nat
    <3>1. \A b \in 0..(n - 1) : e.base + d + b \in Nat /\ m + b \in Nat
      BY <1>t DEF base
    <3>2. {<<e.base + d + b, m + b>> : b \in 0..(n - 1)} \subseteq Nat \X Nat
      BY <3>1
    <3>3. moved \subseteq Nat \X Nat
      BY <1>3 DEF TypeOK
    <3>4. QED
      BY <1>6, <3>2, <3>3
  <2>2. scanned' \subseteq Nat
    <3>1. \A w \in WordsIn(n) : m + w \in Nat
      BY <1>4 DEF WordsIn
    <3>2. scanned \subseteq Nat
      BY <1>3 DEF TypeOK
    <3>3. QED
      BY <1>6, <3>1, <3>2
  <2>3. backed' \in BOOLEAN
    BY <1>1, <1>3 DEF TypeOK
  <2>4. QED
    BY <1>1, <1>3, <1>5, <1>13, <2>1, <2>2, <2>3 DEF TypeOK
<1>15. Gathered'
  BY <1>1, <1>3, SameEntries
<1>16. PageByPage'
  BY <1>1 DEF PageByPage
<1>17. Position'
  <2>1. off' + hoff' <= job'.total /\ result' # "ok"
    <3>1. result # "ok"
      BY <1>3, <1>4, <1>5, <1>7 DEF Position, m
    <3>2. QED
      BY <1>1, <1>4, <1>5, <3>1
  <2>2. /\ seg'.n \in 1..(Len(sg) + 1) /\ hoff' = Offsets(sg)[seg'.n - 1] + seg'.done
        /\ seg'.n = Len(sg) + 1 => seg'.done = 0
        /\ seg'.n <= Len(sg) => seg'.done < sg[seg'.n].len
    <3>1. CASE d + n = e.len
      <4>1. seg'.n = seg.n + 1 /\ seg'.done = 0 /\ seg'.n - 1 = seg.n /\ seg'.n \in 1..(Len(sg) + 1)
        <5>1. seg'.n = seg.n + 1 /\ seg'.done = 0
          BY <1>13, <3>1
        <5>2. seg.n \in 1..Len(sg) /\ Len(sg) \in Nat
          BY <1>4, <1>8
        <5>3. QED
          BY <5>1, <5>2
      <4>2. hoff' = Offsets(sg)[seg.n]
        <5>1. Offsets(sg)[seg.n] = o + l /\ d + n = l
          BY <1>8, <3>1 DEF o, l
        <5>2. QED
          BY <1>t, <5>1
      <4>3. seg'.n <= Len(sg) => 0 < sg[seg'.n].len
        <5>1. DOMAIN sg = 1..Len(sg)
          BY <1>3, EntryFacts, OffsetFacts
        <5>2. \A j \in 1..Len(sg) : sg[j].len > 0
          BY <1>1, <1>3, <5>1 DEF Gathered
        <5>3. seg'.n <= Len(sg) => seg'.n \in 1..Len(sg)
          BY <1>8, <4>1
        <5>4. QED
          BY <5>2, <5>3
      <4>4. hoff' = hoff' + 0
        BY <1>5
      <4>5. QED
        BY <4>1, <4>2, <4>3, <4>4
    <3>2. CASE d + n # e.len
      <4>1. seg'.n = seg.n /\ seg'.done = d + n
        BY <1>13, <3>2
      <4>2. d + n < e.len
        BY <1>t, <3>2 DEF l
      <4>3. hoff' = Offsets(sg)[seg.n - 1] + (d + n)
        <5>1. hoff' = o + (d + n)
          BY <1>t
        <5>2. QED
          BY <5>1 DEF o
      <4>4. seg.n \in 1..(Len(sg) + 1) /\ seg.n # Len(sg) + 1
        <5>1. seg.n \in 1..Len(sg) /\ Len(sg) \in Nat
          BY <1>4, <1>8
        <5>2. QED
          BY <5>1
      <4>5. QED
        BY <4>1, <4>2, <4>3, <4>4 DEF e
    <3>3. QED
      BY <3>1, <3>2
  <2>3. rem' = 0 /\ pc' = "host" /\ sg' = sg /\ ~Stray' /\ ~resp'
    BY <1>1, <1>3, <1>8, <1>k DEF Position
  <2>4. QED
    BY <2>1, <2>2, <2>3 DEF Position
<1>18. QED
  BY <1>9, <1>11, <1>12, <1>14, <1>15, <1>16, <1>17 DEF CopyInv
------------------------------------------------------------------------------
LEMMA CopyInit ==
  ASSUME Init
  PROVE  CopyInv
<1>1. /\ job \in Jobs /\ pc = "loop" /\ off = 0 /\ count = 0 /\ pages = <<>> /\ i = 0 /\ rem = 0 /\ sg = <<>>
      /\ seg = [n |-> 1, done |-> 0] /\ hoff = 0 /\ err = FALSE
      /\ resp = FALSE /\ result = "none" /\ backed = FALSE /\ moved = {} /\ spoiled = {} /\ scanned = {}
  BY DEF Init
<1>2. TypeOK
  <2>1. pages \in Seq(Nat) /\ sg \in Seq([base : Nat, len : Nat])
    BY <1>1, EmptySeq
  <2>2. QED
    BY <1>1, <2>1 DEF TypeOK
<1>3. Gathered /\ PageByPage
  BY <1>1 DEF Gathered, PageByPage
<1>4. job.total \in Nat /\ WordSize \in Nat \ {0}
  BY <1>2, JobFacts
<1>5. off + hoff = 0
  BY <1>1
<1>6. Position
  BY <1>1, <1>4, <1>5 DEF Position
<1>7. Aligned
  <2>1. 0 % WordSize = 0
    BY <1>4
  <2>2. QED
    BY <1>5, <2>1 DEF Aligned
<1>8. MovesPrefix
  <2>1. 0..(off + hoff - 1) = {}
    BY <1>1
  <2>2. QED
    BY <1>1, <2>1 DEF MovesPrefix
<1>9. EmbeddedPointersFound
  <2>1. WordsIn(0) = {}
    BY DEF WordsIn
  <2>2. QED
    BY <1>1, <1>5, <2>1 DEF EmbeddedPointersFound
<1>10. QED
  BY <1>2, <1>3, <1>6, <1>7, <1>8, <1>9 DEF CopyInv

LEMMA CopyNext ==
  ASSUME CopyInv, [Next]_vars
  PROVE  CopyInv'
<1>1. CASE StartBatch
  BY <1>1, StartBatchStep
<1>2. CASE PinFails
  BY <1>2, PinFailsStep
<1>3. CASE Coalesce
  BY <1>3, CoalesceStep
<1>4. CASE Submit
  BY <1>4, SubmitStep
<1>5. CASE SubmitFails
  BY <1>5, SubmitFailsStep
<1>6. CASE Reap
  BY <1>6, ReapStep
<1>7. CASE LoopDone
  BY <1>7, LoopDoneStep
<1>8. CASE HostChunk
  BY <1>8, HostChunkStep
<1>9. CASE HostFails
  BY <1>9, HostFailsStep
<1>10. CASE HostRespond
  BY <1>10, HostRespondStep
<1>11. CASE UNCHANGED vars
  <2>1. UNCHANGED <<job, pc, off, count, pages, i, rem, sg, seg, hoff, err, resp, backed, moved, spoiled, scanned, result>>
    BY <1>11 DEF vars, loopVars, hostVars
  <2>2. TypeOK /\ Gathered /\ PageByPage /\ Position /\ Aligned /\ MovesPrefix /\ EmbeddedPointersFound
    BY DEF CopyInv
  <2>3. TypeOK'
    BY <2>1, <2>2 DEF TypeOK
  <2>4. Gathered'
    <3>1. CASE pc \in {"coalesce", "host"}
      BY <2>1, <2>2, <3>1, SameEntries
    <3>2. CASE pc \notin {"coalesce", "host"}
      BY <2>1, <3>2 DEF Gathered
    <3>3. QED
      BY <3>1, <3>2
  <2>5. PageByPage' /\ Position'
    <3>1. PageOff' = PageOff
      BY <2>1, SameBatch
    <3>2. QED
      BY <2>1, <2>2, <3>1, SameKind DEF PageByPage, Position
  <2>6. Aligned' /\ MovesPrefix' /\ EmbeddedPointersFound'
    BY <2>1, <2>2, <2>3, NothingMoved
  <2>7. QED
    BY <2>3, <2>4, <2>5, <2>6 DEF CopyInv
<1>12. QED
  BY <1>1, <1>2, <1>3, <1>4, <1>5, <1>6, <1>7, <1>8, <1>9, <1>10, <1>11 DEF Next, Step, Finished

(* Whatever the page size, the size of a batch, the address, the length    *)
(* and the page table of a copy, and wherever it fails: the entries hold   *)
(* the batch in order, the daemon is where the driver believes, and words  *)
(* are never cut.                                                          *)
THEOREM CopyHolds == Spec => []CopyInv
<1>1. Init => CopyInv
  BY CopyInit
<1>2. CopyInv /\ [Next]_vars => CopyInv'
  BY CopyNext
<1>3. QED
  BY <1>1, <1>2, PTL DEF Spec

(* hmcuda_do_memcpy_gup and the daemon's loop move exactly the first bytes *)
(* of the range of a copy of kind 1 or 2, in order, each to its own place, *)
(* also when a later batch, pin or segment fails, and write nothing else.  *)
(* Of a copy of another kind they move nothing, and the response that is   *)
(* written into its data stays within the range.                           *)
THEOREM EveryByteToItsPlace == Spec => []MovesPrefix
<1>1. CopyInv => MovesPrefix
  BY DEF CopyInv
<1>2. QED
  BY <1>1, CopyHolds, PTL

(* hmcuda_patch_embedded_host_ptrs sees every aligned word of what         *)
(* CU_MEMCPY takes to a cuMemHostAlloc buffer, however the range is cut    *)
(* into pages, entries, segments and batches, and no word of any other     *)
(* copy.                                                                   *)
THEOREM EveryWordSearched == Spec => []EmbeddedPointersFound
<1>1. CopyInv => EmbeddedPointersFound
  BY DEF CopyInv
<1>2. QED
  BY <1>1, CopyHolds, PTL

(* As many as are counted.                                                 *)
LEMMA CountOf ==
  ASSUME NEW n \in Nat, NEW T, NEW f \in [0..(n - 1) -> T],
         \A a, b \in 0..(n - 1) : f[a] = f[b] => a = b,
         \A x \in T : \E a \in 0..(n - 1) : f[a] = x
  PROVE  Cardinality(T) = n
<1> DEFINE S == 0..(n - 1)
<1>1. f \in Bijection(S, T)
  BY DEF Bijection, Injection, Surjection, IsInjective
<1>2. ExistsBijection(S, T)
  BY <1>1 DEF ExistsBijection
<1>3. IsFiniteSet(S) /\ Cardinality(S) = n
  <2>1. 0 \in Int /\ n - 1 \in Int
    OBVIOUS
  <2>2. /\ IsFiniteSet(0..(n - 1))
        /\ Cardinality(0..(n - 1)) = IF 0 > n - 1 THEN 0 ELSE ((n - 1) - 0) + 1
    BY <2>1, FS_Interval
  <2>3. QED
    BY <2>2
<1> HIDE DEF S
<1>4. QED
  BY <1>2, <1>3, FS_Bijection

(* Different bytes of the range are different bytes of guest memory.       *)
LEMMA PhysInjective ==
  ASSUME TypeOK, NEW x \in Nat, NEW y \in Nat, x <= job.total, y <= job.total, Phys(x) = Phys(y)
  PROVE  x = y
<1> DEFINE a == job.addr + x
<1> DEFINE b == job.addr + y
<1>1. PageSize \in Nat \ {0} /\ a \in Nat /\ b \in Nat /\ job.addr \in Nat
  BY JobFacts
<1>2. /\ a \div PageSize \in DOMAIN job.frame /\ b \div PageSize \in DOMAIN job.frame
      /\ Phys(x) \div PageSize = job.frame[a \div PageSize] /\ Phys(x) % PageSize = a % PageSize
      /\ Phys(y) \div PageSize = job.frame[b \div PageSize] /\ Phys(y) % PageSize = b % PageSize
  BY PhysFacts
<1>3. a \div PageSize = b \div PageSize
  BY <1>2, JobFacts
<1>4. a % PageSize = b % PageSize
  BY <1>2
<1>5. a = (a \div PageSize) * PageSize + (a % PageSize) /\ b = (b \div PageSize) * PageSize + (b % PageSize)
  BY <1>1, Divided
<1>6. a = b
  BY <1>3, <1>4, <1>5
<1>7. QED
  BY <1>1, <1>6

(* cudaMemcpy of kind 1 and 2, cuMemcpyHtoD and the like report success    *)
(* only when every byte asked for has been moved.                          *)
THEOREM OkIsComplete == Spec => []OkMeansAll
<1>1. ASSUME CopyInv, result = "ok", ~Stray PROVE Cardinality(moved) = job.total
  <2> DEFINE n == job.total
  <2> DEFINE f == [k \in 0..(n - 1) |-> <<Phys(k), k>>]
  <2>1. TypeOK /\ off + hoff = n /\ MovesPrefix
    BY <1>1 DEF CopyInv, Position
  <2>2. n \in Nat /\ off \in Nat /\ hoff \in Nat
    BY <2>1, JobFacts, EntryFacts
  <2>3. off + hoff - 1 = n - 1
    BY <2>1, <2>2
  <2>4. moved = {<<Phys(k), k>> : k \in 0..(n - 1)}
    BY <1>1, <2>1, <2>3 DEF MovesPrefix
  <2>5. f \in [0..(n - 1) -> moved]
    BY <2>4
  <2>6. \A a, b \in 0..(n - 1) : f[a] = f[b] => a = b
    OBVIOUS
  <2>7. \A x \in moved : \E a \in 0..(n - 1) : f[a] = x
    BY <2>4
  <2> HIDE DEF f, n
  <2>8. Cardinality(moved) = n
    BY <2>2, <2>5, <2>6, <2>7, CountOf
  <2>9. QED
    BY <2>8 DEF n
<1>2. CopyInv => OkMeansAll
  BY <1>1 DEF OkMeansAll
<1>3. QED
  BY <1>2, CopyHolds, PTL

(* What the entries of a request name is the batch, byte for byte.         *)
LEMMA ReachIs ==
  ASSUME CopyInv, pc = "host"
  PROVE  UNION {Bytes(e.base, e.len) : e \in ToSet(sg)} = {Phys(off + k) : k \in 0..(count - 1)}
<1> DEFINE R == UNION {Bytes(e.base, e.len) : e \in ToSet(sg)}
<1> DEFINE P == {Phys(off + k) : k \in 0..(count - 1)}
<1>1. TypeOK /\ Gathered
  BY DEF CopyInv
<1>2. /\ sg \in Seq(Entries) /\ Len(sg) \in Nat /\ DOMAIN sg = 1..Len(sg) /\ off \in Nat /\ count \in Nat
      /\ Sum(sg) = count /\ Offsets(sg)[Len(sg)] = count
  <2>1. sg \in Seq(Entries) /\ Sum(sg) = count /\ off \in Nat /\ count \in Nat
    BY EntryAt
  <2>2. QED
    BY <2>1, OffsetFacts
<1>3. \A n \in 1..Len(sg) : GoodEntry(sg, n)
  BY <1>1, <1>2 DEF Gathered, GoodEntry
<1>4. \A n \in 1..Len(sg) :
        /\ Offsets(sg)[n - 1] \in Nat /\ sg[n].len \in Nat /\ sg[n].base \in Nat
        /\ Offsets(sg)[n] = Offsets(sg)[n - 1] + sg[n].len
  BY <1>2, OffsetFacts
<1>5. ASSUME NEW x \in R PROVE x \in P
  <2>1. PICK e \in ToSet(sg) : x \in Bytes(e.base, e.len)
    OBVIOUS
  <2>2. PICK n \in 1..Len(sg) : e = sg[n]
    BY <1>2 DEF ToSet
  <2> DEFINE o == Offsets(sg)[n - 1]
  <2> DEFINE l == sg[n].len
  <2>3. PICK b \in 0..(l - 1) : x = sg[n].base + b
    BY <2>1, <2>2 DEF Bytes
  <2>4. x = Phys(off + o + b)
    BY <1>3, <2>3 DEF GoodEntry
  <2>5. o \in Nat /\ l \in Nat /\ Offsets(sg)[n] = o + l
    BY <1>4
  <2>6. o + l <= count
    <3>1. n \in 0..Len(sg) /\ Len(sg) \in 0..Len(sg) /\ n <= Len(sg)
      BY <1>2
    <3>2. Offsets(sg)[n] <= Offsets(sg)[Len(sg)]
      BY <1>2, <3>1, Ascending
    <3>3. QED
      BY <1>2, <2>5, <3>2
  <2> HIDE DEF o, l
  <2>7. o + b \in 0..(count - 1) /\ off + o + b = off + (o + b)
    BY <1>2, <2>5, <2>6
  <2>8. QED
    BY <2>4, <2>7
<1>6. ASSUME NEW x \in P PROVE x \in R
  <2>1. PICK k \in 0..(count - 1) : x = Phys(off + k)
    OBVIOUS
  <2>2. k \in Nat /\ k < Sum(sg)
    BY <1>2
  <2>3. PICK n \in 1..Len(sg) : Offsets(sg)[n - 1] <= k /\ k < Offsets(sg)[n]
    BY <1>2, <2>2, EntryOf
  <2> DEFINE o == Offsets(sg)[n - 1]
  <2> DEFINE l == sg[n].len
  <2> DEFINE b == k - o
  <2>4. o \in Nat /\ l \in Nat /\ Offsets(sg)[n] = o + l /\ o <= k /\ k < o + l
    <3>1. o \in Nat /\ l \in Nat /\ Offsets(sg)[n] = o + l
      BY <1>4
    <3>2. QED
      BY <2>3, <3>1
  <2>5. \A c \in 0..(l - 1) : sg[n].base + c = Phys(off + o + c)
    BY <1>3 DEF GoodEntry
  <2>6. sg[n] \in ToSet(sg)
    BY <1>2 DEF ToSet
  <2> HIDE DEF o, l
  <2>7. b \in 0..(l - 1) /\ off + o + b = off + k
    BY <1>2, <2>2, <2>4
  <2>8. x = sg[n].base + b
    BY <2>1, <2>5, <2>7
  <2>9. x \in Bytes(sg[n].base, sg[n].len)
    BY <2>7, <2>8 DEF Bytes, l
  <2>10. QED
    BY <2>6, <2>9
<1>7. R = P
  <2> HIDE DEF R, P
  <2>1. QED
    BY <1>5, <1>6
<1>8. QED
  BY <1>7

(* The device reaches, through the descriptors of a request, the bytes of  *)
(* the batch only, each once, and all of them in pages that are pinned.    *)
THEOREM OnlyPinnedPages == Spec => []DescriptorsInsidePins
<1>1. ASSUME CopyInv, pc = "host"
      PROVE  LET reach == UNION {Bytes(e.base, e.len) : e \in ToSet(sg)}
             IN /\ Sum(sg) = count
                /\ Cardinality(reach) = count
                /\ reach \subseteq PageBytes(ToSet(pages))
  <2> DEFINE P == {Phys(off + k) : k \in 0..(count - 1)}
  <2> DEFINE f == [k \in 0..(count - 1) |-> Phys(off + k)]
  <2>1. UNION {Bytes(e.base, e.len) : e \in ToSet(sg)} = P
    BY <1>1, ReachIs
  <2>2. /\ Sum(sg) = count /\ off \in Nat /\ count \in Nat /\ job.total \in Nat /\ off + count <= job.total
        /\ TypeOK /\ Gathered
    BY <1>1, EntryAt DEF CopyInv
  <2>3. /\ off < job.total /\ pages = Frames /\ count = BatchCount
    BY <1>1, <2>2 DEF Gathered
  <2>4. Cardinality(P) = count
    <3>1. f \in [0..(count - 1) -> P]
      OBVIOUS
    <3>2. ASSUME NEW a \in 0..(count - 1), NEW b \in 0..(count - 1), f[a] = f[b] PROVE a = b
      <4>1. /\ off + a \in Nat /\ off + a <= job.total
            /\ off + b \in Nat /\ off + b <= job.total
        BY <2>2
      <4>2. Phys(off + a) = Phys(off + b)
        BY <3>2
      <4>3. off + a = off + b
        BY <2>2, <4>1, <4>2, PhysInjective
      <4>4. QED
        BY <2>2, <4>3
    <3>3. \A x \in P : \E a \in 0..(count - 1) : f[a] = x
      OBVIOUS
    <3> HIDE DEF f, P
    <3>4. QED
      BY <2>2, <3>1, <3>2, <3>3, CountOf
  <2>5. ASSUME NEW k \in 0..(count - 1) PROVE Phys(off + k) \in PageBytes(ToSet(pages))
    <3> DEFINE y == PageOff + k
    <3> DEFINE m == y \div PageSize
    <3> DEFINE d == y % PageSize
    <3>1. /\ PageSize \in Nat \ {0} /\ PageOff \in Nat /\ BatchPages \in Nat
          /\ PageOff + count <= BatchPages * PageSize /\ k \in Nat
      BY <2>2, <2>3, JobFacts, BatchFacts
    <3>2. y \in Nat /\ y < BatchPages * PageSize
      <4>1. BatchPages * PageSize \in Nat
        BY <3>1, Times
      <4>2. QED
        BY <2>2, <3>1, <4>1
    <3>3. m \in Nat /\ d \in 0..(PageSize - 1) /\ y = m * PageSize + d
      BY <3>1, <3>2, Divided
    <3> HIDE DEF m, d
    <3>4. m \in 0..(BatchPages - 1)
      <4>1. SUFFICES ASSUME BatchPages <= m PROVE FALSE
        BY <3>1, <3>3
      <4>2. BatchPages * PageSize <= m * PageSize /\ m * PageSize \in Nat /\ BatchPages * PageSize \in Nat
        BY <3>1, <3>3, <4>1, Times
      <4>3. QED
        BY <3>1, <3>2, <3>3, <4>2
    <3>5. pages[m + 1] = job.frame[(job.addr + off) \div PageSize + m] /\ pages[m + 1] \in Nat
          /\ Len(pages) = BatchPages
      BY <2>2, <2>3, <3>4, PagesAre
    <3>6. Phys(off + k) = (pages[m + 1] * PageSize) + d
      <4>1. TypeOK /\ k \in Nat /\ m \in Nat /\ d \in 0..(PageSize - 1) /\ PageOff + k = m * PageSize + d
        BY <2>2, <3>1, <3>3
      <4>2. Phys(off + k) = (job.frame[(job.addr + off) \div PageSize + m] * PageSize) + d
        BY <4>1, PhysIs
      <4>3. QED
        BY <3>5, <4>2
    <3>7. pages[m + 1] \in ToSet(pages)
      <4>1. DOMAIN pages = 1..Len(pages) /\ m + 1 \in 1..Len(pages)
        <5>1. pages \in Seq(Nat)
          BY <2>2, EntryFacts
        <5>2. DOMAIN pages = 1..Len(pages) /\ Len(pages) = BatchPages
          BY <3>5, <5>1, LenProperties
        <5>3. m + 1 \in 1..BatchPages
          BY <3>1, <3>4
        <5>4. QED
          BY <5>2, <5>3
      <4>2. QED
        BY <4>1 DEF ToSet
    <3>8. Phys(off + k) \in Bytes(pages[m + 1] * PageSize, PageSize)
      BY <3>3, <3>6 DEF Bytes
    <3>9. QED
      BY <3>7, <3>8 DEF PageBytes
  <2>6. P \subseteq PageBytes(ToSet(pages))
    BY <2>5
  <2> HIDE DEF P
  <2>7. QED
    BY <2>1, <2>2, <2>4, <2>6
<1>2. CopyInv => DescriptorsInsidePins
  BY <1>1 DEF DescriptorsInsidePins
<1>3. QED
  BY <1>2, CopyHolds, PTL

------------------------------------------------------------------------------
(* The copy implements HmcudaTransfer: its steps are moves, failures and   *)
(* the return, and everything else leaves what a library sees alone.       *)

LEMMA ReportedInit == Init => Reported
BY DEF Init, Reported

LEMMA ReportedNext ==
  ASSUME CopyInv, Reported, [Next]_vars
  PROVE  Reported'
<1>1. CASE StartBatch
  BY <1>1 DEF StartBatch, Reported, hostVars, Stray
<1>2. CASE PinFails \/ SubmitFails \/ LoopDone
  BY <1>2 DEF PinFails, SubmitFails, LoopDone, Stop, Reported
<1>3. CASE Coalesce
  BY <1>3 DEF Coalesce, Reported, hostVars, Stray
<1>4. CASE Submit
  BY <1>4 DEF Submit, Coalesced, Reported
<1>5. CASE Reap
  BY <1>5 DEF Reap, Stop, Reported, CopyInv, Position, TypeOK, Stray
<1>6. CASE HostChunk
  BY <1>6 DEF HostChunk, Segments, Reported
<1>7. CASE HostFails
  BY <1>7 DEF HostFails, Reported
<1>8. CASE HostRespond
  BY <1>8 DEF HostRespond, Reported
<1>9. CASE UNCHANGED vars
  BY <1>9 DEF vars, hostVars, Reported, Stray
<1>10. QED
  BY <1>1, <1>2, <1>3, <1>4, <1>5, <1>6, <1>7, <1>8, <1>9 DEF Next, Step, Finished

LEMMA CopyReports == Spec => []Reported
<1>1. CopyInv /\ Reported /\ [Next]_vars => Reported'
  BY ReportedNext
<1>2. QED
  BY <1>1, ReportedInit, CopyHolds, PTL DEF Spec

LEMMA InitTransfer == Init => Transfer!Init
<1>1. SUFFICES ASSUME Init PROVE Transfer!Init
  OBVIOUS
<1>2. TypeOK /\ job.total \in Nat
  <2>1. TypeOK
    BY <1>1, CopyInit DEF CopyInv
  <2>2. QED
    BY <2>1, JobFacts
<1>3. \A k \in 0..(job.total - 1) : Phys(k) \in Nat
  <2>1. SUFFICES ASSUME NEW k \in 0..(job.total - 1) PROVE Phys(k) \in Nat
    OBVIOUS
  <2>2. k \in Nat /\ k <= job.total
    BY <1>2
  <2>3. QED
    BY <1>2, <2>2, PhysFacts
<1>4. Asked.total = job.total /\ Asked.place \in [0..(job.total - 1) -> Nat] /\ Asked.known \in BOOLEAN
  BY <1>3 DEF Asked
<1>5. off + hoff = 0 /\ moved = {} /\ err = FALSE /\ result = "none"
  BY <1>1 DEF Init
<1>6. QED
  BY <1>2, <1>4, <1>5 DEF Transfer!Init

(* A segment is a move, of as many bytes as it is long.                    *)
LEMMA ChunkMoves ==
  ASSUME CopyInv, Reported, HostChunk
  PROVE  Transfer!Move
<1> DEFINE m == off + hoff
<1> DEFINE t == job.total
<1>1. /\ Segments /\ pc = "host" /\ ~err /\ result = "none"
      /\ UNCHANGED <<job, off, err, result>>
      /\ ~Stray /\ ~Stray'
  BY SameKind DEF HostChunk, Segments, Reported, CopyInv, Position
<1>2. PICK n \in Cuts(sg[seg.n], seg.done) : hoff' = hoff + Chunk(n)
  BY DEF HostChunk
<1>3. n \in Nat /\ n > 0 /\ Chunk(n) = n /\ m \in Nat /\ m + n <= t
  BY <1>1, ChunkFacts
<1>4. off \in Nat /\ hoff \in Nat /\ t \in Nat
  BY EntryFacts, JobFacts DEF CopyInv
<1>5. off' + hoff' = m + n
  BY <1>1, <1>2, <1>3, <1>4
<1>6. moved = {<<Phys(k), k>> : k \in 0..(m - 1)}
  <2>1. off + hoff - 1 = m - 1
    BY <1>4
  <2>2. QED
    BY <1>1, <2>1 DEF CopyInv, MovesPrefix
<1>7. moved' = {<<Phys(k), k>> : k \in 0..((m + n) - 1)}
  <2>1. moved' = {<<Phys(k)', k>> : k \in 0..(off' + hoff' - 1)}
    BY <1>1, HostChunkStep DEF CopyInv, MovesPrefix
  <2>2. \A k : Phys(k)' = Phys(k)
    BY <1>1 DEF Phys
  <2>3. off' + hoff' - 1 = (m + n) - 1
    <3>1. off' \in Nat /\ hoff' \in Nat
      <4>1. TypeOK'
        BY HostChunkStep DEF CopyInv
      <4>2. QED
        BY <4>1 DEF TypeOK
    <3>2. QED
      BY <1>3, <1>5, <3>1
  <2> HIDE DEF m
  <2>4. QED
    BY <2>1, <2>2, <2>3
<1> HIDE DEF m, t
<1>8. 0..((m + n) - 1) = 0..(m - 1) \cup m..((m + n) - 1) /\ m..((m + n) - 1) \subseteq 0..(t - 1)
  BY <1>3, <1>4
<1>9. moved' = moved \cup {<<Phys(k), k>> : k \in m..((m + n) - 1)}
  BY <1>6, <1>7, <1>8
<1>10. \A k \in m..((m + n) - 1) : Asked.place[k] = Phys(k)
  BY <1>8 DEF Asked, t
<1>11. moved' = moved \cup {<<Asked.place[k], k>> : k \in m..((m + n) - 1)}
  BY <1>9, <1>10
<1>12. m + n \in (m + 1)..t
  BY <1>3, <1>4
<1>13. Asked.total = t /\ Asked.known /\ Asked' = Asked
  BY <1>1 DEF Asked, Phys, Stray, t
<1>14. QED
  BY <1>1, <1>5, <1>11, <1>12, <1>13 DEF Transfer!Move, Transfer!Underway, m

(* The end of a call is the return: with success at the end of the range,  *)
(* with CUDA's error if there was one, and otherwise with the driver's; of *)
(* a stray copy with success though it failed.                             *)
LEMMA StopReturns ==
  ASSUME CopyInv, Reported, PinFails \/ SubmitFails \/ LoopDone \/ (Reap /\ resp)
  PROVE  Transfer!Return
<1>1. pc # "done" /\ result = "none"
  BY DEF PinFails, SubmitFails, Coalesced, LoopDone, Reap, Reported
<1>2. UNCHANGED <<job, off, hoff, moved, err>>
  BY DEF PinFails, SubmitFails, LoopDone, Reap, Stop, hostVars
<1>3. Asked' = Asked /\ Asked.total = job.total /\ Asked.known = ~Stray /\ (Stray' <=> Stray)
  BY <1>2, SameKind DEF Asked, Phys, Stray
<1>4. CASE PinFails \/ SubmitFails
  <2>1. result' = "errno" /\ ~(err /\ ~Stray)
    BY <1>4 DEF PinFails, SubmitFails, Coalesced, Stop, Reported
  <2>2. QED
    BY <1>1, <1>2, <1>3, <2>1 DEF Transfer!Return
<1>5. CASE LoopDone
  <2>1. result' = "ok" /\ ~(err /\ ~Stray)
    BY <1>5 DEF LoopDone, Stop, Reported
  <2>2. off + hoff = job.total /\ (Stray => job.total = 0 \/ err)
    <3>1. pc = "loop" /\ ~(off < job.total)
      BY <1>5 DEF LoopDone, More
    <3>2. TypeOK /\ hoff = 0 /\ off + hoff <= job.total /\ (Stray /\ off > 0 => err)
      BY <3>1 DEF CopyInv, Position
    <3>3. off \in Nat /\ job.total \in Nat
      BY <3>2, EntryFacts, JobFacts
    <3>4. off = job.total /\ off + hoff = job.total
      BY <3>1, <3>2, <3>3
    <3>5. QED
      BY <3>2, <3>3, <3>4
  <2>3. QED
    BY <1>1, <1>2, <1>3, <2>1, <2>2 DEF Transfer!Return
<1>6. CASE Reap /\ resp
  <2>1. result' = "cuda" /\ err /\ ~Stray
    BY <1>6 DEF Reap, Stop, CopyInv, Position
  <2>2. QED
    BY <1>1, <1>2, <1>3, <2>1 DEF Transfer!Return
<1>7. QED
  BY <1>4, <1>5, <1>6

(* The daemon fails a stray copy when it sees the first batch; of another  *)
(* it finds as many bytes in the request as the request says.              *)
LEMMA SubmitFailsStray ==
  ASSUME CopyInv, Reported, Submit
  PROVE  Transfer!Fail \/ UNCHANGED Transfer!vars
<1>1. /\ pc = "coalesce" /\ Coalesced /\ err' = (Stray \/ Sum(sg) < Wanted)
      /\ UNCHANGED <<job, off, hoff, moved, result>>
  BY DEF Submit, Coalesced
<1>2. Asked' = Asked /\ (Stray' <=> Stray)
  BY <1>1, SameKind DEF Asked, Phys, Stray
<1>3. CASE Stray
  <2>1. err' = TRUE /\ result = "none"
    BY <1>1, <1>3 DEF Reported
  <2>2. err \in BOOLEAN
    BY DEF CopyInv, TypeOK
  <2>3. CASE err = TRUE
    BY <1>1, <1>2, <2>1, <2>3 DEF Transfer!vars
  <2>4. CASE err = FALSE
    BY <1>1, <1>2, <2>1, <2>4 DEF Transfer!Fail, Transfer!Underway
  <2>5. QED
    BY <2>2, <2>3, <2>4
<1>4. CASE ~Stray
  <2>1. ~err
    BY <1>1, <1>4 DEF Reported
  <2>2. Sum(sg) = count /\ Wanted = count /\ count \in Nat
    <3>1. TypeOK /\ Gathered /\ PageByPage
      BY DEF CopyInv
    <3>2. QED
      BY <1>1, <3>1, BatchInEntries, WantedIs, EntryFacts
  <2>3. ~(Sum(sg) < Wanted)
    BY <2>2
  <2>4. err' = err
    BY <1>1, <1>4, <2>1, <2>3 DEF CopyInv, TypeOK
  <2>5. QED
    BY <1>1, <1>2, <2>4 DEF Transfer!vars
<1>5. QED
  BY <1>3, <1>4

(* Where nothing is moved, reported or returned.                           *)
LEMMA OtherStutters ==
  ASSUME CopyInv, Reported, StartBatch \/ Coalesce \/ (Reap /\ ~resp) \/ HostRespond \/ UNCHANGED vars
  PROVE  UNCHANGED Transfer!vars
<1>1. UNCHANGED <<job, moved, err, result>>
  BY DEF StartBatch, Coalesce, Reap, HostRespond, vars, hostVars
<1>2. Asked' = Asked /\ (Stray' <=> Stray)
  BY <1>1, SameKind DEF Asked, Phys, Stray
<1>3. CASE StartBatch \/ Coalesce \/ HostRespond \/ UNCHANGED vars
  <2>1. UNCHANGED <<off, hoff>>
    BY <1>3 DEF StartBatch, Coalesce, HostRespond, vars, hostVars
  <2>2. QED
    BY <1>1, <1>2, <2>1 DEF Transfer!vars
<1>4. CASE (Reap /\ ~resp) /\ ~Stray
  <2>1. off' = off + count /\ hoff' = 0 /\ pc = "reap"
    BY <1>4 DEF Reap
  <2>2. off \in Nat /\ count \in Nat /\ hoff = count
    BY <1>4, <2>1, EntryFacts DEF CopyInv, Position
  <2>3. off' + hoff' = off + hoff
    BY <2>1, <2>2
  <2>4. QED
    BY <1>1, <1>2, <2>3 DEF Transfer!vars
<1>5. CASE Stray
  BY <1>1, <1>2, <1>5 DEF Transfer!vars
<1>6. QED
  BY <1>3, <1>4, <1>5

LEMMA NextTransfers ==
  ASSUME CopyInv, Reported, [Next]_vars
  PROVE  [Transfer!Next]_Transfer!vars
<1>1. CASE HostChunk
  BY <1>1, ChunkMoves DEF Transfer!Next
<1>2. CASE HostFails
  <2>1. /\ ~err /\ err' = TRUE /\ result = "none"
        /\ UNCHANGED <<job, off, hoff, moved, result>>
    BY <1>2 DEF HostFails, Reported
  <2>2. Asked' = Asked /\ (Stray' <=> Stray)
    BY <2>1, SameKind DEF Asked, Phys, Stray
  <2>3. QED
    BY <2>1, <2>2 DEF Transfer!Next, Transfer!Fail, Transfer!Underway
<1>3. CASE PinFails \/ SubmitFails \/ LoopDone \/ (Reap /\ resp)
  BY <1>3, StopReturns DEF Transfer!Next
<1>4. CASE Submit
  BY <1>4, SubmitFailsStray DEF Transfer!Next
<1>5. CASE StartBatch \/ Coalesce \/ (Reap /\ ~resp) \/ HostRespond \/ UNCHANGED vars
  BY <1>5, OtherStutters
<1>6. QED
  BY <1>1, <1>2, <1>3, <1>4, <1>5 DEF Next, Step, Finished

(* The batches, entries and segments of a copy do together what            *)
(* HmcudaTransfer promises of it as a whole: it moves on from the start of *)
(* the range, ends with the first error, and says what has happened.  Of a *)
(* copy of a kind the daemon does not know they move nothing, and its      *)
(* error is not said.                                                      *)
THEOREM CopyIsTransfer == Spec => ImplementsTransfer
<1>1. CopyInv /\ Reported /\ [Next]_vars => [Transfer!Next]_Transfer!vars
  BY NextTransfers
<1>2. QED
  BY <1>1, InitTransfer, CopyHolds, CopyReports, PTL DEF Spec, ImplementsTransfer, Transfer!Spec
==============================================================================
