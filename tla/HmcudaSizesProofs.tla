--------------------------- MODULE HmcudaSizesProofs ---------------------------
(***************************************************************************)
(* The lengths of requests and responses, for whatever is passed to a call,*)
(* kernels of any parameter types, and texts of any length.                *)
(***************************************************************************)
EXTENDS HmcudaSizes, FiniteSetTheorems, SequenceTheorems, WellFoundedInduction, TLAPS

LEMMA LeastOf ==
  ASSUME NEW S \in SUBSET Nat, S # {}
  PROVE  \E m \in S : \A k \in S : m <= k
<1>1. IsWellFoundedOn(OpToRel(<, Nat), Nat)
  BY NatLessThanWellFounded
<1>2. PICK m \in S : \A k \in S : ~ (<<k, m>> \in OpToRel(<, Nat))
  BY <1>1, WFMin
<1>3. ASSUME NEW k \in S PROVE m <= k
  <2>1. m \in Nat /\ k \in Nat /\ ~(k < m)
    BY <1>2 DEF OpToRel
  <2>2. QED
    BY <2>1
<1>4. QED
  BY <1>3

(* A set of numbers that has zero, and with a number the next one up to n. *)
LEMMA UpTo ==
  ASSUME NEW n \in Nat, NEW S, 0 \in S, \A k \in 1..n : k - 1 \in S => k \in S
  PROVE  \A k \in 0..n : k \in S
<1> DEFINE Bad == {k \in 0..n : k \notin S}
<1>1. SUFFICES ASSUME Bad # {} PROVE FALSE
  OBVIOUS
<1>2. PICK k \in Bad : \A j \in Bad : k <= j
  <2>1. Bad \in SUBSET Nat
    OBVIOUS
  <2>2. QED
    BY <1>1, <2>1, LeastOf
<1>3. k \in 0..n /\ k \notin S /\ k # 0
  BY <1>2
<1>4. k \in 1..n /\ k - 1 \in 0..n /\ ~(k <= k - 1)
  BY <1>3
<1>5. k - 1 \notin Bad
  BY <1>2, <1>4
<1>6. QED
  BY <1>3, <1>4, <1>5

(* A function that is defined from one argument to the next.               *)
Follows(f, b, G, n) == f[0] = b /\ \A k \in 1..n : f[k] = G[<<k, f[k - 1]>>]

LEMMA Recursion ==
  ASSUME NEW V, NEW b \in V, NEW n \in Nat, NEW G \in [(1..n) \X V -> V]
  PROVE  \E f \in [0..n -> V] : Follows(f, b, G, n)
<1> DEFINE S == {m \in 0..n : \E f \in [0..m -> V] : Follows(f, b, G, m)}
<1>1. 0 \in S
  <2>1. [k \in 0..0 |-> b] \in [0..0 -> V] /\ Follows([k \in 0..0 |-> b], b, G, 0)
    BY DEF Follows
  <2>2. QED
    BY <2>1
<1>2. ASSUME NEW m \in 1..n, m - 1 \in S PROVE m \in S
  <2>1. PICK f \in [0..(m - 1) -> V] : Follows(f, b, G, m - 1)
    BY <1>2
  <2> DEFINE v == G[<<m, f[m - 1]>>]
  <2>2. v \in V
    <3>1. f[m - 1] \in V
      OBVIOUS
    <3>2. QED
      BY <3>1
  <2> HIDE DEF v
  <2> DEFINE g == [k \in 0..m |-> IF k = m THEN v ELSE f[k]]
  <2>3. g \in [0..m -> V]
    <3>1. \A k \in 0..m : k # m => k \in 0..(m - 1)
      OBVIOUS
    <3>2. QED
      BY <2>2, <3>1
  <2>4. g[0] = b
    BY <2>1 DEF Follows
  <2>5. ASSUME NEW k \in 1..m PROVE g[k] = G[<<k, g[k - 1]>>]
    <3>1. k - 1 \in 0..m /\ k - 1 # m /\ k \in 0..m
      OBVIOUS
    <3>2. g[k - 1] = f[k - 1]
      BY <3>1
    <3>3. CASE k = m
      BY <3>1, <3>2, <3>3 DEF v
    <3>4. CASE k # m
      <4>1. k \in 1..(m - 1) /\ g[k] = f[k]
        BY <3>1, <3>4
      <4>2. QED
        BY <2>1, <3>2, <4>1 DEF Follows
    <3>5. QED
      BY <3>3, <3>4
  <2> HIDE DEF g
  <2>6. Follows(g, b, G, m)
    BY <2>4, <2>5 DEF Follows
  <2>7. QED
    BY <2>3, <2>6
<1> HIDE DEF S
<1>3. n \in S
  BY <1>1, <1>2, UpTo
<1>4. QED
  BY <1>3 DEF S

------------------------------------------------------------------------------
(* Lengths.                                                                *)

LEMMA Most ==
  ASSUME NEW a \in Int, NEW b \in Int
  PROVE  /\ Max({a, b}) = (IF a >= b THEN a ELSE b)
         /\ Min({a, b}) = (IF a <= b THEN a ELSE b)
<1>1. \E x \in {a, b} : \A y \in {a, b} : x >= y
  OBVIOUS
<1>2. \E x \in {a, b} : \A y \in {a, b} : x <= y
  OBVIOUS
<1>3. Max({a, b}) \in {a, b} /\ \A y \in {a, b} : Max({a, b}) >= y
  BY <1>1 DEF Max
<1>4. Min({a, b}) \in {a, b} /\ \A y \in {a, b} : Min({a, b}) <= y
  BY <1>2 DEF Min
<1>5. QED
  BY <1>3, <1>4

(* Members of a structure, as the wire format has them.                    *)
Widths == {1, 4, 8}
Units  == Widths \X (1..304)

LEMMA Rounded ==
  ASSUME NEW x \in Nat, NEW a \in Widths
  PROVE  RoundUp(x, a) \in x..(x + 7) /\ RoundUp(x, a) \in Nat
BY DEF RoundUp, Widths

LEMMA Unit ==
  ASSUME NEW u \in Units
  PROVE  u[1] \in Widths /\ u[2] \in 1..304 /\ u[1] * u[2] \in Nat
<1>1. u[1] \in Widths /\ u[2] \in 1..304
  BY DEF Units
<1> DEFINE w == u[1]
<1> DEFINE c == u[2]
<1> HIDE DEF w, c
<1>2. w \in Widths /\ c \in 1..304
  BY <1>1 DEF w, c
<1>3. w * c \in Nat
  BY <1>2 DEF Widths
<1>4. QED
  BY <1>1, <1>3 DEF w, c

(* The room each member takes up, with the padding before it.              *)
LEMMA EndsAre ==
  ASSUME NEW members \in Seq(Units)
  PROVE  LET e == Ends(members)
         IN /\ e[0] = 0
            /\ \A n \in 1..Len(members) :
                 /\ e[n - 1] \in Nat /\ e[n] \in Nat
                 /\ members[n] \in Units
                 /\ e[n] >= e[n - 1] + members[n][1] * members[n][2]
                 /\ e[n] <= e[n - 1] + 7 + members[n][1] * members[n][2]
<1> DEFINE len == Len(members)
<1> DEFINE size == [n \in 1..len |-> members[n][1] * members[n][2]]
<1>1. len \in Nat /\ \A n \in 1..len : members[n] \in Units
  BY LenProperties, ElementOfSeq
<1>2. \A n \in 1..len : members[n][1] \in Widths /\ size[n] \in Nat
  <2>1. ASSUME NEW n \in 1..len PROVE members[n][1] \in Widths /\ size[n] \in Nat
    <3>1. members[n] \in Units
      BY <1>1
    <3>2. QED
      BY <3>1, Unit
  <2>2. QED
    BY <2>1
<1> DEFINE G == [kx \in (1..len) \X Nat |-> RoundUp(kx[2], members[kx[1]][1]) + size[kx[1]]]
<1>3. G \in [(1..len) \X Nat -> Nat]
  <2>1. ASSUME NEW k \in 1..len, NEW x \in Nat PROVE RoundUp(x, members[k][1]) + size[k] \in Nat
    <3>1. RoundUp(x, members[k][1]) \in Nat
      BY <1>2, Rounded
    <3>2. QED
      BY <1>2, <3>1
  <2>2. QED
    BY <2>1
<1>4. PICK f \in [0..len -> Nat] : Follows(f, 0, G, len)
  BY <1>1, <1>3, Recursion
<1> DEFINE Eq(e) == e = [n \in 0..len |-> IF n = 0 THEN 0 ELSE
                           RoundUp(e[n - 1], members[n][1]) + members[n][1] * members[n][2]]
<1>5. Eq(f)
  <2>1. ASSUME NEW n \in 1..len
        PROVE f[n] = RoundUp(f[n - 1], members[n][1]) + members[n][1] * members[n][2]
    <3>1. f[n] = G[<<n, f[n - 1]>>] /\ f[n - 1] \in Nat
      <4>1. n - 1 \in 0..len
        BY <1>1
      <4>2. QED
        BY <1>4, <4>1 DEF Follows
    <3>2. G[<<n, f[n - 1]>>] = RoundUp(f[n - 1], members[n][1]) + size[n]
      BY <3>1
    <3>3. QED
      BY <3>1, <3>2
  <2>2. \A n \in 0..len : n # 0 => n \in 1..len
    BY <1>1
  <2>3. f[0] = 0
    BY <1>4 DEF Follows
  <2>4. QED
    BY <2>1, <2>2, <2>3
<1>6. Ends(members) = CHOOSE e : Eq(e)
  BY DEF Ends
<1>7. Eq(Ends(members))
  BY <1>5, <1>6
<1> DEFINE e == Ends(members)
<1> HIDE DEF e, G
<1>8. e = [n \in 0..len |-> IF n = 0 THEN 0 ELSE
             RoundUp(e[n - 1], members[n][1]) + members[n][1] * members[n][2]]
  BY <1>7 DEF e
<1>9. e[0] = 0 /\ \A n \in 1..len : e[n] = RoundUp(e[n - 1], members[n][1]) + size[n]
  BY <1>1, <1>8
<1>10. \A n \in 0..len : e[n] \in Nat
  <2> DEFINE S == {n \in 0..len : e[n] \in Nat}
  <2>1. 0 \in S
    BY <1>1, <1>9
  <2>2. ASSUME NEW n \in 1..len, n - 1 \in S PROVE n \in S
    <3>1. RoundUp(e[n - 1], members[n][1]) \in Nat
      BY <1>2, <2>2, Rounded
    <3>2. QED
      BY <1>2, <1>9, <3>1
  <2> HIDE DEF S
  <2>3. \A n \in 0..len : n \in S
    BY <1>1, <2>1, <2>2, UpTo
  <2>4. QED
    BY <2>3 DEF S
<1>11. ASSUME NEW n \in 1..len
       PROVE  /\ e[n - 1] \in Nat /\ e[n] \in Nat
              /\ e[n] >= e[n - 1] + size[n] /\ e[n] <= e[n - 1] + 7 + size[n]
  <2>1. e[n - 1] \in Nat /\ e[n] \in Nat
    BY <1>1, <1>10
  <2>2. RoundUp(e[n - 1], members[n][1]) \in e[n - 1]..(e[n - 1] + 7)
    BY <1>2, <2>1, Rounded
  <2> DEFINE x == e[n - 1]
  <2> DEFINE y == e[n]
  <2> DEFINE up == RoundUp(x, members[n][1])
  <2> DEFINE z == size[n]
  <2>3. y = up + z
    BY <1>9
  <2>4. x \in Nat /\ y \in Nat /\ z \in Nat /\ up \in x..(x + 7)
    BY <1>2, <2>1, <2>2
  <2> HIDE DEF x, y, up, z, size
  <2>5. y >= x + z /\ y <= x + 7 + z
    BY <2>3, <2>4
  <2>6. QED
    BY <2>1, <2>5 DEF x, y, z
<1>12. QED
  BY <1>1, <1>9, <1>11 DEF e

(* sizeof is what the members take up, and less than a member more.        *)
LEMMA SizeIs ==
  ASSUME NEW members \in Seq(Units)
  PROVE  LET end == Ends(members)[Len(members)]
         IN end \in Nat /\ SizeOf(members) \in end..(end + 7)
<1> DEFINE len == Len(members)
<1> DEFINE end == Ends(members)[len]
<1> DEFINE widths == {1} \cup {members[n][1] : n \in 1..len}
<1>1. len \in Nat /\ end \in Nat
  <2>1. len \in Nat
    BY LenProperties
  <2>2. CASE len = 0
    <3>1. Ends(members)[0] = 0
      BY EndsAre
    <3>2. QED
      BY <2>2, <3>1
  <2>3. CASE len # 0
    BY <2>1, <2>3, EndsAre
  <2>4. QED
    BY <2>2, <2>3
<1>2. widths \subseteq Widths /\ 1 \in widths
  <2>1. \A n \in 1..len : members[n] \in Units
    BY ElementOfSeq
  <2>2. QED
    BY <2>1 DEF Units, Widths
<1>3. Max(widths) \in Widths
  <2> HIDE DEF widths
  <2>1. \E x \in widths : \A y \in widths : x >= y
    BY <1>2 DEF Widths
  <2>2. Max(widths) \in widths
    BY <2>1 DEF Max
  <2>3. QED
    BY <1>2, <2>2
<1>4. SizeOf(members) = RoundUp(end, Max(widths))
  BY DEF SizeOf, Strictest
<1> HIDE DEF end, widths
<1>5. SizeOf(members) \in end..(end + 7)
  BY <1>1, <1>3, <1>4, Rounded
<1>6. QED
  BY <1>1, <1>5 DEF end

------------------------------------------------------------------------------
(* The structures.                                                         *)

Lines == ({1} \X (1..64)) \cup ({4} \X (1..16)) \cup ({8} \X (1..8))
Small == {m \in Seq(Lines) : Len(m) \in 1..6}

LEMMA Line ==
  ASSUME NEW u \in Lines
  PROVE  u \in Units /\ u[1] * u[2] \in 1..64
<1>1. \/ u[1] = 1 /\ u[2] \in 1..64
      \/ u[1] = 4 /\ u[2] \in 1..16
      \/ u[1] = 8 /\ u[2] \in 1..8
  BY DEF Lines
<1>2. u = <<u[1], u[2]>>
  BY DEF Lines
<1> DEFINE w == u[1]
<1> DEFINE n == u[2]
<1> HIDE DEF w, n
<1>3. \/ w = 1 /\ n \in 1..64
      \/ w = 4 /\ n \in 1..16
      \/ w = 8 /\ n \in 1..8
  BY <1>1 DEF w, n
<1>4. w \in Widths /\ n \in 1..304 /\ w * n \in 1..64
  BY <1>3 DEF Widths
<1>5. QED
  BY <1>2, <1>4 DEF Units, w, n

(* A structure takes up something, and a small one not much.               *)
LEMMA SmallSize ==
  ASSUME NEW m \in Small
  PROVE  SizeOf(m) \in 1..433
<1> DEFINE len == Len(m)
<1> DEFINE e == Ends(m)
<1>1. m \in Seq(Lines) /\ len \in 1..6
  BY DEF Small
<1>2. \A n \in 1..len : m[n] \in Lines
  BY <1>1, ElementOfSeq
<1>3. m \in Seq(Units)
  <2>1. \A n \in 1..len : m[n] \in Units
    BY <1>2, Line
  <2>2. QED
    BY <1>1, <2>1, SeqDef
<1>4. e[0] = 0 /\ \A n \in 1..len : /\ e[n - 1] \in Nat /\ e[n] \in Nat
                                    /\ e[n] >= e[n - 1] + m[n][1] * m[n][2]
                                    /\ e[n] <= e[n - 1] + 7 + m[n][1] * m[n][2]
  BY <1>3, EndsAre
<1> DEFINE S == {n \in 0..len : e[n] \in n..(71 * n)}
<1>5. 0 \in S
  BY <1>1, <1>4
<1>6. ASSUME NEW n \in 1..len, n - 1 \in S
      PROVE  n \in S
  <2> DEFINE s == m[n][1] * m[n][2]
  <2> DEFINE x == e[n - 1]
  <2> DEFINE y == e[n]
  <2>1. s \in 1..64
    BY <1>2, Line
  <2>2. x \in Nat /\ y \in Nat /\ y >= x + s /\ y <= x + 7 + s
    BY <1>4
  <2>3. x \in (n - 1)..(71 * (n - 1))
    BY <1>6
  <2>4. n \in 0..len
    BY <1>1
  <2> HIDE DEF s, x, y
  <2>5. y \in n..(71 * n)
    BY <1>1, <2>1, <2>2, <2>3
  <2>6. QED
    BY <2>4, <2>5 DEF y
<1>7. e[len] \in len..(71 * len)
  <2> HIDE DEF S
  <2>1. len \in Nat /\ len \in 0..len
    BY <1>1
  <2>2. \A n \in 1..len : n - 1 \in S => n \in S
    BY <1>6
  <2> HIDE DEF len
  <2>3. \A n \in 0..len : n \in S
    BY <1>5, <2>1, <2>2, UpTo
  <2>4. len \in S
    BY <2>1, <2>3
  <2>5. QED
    BY <2>4 DEF S
<1>8. SizeOf(m) \in e[len]..(e[len] + 7)
  BY <1>3, SizeIs
<1> DEFINE z == e[len]
<1> DEFINE size == SizeOf(m)
<1>9. z \in len..(71 * len) /\ size \in z..(z + 7) /\ len \in 1..6
  BY <1>1, <1>7, <1>8
<1> HIDE DEF z, len, size
<1>10. z \in 1..426
  BY <1>9
<1>11. size \in 1..433
  BY <1>9, <1>10
<1>12. QED
  BY <1>11 DEF size

LEMMA Tuples ==
  /\ \A a \in Lines : <<a>> \in Small
  /\ \A a, b \in Lines : <<a, b>> \in Small
  /\ \A a, b, c \in Lines : <<a, b, c>> \in Small
  /\ \A a, b, c, d, f, g \in Lines : <<a, b, c, d, f, g>> \in Small
<1>1. \A a \in Lines : <<a>> \in Small
  BY DEF Small
<1>2. \A a, b \in Lines : <<a, b>> \in Small
  BY DEF Small
<1>3. \A a, b, c \in Lines : <<a, b, c>> \in Small
  BY DEF Small
<1>4. \A a, b, c, d, f, g \in Lines : <<a, b, c, d, f, g>> \in Small
  BY DEF Small
<1>5. QED
  BY <1>1, <1>2, <1>3, <1>4

(* Every structure of the wire format but one, by its members.             *)
Shapes == {
  <<Words(1)>>, <<Words(2)>>, <<Longs(1)>>, <<Longs(2)>>, <<Longs(3)>>, <<Longs(4)>>,
  <<Longs(5)>>, <<Longs(6)>>, <<Bytes(16)>>, <<Bytes(64)>>,
  <<Longs(1), Words(1)>>, <<Longs(2), Words(1)>>, <<Longs(3), Words(13)>>,
  <<Words(1), Longs(1)>>, <<Words(2), Longs(1)>>, <<AllocProp, Words(1)>>,
  <<Bytes(64), Words(1)>>,
  <<Longs(3), Words(2), Longs(1)>>, <<Longs(1), Words(1), Longs(1)>>,
  <<Longs(1), Words(1), Longs(2)>>, <<Dim3, Dim3, Longs(2)>>,
  <<Longs(1), AllocProp, Longs(1)>>, <<Words(2), Longs(1), Words(1)>>,
  <<Longs(1), Dim3, Dim3, Words(1), Longs(1), Words(1)>> }

LEMMA ShapesSmall == Shapes \subseteq Small
<1>1. /\ \A n \in 1..16 : Words(n) \in Lines
      /\ \A n \in 1..8 : Longs(n) \in Lines
      /\ \A n \in 1..64 : Bytes(n) \in Lines
  BY DEF Words, Longs, Bytes, Lines
<1>2. /\ Words(1) \in Lines /\ Words(2) \in Lines /\ Words(13) \in Lines
      /\ Dim3 \in Lines /\ AllocProp \in Lines
      /\ Longs(1) \in Lines /\ Longs(2) \in Lines /\ Longs(3) \in Lines
      /\ Longs(4) \in Lines /\ Longs(5) \in Lines /\ Longs(6) \in Lines
      /\ Bytes(16) \in Lines /\ Bytes(64) \in Lines
  BY <1>1 DEF Dim3, AllocProp
<1>3. /\ <<Words(1)>> \in Small /\ <<Words(2)>> \in Small /\ <<Longs(1)>> \in Small
      /\ <<Longs(2)>> \in Small /\ <<Longs(3)>> \in Small /\ <<Longs(4)>> \in Small
      /\ <<Longs(5)>> \in Small /\ <<Longs(6)>> \in Small /\ <<Bytes(16)>> \in Small
      /\ <<Bytes(64)>> \in Small
  BY <1>2, Tuples
<1>4. /\ <<Longs(1), Words(1)>> \in Small /\ <<Longs(2), Words(1)>> \in Small
      /\ <<Longs(3), Words(13)>> \in Small /\ <<Words(1), Longs(1)>> \in Small
      /\ <<Words(2), Longs(1)>> \in Small /\ <<AllocProp, Words(1)>> \in Small
      /\ <<Bytes(64), Words(1)>> \in Small
  BY <1>2, Tuples
<1>5. /\ <<Longs(3), Words(2), Longs(1)>> \in Small /\ <<Longs(1), Words(1), Longs(1)>> \in Small
      /\ <<Longs(1), Words(1), Longs(2)>> \in Small /\ <<Dim3, Dim3, Longs(2)>> \in Small
      /\ <<Longs(1), AllocProp, Longs(1)>> \in Small
      /\ <<Words(2), Longs(1), Words(1)>> \in Small
      /\ <<Longs(1), Dim3, Dim3, Words(1), Longs(1), Words(1)>> \in Small
  BY <1>2, Tuples
<1>6. ASSUME NEW m \in Shapes PROVE m \in Small
  BY <1>3, <1>4, <1>5 DEF Shapes
<1>7. QED
  BY <1>6

LEMMA RuntimeShapes ==
  /\ \A c \in DOMAIN RuntimeRequest : RuntimeRequest[c] \in Shapes
  /\ \A c \in DOMAIN RuntimeResponse : RuntimeResponse[c] \in Shapes \cup {DeviceProp}
<1>1. \A c \in DOMAIN RuntimeRequest : RuntimeRequest[c] \in Shapes
  BY DEF RuntimeRequest, Shapes
<1>2. \A c \in DOMAIN RuntimeResponse : RuntimeResponse[c] \in Shapes \cup {DeviceProp}
  BY DEF RuntimeResponse, Shapes
<1>3. QED
  BY <1>1, <1>2

LEMMA DriverShapes ==
  /\ \A c \in DOMAIN ControlRequest : ControlRequest[c] \in Shapes
  /\ \A c \in DOMAIN ControlResponse : ControlResponse[c] \in Shapes
  /\ \A c \in DOMAIN MemoryRequest : MemoryRequest[c] \in Shapes
  /\ \A c \in DOMAIN MemoryResponse : MemoryResponse[c] \in Shapes
<1>1. \A c \in DOMAIN ControlRequest : ControlRequest[c] \in Shapes
  BY DEF ControlRequest, Shapes
<1>2. \A c \in DOMAIN ControlResponse : ControlResponse[c] \in Shapes
  BY DEF ControlResponse, Shapes
<1>3. \A c \in DOMAIN MemoryRequest : MemoryRequest[c] \in Shapes
  BY DEF MemoryRequest, Shapes
<1>4. \A c \in DOMAIN MemoryResponse : MemoryResponse[c] \in Shapes
  BY DEF MemoryResponse, Shapes
<1>5. QED
  BY <1>1, <1>2, <1>3, <1>4

LEMMA VirtualShapes ==
  /\ \A c \in DOMAIN VirtualRequest : VirtualRequest[c] \in Shapes
  /\ \A c \in DOMAIN VirtualResponse : VirtualResponse[c] \in Shapes
  /\ \A c \in DOMAIN MulticastRequest : MulticastRequest[c] \in Shapes
  /\ \A c \in DOMAIN MulticastResponse : MulticastResponse[c] \in Shapes
<1>1. \A c \in DOMAIN VirtualRequest : VirtualRequest[c] \in Shapes
  BY DEF VirtualRequest, Shapes
<1>2. \A c \in DOMAIN VirtualResponse : VirtualResponse[c] \in Shapes
  BY DEF VirtualResponse, Shapes
<1>3. \A c \in DOMAIN MulticastRequest : MulticastRequest[c] \in Shapes
  BY DEF MulticastRequest, Shapes
<1>4. \A c \in DOMAIN MulticastResponse : MulticastResponse[c] \in Shapes
  BY DEF MulticastResponse, Shapes
<1>5. QED
  BY <1>1, <1>2, <1>3, <1>4

(* The mirror of cudaDeviceProp, member by member.                         *)
LEMMA PropSize == DeviceProp \in Seq(Units) /\ SizeOf(DeviceProp) \in 1..2000
<1> DEFINE e == Ends(DeviceProp)
<1>1. DeviceProp = <<
        <<1, 280>>, <<4, 1>>, <<8, 2>>, <<4, 2>>, <<8, 1>>, <<4, 8>>, <<8, 1>>, <<4, 2>>, <<8, 2>>,
        <<4, 46>>, <<8, 1>>, <<4, 16>>, <<8, 1>>, <<4, 12>>, <<8, 1>>, <<4, 4>>, <<8, 1>>, <<4, 76>> >>
  BY DEF DeviceProp, Bytes, Words, Longs
<1>2. Len(DeviceProp) = 18 /\ \A n \in 1..18 : DeviceProp[n] \in Units
  <2>1. \A n \in 1..304 : <<1, n>> \in Units /\ <<4, n>> \in Units /\ <<8, n>> \in Units
    <3>1. 1 \in Widths /\ 4 \in Widths /\ 8 \in Widths
      BY DEF Widths
    <3>2. QED
      BY <3>1 DEF Units
  <2> DEFINE d == DeviceProp
  <2>7. /\ <<1, 280>> \in Units /\ <<4, 1>> \in Units /\ <<8, 2>> \in Units /\ <<4, 2>> \in Units
        /\ <<8, 1>> \in Units /\ <<4, 8>> \in Units /\ <<4, 46>> \in Units /\ <<4, 16>> \in Units
        /\ <<4, 12>> \in Units /\ <<4, 4>> \in Units /\ <<4, 76>> \in Units
    <3>1. /\ 280 \in 1..304 /\ 1 \in 1..304 /\ 2 \in 1..304 /\ 8 \in 1..304 /\ 46 \in 1..304
          /\ 16 \in 1..304 /\ 12 \in 1..304 /\ 4 \in 1..304 /\ 76 \in 1..304
      OBVIOUS
    <3>2. QED
      BY <2>1, <3>1, Zenon
  <2>2. /\ d[1] \in Units /\ d[2] \in Units /\ d[3] \in Units /\ d[4] \in Units /\ d[5] \in Units
        /\ d[6] \in Units /\ d[7] \in Units /\ d[8] \in Units /\ d[9] \in Units
    <3>1. /\ d[1] = <<1, 280>> /\ d[2] = <<4, 1>> /\ d[3] = <<8, 2>> /\ d[4] = <<4, 2>>
          /\ d[5] = <<8, 1>> /\ d[6] = <<4, 8>> /\ d[7] = <<8, 1>> /\ d[8] = <<4, 2>>
          /\ d[9] = <<8, 2>>
      BY <1>1
    <3> HIDE DEF d
    <3>2. QED
      BY <2>7, <3>1
  <2>3. /\ d[10] \in Units /\ d[11] \in Units /\ d[12] \in Units /\ d[13] \in Units
        /\ d[14] \in Units /\ d[15] \in Units /\ d[16] \in Units /\ d[17] \in Units
        /\ d[18] \in Units
    <3>1. /\ d[10] = <<4, 46>> /\ d[11] = <<8, 1>> /\ d[12] = <<4, 16>> /\ d[13] = <<8, 1>>
          /\ d[14] = <<4, 12>> /\ d[15] = <<8, 1>> /\ d[16] = <<4, 4>> /\ d[17] = <<8, 1>>
          /\ d[18] = <<4, 76>>
      BY <1>1
    <3> HIDE DEF d
    <3>2. QED
      BY <2>7, <3>1
  <2>4. Len(d) = 18
    BY <1>1
  <2> HIDE DEF d
  <2>5. ASSUME NEW n \in 1..18 PROVE d[n] \in Units
    BY <2>2, <2>3
  <2>6. QED
    BY <2>4, <2>5 DEF d
<1>3. DeviceProp \in Seq(Units)
  <2>1. DeviceProp = [n \in 1..18 |-> DeviceProp[n]]
    BY <1>1
  <2>2. [n \in 1..18 |-> DeviceProp[n]] \in [1..18 -> Units]
    BY <1>2
  <2>3. QED
    BY <2>1, <2>2, SeqDef
<1>4. e[0] = 0 /\ \A n \in 1..18 :
        /\ e[n - 1] \in Nat /\ e[n] \in Nat
        /\ e[n] >= e[n - 1] + DeviceProp[n][1] * DeviceProp[n][2]
        /\ e[n] <= e[n - 1] + 7 + DeviceProp[n][1] * DeviceProp[n][2]
  BY <1>2, <1>3, EndsAre
<1> HIDE DEF e
<1> DEFINE d == DeviceProp
<1> DEFINE Room(n) == 71 * n + (IF n = 0 THEN 0 ELSE 216) + (IF n < 10 THEN 0 ELSE 120)
                      + (IF n < 18 THEN 0 ELSE 240)
<1> DEFINE S == {n \in 0..18 : e[n] \in n..Room(n)}
<1>5. 0 \in S
  BY <1>4
<1>6. ASSUME NEW n \in 1..18, n - 1 \in S PROVE n \in S
  <2> DEFINE b == d[n][1] * d[n][2]
  <2> DEFINE x == e[n - 1]
  <2> DEFINE y == e[n]
  <2>1. b \in 1..(64 + (IF n = 1 THEN 216 ELSE IF n = 10 THEN 120 ELSE IF n = 18 THEN 240 ELSE 0))
    <3>1. n \in {1, 2, 3, 4, 5, 6, 7, 8, 9, 10, 11, 12, 13, 14, 15, 16, 17, 18}
      OBVIOUS
    <3>2. /\ d[1] = <<1, 280>> /\ d[2] = <<4, 1>> /\ d[3] = <<8, 2>> /\ d[4] = <<4, 2>>
          /\ d[5] = <<8, 1>> /\ d[6] = <<4, 8>> /\ d[7] = <<8, 1>> /\ d[8] = <<4, 2>>
          /\ d[9] = <<8, 2>> /\ d[10] = <<4, 46>> /\ d[11] = <<8, 1>> /\ d[12] = <<4, 16>>
          /\ d[13] = <<8, 1>> /\ d[14] = <<4, 12>> /\ d[15] = <<8, 1>> /\ d[16] = <<4, 4>>
          /\ d[17] = <<8, 1>> /\ d[18] = <<4, 76>>
      BY <1>1
    <3> HIDE DEF d
    <3>3. QED
      BY <3>1, <3>2
  <2>2. x \in Nat /\ y \in Nat /\ y >= x + b /\ y <= x + 7 + b
    BY <1>4
  <2>3. x \in (n - 1)..Room(n - 1) /\ n \in 0..18
    BY <1>6
  <2> HIDE DEF b, x, y
  <2>4. y \in n..Room(n)
    BY <2>1, <2>2, <2>3
  <2>5. QED
    BY <2>3, <2>4 DEF y
<1>7. e[18] \in 18..1854
  <2> HIDE DEF S
  <2>1. \A n \in 0..18 : n \in S
    BY <1>5, <1>6, UpTo
  <2>2. 18 \in S
    BY <2>1
  <2>3. e[18] \in 18..Room(18)
    BY <2>2 DEF S
  <2>4. Room(18) = 1854
    OBVIOUS
  <2>5. QED
    BY <2>3, <2>4
<1> DEFINE z == e[18]
<1> DEFINE size == SizeOf(DeviceProp)
<1>8. z \in 18..1854 /\ size \in z..(z + 7)
  <2>1. Ends(DeviceProp)[18] = z
    BY DEF e
  <2>2. size \in Ends(DeviceProp)[18]..(Ends(DeviceProp)[18] + 7)
    BY <1>2, <1>3, SizeIs
  <2>3. QED
    BY <1>7, <2>1, <2>2
<1> HIDE DEF z, size
<1>9. size \in 1..2000
  <2>1. z \in Nat /\ z >= 18 /\ z <= 1854
    BY <1>8
  <2>2. z + 7 \in Nat /\ size \in z..(z + 7)
    BY <1>8, <2>1
  <2>3. size \in Nat /\ size >= z /\ size <= z + 7
    BY <2>1, <2>2
  <2>4. QED
    BY <2>1, <2>3
<1>10. QED
  BY <1>3, <1>9 DEF size

------------------------------------------------------------------------------
(* The tables.                                                             *)

LEMMA FromSome ==
  ASSUME NEW tables, NEW c \in DOMAIN Together(tables)
  PROVE  \E t \in tables : c \in DOMAIN t /\ Together(tables)[c] = t[c]
BY DEF Together

LEMMA FromOnly ==
  ASSUME NEW tables, NEW t \in tables, NEW c \in DOMAIN t, \A u \in tables : c \in DOMAIN u => u = t
  PROVE  c \in DOMAIN Together(tables) /\ Together(tables)[c] = t[c]
BY DEF Together

LEMMA RequestSizes ==
  ASSUME NEW c \in DOMAIN Request
  PROVE  SizeOf(Request[c]) \in 1..433
<1>1. Request[c] \in Shapes
  <2>1. PICK t \in {RuntimeRequest, ControlRequest, MemoryRequest, VirtualRequest,
                    MulticastRequest} : c \in DOMAIN t /\ Request[c] = t[c]
    BY FromSome DEF Request
  <2>2. QED
    BY <2>1, RuntimeShapes, DriverShapes, VirtualShapes
<1>2. QED
  BY <1>1, ShapesSmall, SmallSize

LEMMA ResponseSizes ==
  ASSUME NEW c \in DOMAIN Response
  PROVE  SizeOf(Response[c]) \in 1..2000
<1>1. Response[c] \in Shapes \/ Response[c] = DeviceProp
  <2>1. PICK t \in {RuntimeResponse, ControlResponse, MemoryResponse, VirtualResponse,
                    MulticastResponse} : c \in DOMAIN t /\ Response[c] = t[c]
    BY FromSome DEF Response
  <2>2. QED
    BY <2>1, RuntimeShapes, DriverShapes, VirtualShapes
<1>2. CASE Response[c] = DeviceProp
  BY <1>2, PropSize
<1>3. CASE Response[c] \in Shapes
  <2>1. SizeOf(Response[c]) \in 1..433
    BY <1>3, ShapesSmall, SmallSize
  <2>2. QED
    BY <2>1
<1>4. QED
  BY <1>1, <1>2, <1>3

(* A row of a list.                                                        *)
Row(r) == r = [req |-> r.req, resp |-> r.resp] /\ r.req \in Nat /\ r.resp \in 0..2000

LEMMA ListIs ==
  ASSUME NEW bare, NEW sends, NEW asks, NEW fetches,
         \A c \in sends \cup asks : Like(c) \in DOMAIN Request,
         \A c \in asks \cup fetches : Like(c) \in DOMAIN Response
  PROVE  \A c \in DOMAIN List(bare, sends, asks, fetches) : Row(List(bare, sends, asks, fetches)[c])
<1> DEFINE l == List(bare, sends, asks, fetches)
<1>1. SUFFICES ASSUME NEW c \in DOMAIN l PROVE Row(l[c])
  OBVIOUS
<1>2. l[c] = [req  |-> IF c \in sends \cup asks   THEN SizeOf(Request[Like(c)])  ELSE 0,
              resp |-> IF c \in asks \cup fetches THEN SizeOf(Response[Like(c)]) ELSE 0]
  BY DEF List
<1>3. (IF c \in sends \cup asks THEN SizeOf(Request[Like(c)]) ELSE 0) \in Nat
  <2>1. CASE c \in sends \cup asks
    <3>1. SizeOf(Request[Like(c)]) \in 1..433
      BY <2>1, RequestSizes
    <3>2. QED
      BY <2>1, <3>1
  <2>2. QED
    BY <2>1
<1>4. (IF c \in asks \cup fetches THEN SizeOf(Response[Like(c)]) ELSE 0) \in 0..2000
  <2>1. CASE c \in asks \cup fetches
    <3>1. SizeOf(Response[Like(c)]) \in 1..2000
      BY <2>1, ResponseSizes
    <3>2. QED
      BY <2>1, <3>1
  <2>2. QED
    BY <2>1
<1> HIDE DEF l
<1>5. l[c].req \in Nat
  BY <1>2, <1>3
<1>6. l[c].resp \in 0..2000
  BY <1>2, <1>4
<1>7. l[c] = [req |-> l[c].req, resp |-> l[c].resp]
  BY <1>2
<1>8. QED
  BY <1>5, <1>6, <1>7 DEF Row

(* What the libraries send has its structures.                             *)
LEMMA Known ==
  /\ DOMAIN RuntimeRequest \subseteq DOMAIN Request
  /\ DOMAIN ControlRequest \subseteq DOMAIN Request
  /\ DOMAIN MemoryRequest \subseteq DOMAIN Request
  /\ DOMAIN VirtualRequest \subseteq DOMAIN Request
  /\ DOMAIN MulticastRequest \subseteq DOMAIN Request
  /\ DOMAIN RuntimeResponse \subseteq DOMAIN Response
  /\ DOMAIN ControlResponse \subseteq DOMAIN Response
  /\ DOMAIN MemoryResponse \subseteq DOMAIN Response
  /\ DOMAIN VirtualResponse \subseteq DOMAIN Response
  /\ DOMAIN MulticastResponse \subseteq DOMAIN Response
BY DEF Request, Response, Together

LEMMA RuntimeRows ==
  /\ \A c \in DOMAIN CallsMemory : Row(CallsMemory[c])
  /\ \A c \in DOMAIN CallsRuntime : Row(CallsRuntime[c])
  /\ \A c \in DOMAIN CallsQueries : Row(CallsQueries[c])
  /\ \A c \in DOMAIN CallsKernels : Row(CallsKernels[c])
<1>1. \A c \in {"free", "memcpy", "memset", "malloc"} : Like(c) \in DOMAIN RuntimeRequest
  BY DEF Like, RuntimeRequest
<1>2. \A c \in {"malloc"} : Like(c) \in DOMAIN RuntimeResponse
  BY DEF Like, RuntimeResponse
<1>3. \A c \in DOMAIN CallsMemory : Row(CallsMemory[c])
  BY <1>1, <1>2, Known, ListIs DEF CallsMemory
<1>4. \A c \in {"stream_synchronize", "event_record", "event_synchronize", "event_destroy",
                "set_device", "device_synchronize", "stream_create", "event_create",
                "event_elapsed_time", "get_error_string", "get_error_name"} :
        Like(c) \in DOMAIN RuntimeRequest
  BY DEF Like, RuntimeRequest
<1>5. \A c \in {"stream_create", "event_create", "event_elapsed_time", "get_error_string",
                "get_error_name", "get_device_count"} : Like(c) \in DOMAIN RuntimeResponse
  BY DEF Like, RuntimeResponse
<1>6. \A c \in DOMAIN CallsRuntime : Row(CallsRuntime[c])
  BY <1>4, <1>5, Known, ListIs DEF CallsRuntime
<1>7. \A c \in {"get_device_properties", "func_get_attributes"} : Like(c) \in DOMAIN RuntimeRequest
  BY DEF Like, RuntimeRequest
<1>8. \A c \in {"get_device_properties", "func_get_attributes", "runtime_get_version"} :
        Like(c) \in DOMAIN RuntimeResponse
  BY DEF Like, RuntimeResponse
<1>9. \A c \in DOMAIN CallsQueries : Row(CallsQueries[c])
  BY <1>7, <1>8, Known, ListIs DEF CallsQueries
<1>10. \A c \in {"init_module", "push_call_cfg", "launch_kernel", "register_fatbin",
                 "register_function"} : Like(c) \in DOMAIN RuntimeRequest
  BY DEF Like, RuntimeRequest
<1>11. \A c \in {"register_fatbin", "register_function", "pop_call_cfg"} :
         Like(c) \in DOMAIN RuntimeResponse
  BY DEF Like, RuntimeResponse
<1>12. \A c \in DOMAIN CallsKernels : Row(CallsKernels[c])
  BY <1>10, <1>11, Known, ListIs DEF CallsKernels
<1>13. QED
  BY <1>3, <1>6, <1>9, <1>12

LEMMA DriverRows ==
  /\ \A c \in DOMAIN CallsControl : Row(CallsControl[c])
  /\ \A c \in DOMAIN CallsDriverMemory : Row(CallsDriverMemory[c])
  /\ \A c \in DOMAIN CallsVirtual : Row(CallsVirtual[c])
<1>1. \A c \in {"cu_init", "cu_device_primary_ctx_release", "cu_ctx_set_current",
                "cu_ctx_enable_peer_access", "cu_stream_destroy", "cu_stream_synchronize",
                "cu_stream_query", "cu_stream_wait_event", "cu_event_destroy", "cu_event_record",
                "cu_device_get", "cu_device_get_name", "cu_device_get_attribute",
                "cu_device_get_uuid", "cu_device_can_access_peer",
                "cu_device_primary_ctx_retain", "cu_stream_create", "cu_stream_get_ctx",
                "cu_event_create", "cu_event_elapsed_time"} : Like(c) \in DOMAIN ControlRequest
  BY DEF Like, ControlRequest
<1>2. \A c \in {"cu_device_get", "cu_device_get_name", "cu_device_get_attribute",
                "cu_device_get_uuid", "cu_device_can_access_peer",
                "cu_device_primary_ctx_retain", "cu_stream_create", "cu_stream_get_ctx",
                "cu_event_create", "cu_event_elapsed_time", "cu_driver_get_version",
                "cu_device_get_count", "cu_ctx_get_device"} : Like(c) \in DOMAIN ControlResponse
  BY DEF Like, ControlResponse
<1>3. \A c \in DOMAIN CallsControl : Row(CallsControl[c])
  BY <1>1, <1>2, Known, ListIs DEF CallsControl
<1>4. \A c \in {"cu_mem_free", "cu_mem_host_alloc", "cu_mem_free_host", "cu_memset_d32",
                "cu_memcpy_async", "cu_mem_alloc", "cu_pointer_get_attribute",
                "cu_get_error_string", "cu_get_error_name"} : Like(c) \in DOMAIN MemoryRequest
  BY DEF Like, MemoryRequest
<1>5. Like("cu_memcpy") \in DOMAIN RuntimeRequest
  BY DEF Like, RuntimeRequest
<1>6. \A c \in {"cu_mem_alloc", "cu_pointer_get_attribute", "cu_get_error_string",
                "cu_get_error_name"} : Like(c) \in DOMAIN MemoryResponse
  BY DEF Like, MemoryResponse
<1>7. \A c \in DOMAIN CallsDriverMemory : Row(CallsDriverMemory[c])
  BY <1>4, <1>5, <1>6, Known, ListIs DEF CallsDriverMemory
<1>8. \A c \in {"cu_mem_release", "cu_mem_map", "cu_mem_unmap", "cu_mem_address_free",
                "cu_mem_set_access", "cu_mem_create", "cu_mem_address_reserve",
                "cu_mem_get_alloc_granularity", "cu_mem_export", "cu_mem_import"} :
        Like(c) \in DOMAIN VirtualRequest
  BY DEF Like, VirtualRequest
<1>9. \A c \in {"cu_multicast_add_device", "cu_multicast_bind_mem", "cu_multicast_unbind",
                "cu_multicast_create", "cu_multicast_get_granularity"} :
        Like(c) \in DOMAIN MulticastRequest
  BY DEF Like, MulticastRequest
<1>10. \A c \in {"cu_mem_create", "cu_mem_address_reserve", "cu_mem_get_alloc_granularity",
                 "cu_mem_export", "cu_mem_import"} : Like(c) \in DOMAIN VirtualResponse
  BY DEF Like, VirtualResponse
<1>11. \A c \in {"cu_multicast_create", "cu_multicast_get_granularity"} :
         Like(c) \in DOMAIN MulticastResponse
  BY DEF Like, MulticastResponse
<1>12. \A c \in DOMAIN CallsVirtual : Row(CallsVirtual[c])
  BY <1>8, <1>9, <1>10, <1>11, Known, ListIs DEF CallsVirtual
<1>13. QED
  BY <1>3, <1>7, <1>12

(* The driver's lists are of different commands, and so are the daemon's.  *)
LEMMA Apart ==
  /\ DOMAIN SizesRuntime \cap DOMAIN SizesControl = {}
  /\ DOMAIN SizesRuntime \cap DOMAIN SizesMemory = {}
  /\ DOMAIN SizesRuntime \cap DOMAIN SizesVirtual = {}
  /\ DOMAIN SizesControl \cap DOMAIN SizesMemory = {}
  /\ DOMAIN SizesControl \cap DOMAIN SizesVirtual = {}
  /\ DOMAIN SizesMemory \cap DOMAIN SizesVirtual = {}
<1>1. DOMAIN SizesRuntime \cap DOMAIN SizesControl = {}
  BY DEF SizesRuntime, SizesControl, List
<1>2. DOMAIN SizesRuntime \cap DOMAIN SizesMemory = {}
  BY DEF SizesRuntime, SizesMemory, List
<1>3. DOMAIN SizesRuntime \cap DOMAIN SizesVirtual = {}
  BY DEF SizesRuntime, SizesVirtual, List
<1>4. DOMAIN SizesControl \cap DOMAIN SizesMemory = {}
  BY DEF SizesControl, SizesMemory, List
<1>5. DOMAIN SizesControl \cap DOMAIN SizesVirtual = {}
  BY DEF SizesControl, SizesVirtual, List
<1>6. DOMAIN SizesMemory \cap DOMAIN SizesVirtual = {}
  BY DEF SizesMemory, SizesVirtual, List
<1>7. QED
  BY <1>1, <1>2, <1>3, <1>4, <1>5, <1>6

LEMMA SizesFrom ==
  ASSUME NEW t \in {SizesRuntime, SizesControl, SizesMemory, SizesVirtual}, NEW c \in DOMAIN t
  PROVE  c \in DOMAIN Sizes /\ Sizes[c] = t[c]
<1>1. \A u \in {SizesRuntime, SizesControl, SizesMemory, SizesVirtual} : c \in DOMAIN u => u = t
  BY Apart
<1>2. QED
  BY <1>1, FromOnly DEF Sizes

LEMMA SameLists ==
  /\ SizesControl = HandlesControl /\ SizesMemory = HandlesMemory /\ SizesVirtual = HandlesVirtual
  /\ SizesControl = CallsControl /\ SizesVirtual = CallsVirtual
  /\ DOMAIN SizesRuntime = DOMAIN HandlesRuntime
<1>1. SizesControl = HandlesControl /\ SizesControl = CallsControl
  BY DEF SizesControl, HandlesControl, CallsControl
<1>2. SizesMemory = HandlesMemory
  BY DEF SizesMemory, HandlesMemory
<1>3. SizesVirtual = HandlesVirtual /\ SizesVirtual = CallsVirtual
  BY DEF SizesVirtual, HandlesVirtual, CallsVirtual
<1>4. DOMAIN SizesRuntime = DOMAIN HandlesRuntime
  BY DEF SizesRuntime, HandlesRuntime, List
<1>5. QED
  BY <1>1, <1>2, <1>3, <1>4

LEMMA HandlersFrom ==
  ASSUME NEW t \in {HandlesRuntime, HandlesControl, HandlesMemory, HandlesVirtual},
         NEW c \in DOMAIN t
  PROVE  c \in DOMAIN Handlers /\ Handlers[c] = t[c]
<1>1. \A u \in {HandlesRuntime, HandlesControl, HandlesMemory, HandlesVirtual} :
        c \in DOMAIN u => u = t
  BY Apart, SameLists
<1>2. QED
  BY <1>1, FromOnly DEF Handlers

(* The handlers read no structure for the one request that tells nothing.  *)
LEMMA RuntimeAgree ==
  \A t \in {CallsMemory, CallsRuntime, CallsQueries, CallsKernels} : \A c \in DOMAIN t :
    /\ c \in DOMAIN SizesRuntime /\ SizesRuntime[c] = t[c]
    /\ HandlesRuntime[c].resp = t[c].resp
    /\ HandlesRuntime[c].req = IF c = "device_synchronize" THEN 0 ELSE t[c].req
<1>1. \A c \in DOMAIN SizesRuntime :
        /\ HandlesRuntime[c].resp = SizesRuntime[c].resp
        /\ HandlesRuntime[c].req = IF c = "device_synchronize" THEN 0 ELSE SizesRuntime[c].req
  BY DEF SizesRuntime, HandlesRuntime, List
<1>2. \A c \in DOMAIN CallsMemory : c \in DOMAIN SizesRuntime /\ SizesRuntime[c] = CallsMemory[c]
  BY DEF CallsMemory, SizesRuntime, List
<1>3. \A c \in DOMAIN CallsRuntime : c \in DOMAIN SizesRuntime /\ SizesRuntime[c] = CallsRuntime[c]
  BY DEF CallsRuntime, SizesRuntime, List
<1>4. \A c \in DOMAIN CallsQueries : c \in DOMAIN SizesRuntime /\ SizesRuntime[c] = CallsQueries[c]
  BY DEF CallsQueries, SizesRuntime, List
<1>5. \A c \in DOMAIN CallsKernels : c \in DOMAIN SizesRuntime /\ SizesRuntime[c] = CallsKernels[c]
  BY DEF CallsKernels, SizesRuntime, List
<1>6. QED
  BY <1>1, <1>2, <1>3, <1>4, <1>5

LEMMA MemoryAgrees ==
  \A c \in DOMAIN CallsDriverMemory : c \in DOMAIN SizesMemory /\ SizesMemory[c] = CallsDriverMemory[c]
BY DEF CallsDriverMemory, SizesMemory, List

(* Driver and daemon know every command of the libraries, and for each     *)
(* have the lengths that the libraries have.                               *)
LEMMA ListsAgree ==
  ASSUME NEW c \in DOMAIN Library
  PROVE  /\ Row(Library[c])
         /\ c \in DOMAIN Sizes /\ Sizes[c] = Library[c]
         /\ c \in DOMAIN Handlers /\ Handlers[c].resp = Library[c].resp
         /\ Handlers[c].req = IF c = "device_synchronize" THEN 0 ELSE Library[c].req
<1>1. PICK t \in {CallsMemory, CallsRuntime, CallsQueries, CallsKernels,
                  CallsControl, CallsDriverMemory, CallsVirtual} :
        c \in DOMAIN t /\ Library[c] = t[c]
  BY FromSome DEF Library
<1>2. Row(Library[c])
  BY <1>1, RuntimeRows, DriverRows
<1>3. CASE t \in {CallsMemory, CallsRuntime, CallsQueries, CallsKernels}
  <2>1. /\ c \in DOMAIN SizesRuntime /\ SizesRuntime[c] = t[c]
        /\ HandlesRuntime[c].resp = t[c].resp
        /\ HandlesRuntime[c].req = IF c = "device_synchronize" THEN 0 ELSE t[c].req
    BY <1>1, <1>3, RuntimeAgree
  <2>2. c \in DOMAIN Sizes /\ Sizes[c] = SizesRuntime[c]
    BY <2>1, SizesFrom
  <2>3. c \in DOMAIN Handlers /\ Handlers[c] = HandlesRuntime[c]
    BY <2>1, SameLists, HandlersFrom
  <2>4. QED
    BY <1>1, <1>2, <2>1, <2>2, <2>3
<1>4. CASE t \in {CallsControl, CallsDriverMemory, CallsVirtual}
  <2>1. PICK u \in {SizesControl, SizesMemory, SizesVirtual} : c \in DOMAIN u /\ u[c] = t[c]
    BY <1>1, <1>4, SameLists, MemoryAgrees
  <2>2. c \in DOMAIN Sizes /\ Sizes[c] = u[c]
    BY <2>1, SizesFrom
  <2>3. c \in DOMAIN Handlers /\ Handlers[c] = u[c]
    BY <2>1, SameLists, HandlersFrom
  <2>4. c # "device_synchronize"
    <3>1. "device_synchronize" \in DOMAIN SizesRuntime
      BY DEF SizesRuntime, List
    <3>2. QED
      BY <2>1, <3>1, Apart
  <2>5. QED
    BY <1>1, <1>2, <2>1, <2>2, <2>3, <2>4
<1>5. QED
  BY <1>1, <1>3, <1>4

------------------------------------------------------------------------------
(* Names of kernels.                                                       *)

Text == Seq(Tokens)

(* A value that is made from the one before it stays what it was.          *)
LEMMA Stays ==
  ASSUME NEW V, NEW n \in Nat, NEW f, f[0] \in V, \A k \in 1..n : f[k - 1] \in V => f[k] \in V
  PROVE  \A k \in 0..n : f[k] \in V
<1> DEFINE S == {k \in 0..n : f[k] \in V}
<1>1. 0 \in S
  OBVIOUS
<1>2. \A k \in 1..n : k - 1 \in S => k \in S
  OBVIOUS
<1> HIDE DEF S
<1>3. \A k \in 0..n : k \in S
  BY <1>1, <1>2, UpTo
<1>4. QED
  BY <1>3 DEF S

LEMMA JoinedIs ==
  ASSUME NEW items \in Seq(Text)
  PROVE  LET j == Joined(items)
         IN /\ j[0] = <<>> /\ (Len(items) >= 1 => j[1] = items[1])
            /\ \A n \in 2..Len(items) : j[n] = j[n - 1] \o <<",">> \o items[n]
            /\ \A n \in 0..Len(items) : j[n] \in Text
<1> DEFINE len == Len(items)
<1>1. len \in Nat /\ \A n \in 1..len : items[n] \in Text
  BY LenProperties, ElementOfSeq
<1>2. <<>> \in Text /\ <<",">> \in Text /\ \A s, t \in Text : s \o t \in Text
  <2>1. <<>> \in Text /\ <<",">> \in Text
    <3>1. <<>> \in Text
      BY EmptySeq DEF Text
    <3>2. "," \in Tokens
      BY DEF Tokens
    <3>3. \A w \in Tokens : <<w>> \in Text
      BY DEF Text
    <3>4. QED
      BY <3>1, <3>2, <3>3
  <2>2. ASSUME NEW s \in Text, NEW t \in Text PROVE s \o t \in Text
    BY ConcatProperties DEF Text
  <2>3. QED
    BY <2>1, <2>2
<1> DEFINE G == [kx \in (1..len) \X Text |->
                   IF kx[1] = 1 THEN items[1] ELSE kx[2] \o <<",">> \o items[kx[1]]]
<1>3. G \in [(1..len) \X Text -> Text]
  <2>1. ASSUME NEW k \in 1..len, NEW x \in Text
        PROVE (IF k = 1 THEN items[1] ELSE x \o <<",">> \o items[k]) \in Text
    BY <1>1, <1>2
  <2>2. QED
    BY <2>1
<1>4. PICK f \in [0..len -> Text] : Follows(f, <<>>, G, len)
  BY <1>1, <1>2, <1>3, Recursion
<1> DEFINE Eq(j) == j = [n \in 0..len |-> IF n = 0 THEN <<>> ELSE IF n = 1 THEN items[1]
                                          ELSE j[n - 1] \o <<",">> \o items[n]]
<1>5. Eq(f)
  <2>1. ASSUME NEW n \in 1..len
        PROVE f[n] = IF n = 1 THEN items[1] ELSE f[n - 1] \o <<",">> \o items[n]
    <3>1. n - 1 \in 0..len /\ f[n - 1] \in Text
      BY <1>1
    <3>2. f[n] = G[<<n, f[n - 1]>>]
      BY <1>4 DEF Follows
    <3>3. G[<<n, f[n - 1]>>] = IF n = 1 THEN items[1] ELSE f[n - 1] \o <<",">> \o items[n]
      BY <3>1
    <3>4. QED
      BY <3>2, <3>3
  <2>2. \A n \in 0..len : n # 0 => n \in 1..len
    BY <1>1
  <2>3. f[0] = <<>>
    BY <1>4 DEF Follows
  <2>4. QED
    BY <2>1, <2>2, <2>3
<1>6. Joined(items) = CHOOSE j : Eq(j)
  BY DEF Joined
<1>7. Eq(Joined(items))
  BY <1>5, <1>6
<1> DEFINE j == Joined(items)
<1> HIDE DEF j, G
<1>8. j = [n \in 0..len |-> IF n = 0 THEN <<>> ELSE IF n = 1 THEN items[1]
                            ELSE j[n - 1] \o <<",">> \o items[n]]
  BY <1>7 DEF j
<1>9. /\ j[0] = <<>> /\ (len >= 1 => j[1] = items[1])
      /\ \A n \in 2..len : j[n] = j[n - 1] \o <<",">> \o items[n]
  <2> HIDE DEF len
  <2>1. \A n \in 0..len : j[n] = IF n = 0 THEN <<>> ELSE IF n = 1 THEN items[1]
                                ELSE j[n - 1] \o <<",">> \o items[n]
    BY <1>8
  <2>4. j[0] = <<>>
    <3>1. 0 \in 0..len
      BY <1>1
    <3>2. QED
      BY <2>1, <3>1
  <2>5. ASSUME len >= 1 PROVE j[1] = items[1]
    <3>1. 1 \in 0..len /\ 1 # 0
      BY <1>1, <2>5
    <3>2. j[1] = IF 1 = 0 THEN <<>> ELSE IF 1 = 1 THEN items[1]
                                ELSE j[1 - 1] \o <<",">> \o items[1]
      BY <2>1, <3>1
    <3>3. QED
      BY <3>1, <3>2
  <2>2. ASSUME NEW n \in 2..len PROVE j[n] = j[n - 1] \o <<",">> \o items[n]
    <3>1. n \in 0..len /\ n # 0 /\ n # 1
      BY <1>1
    <3>2. QED
      BY <2>1, <3>1
  <2>3. QED
    BY <2>2, <2>4, <2>5
<1>10. \A n \in 1..len : j[n - 1] \in Text => j[n] \in Text
  <2>1. ASSUME NEW n \in 1..len, j[n - 1] \in Text PROVE j[n] \in Text
    <3>1. CASE n = 1
      <4>1. 1 \in 1..len /\ len >= 1
        BY <1>1, <3>1
      <4>2. QED
        BY <1>1, <1>9, <3>1, <4>1
    <3>2. CASE n # 1
      <4>1. n \in 2..len
        BY <1>1, <3>2
      <4>2. j[n - 1] \o <<",">> \in Text /\ items[n] \in Text
        BY <1>1, <1>2, <2>1
      <4>3. j[n] = (j[n - 1] \o <<",">>) \o items[n]
        BY <1>9, <4>1
      <4>4. QED
        BY <1>2, <4>2, <4>3
    <3>3. QED
      BY <3>1, <3>2
  <2>2. QED
    BY <2>1
<1>11. \A n \in 0..len : j[n] \in Text
  BY <1>1, <1>2, <1>9, <1>10, Stays
<1>12. QED
  BY <1>9, <1>11 DEF j

LEMMA DepthIs ==
  ASSUME NEW t \in Text
  PROVE  LET d == Depth(t)
         IN /\ d[0] = 0
            /\ \A n \in 1..Len(t) : d[n] = d[n - 1] + Nesting(t[n])
            /\ \A n \in 0..Len(t) : d[n] \in Int
<1> DEFINE len == Len(t)
<1>1. len \in Nat
  BY LenProperties DEF Text
<1> DEFINE step == [n \in 1..len |-> Nesting(t[n])]
<1>2. \A n \in 1..len : step[n] \in Int
  BY DEF Nesting
<1> DEFINE G == [kx \in (1..len) \X Int |-> kx[2] + step[kx[1]]]
<1>3. G \in [(1..len) \X Int -> Int]
  <2> HIDE DEF step
  <2>1. QED
    BY <1>2
<1>4. PICK f \in [0..len -> Int] : Follows(f, 0, G, len)
  <2>1. 0 \in Int
    OBVIOUS
  <2>2. QED
    BY <1>1, <1>3, <2>1, Recursion
<1> DEFINE Eq(d) == d = [n \in 0..len |-> IF n = 0 THEN 0 ELSE d[n - 1] + Nesting(t[n])]
<1>5. Eq(f)
  <2>1. ASSUME NEW n \in 1..len PROVE f[n] = f[n - 1] + Nesting(t[n])
    <3>1. n - 1 \in 0..len /\ f[n - 1] \in Int
      BY <1>1
    <3>2. f[n] = G[<<n, f[n - 1]>>]
      BY <1>4 DEF Follows
    <3>3. G[<<n, f[n - 1]>>] = f[n - 1] + step[n]
      BY <3>1
    <3>4. QED
      BY <3>2, <3>3
  <2>2. \A n \in 0..len : n # 0 => n \in 1..len
    BY <1>1
  <2>3. f[0] = 0
    BY <1>4 DEF Follows
  <2>4. QED
    BY <2>1, <2>2, <2>3
<1>6. Depth(t) = CHOOSE d : Eq(d)
  BY DEF Depth
<1>7. Eq(Depth(t))
  BY <1>5, <1>6
<1> DEFINE d == Depth(t)
<1> HIDE DEF d, G
<1>8. d = [n \in 0..len |-> IF n = 0 THEN 0 ELSE d[n - 1] + Nesting(t[n])]
  BY <1>7 DEF d
<1>9. d[0] = 0 /\ \A n \in 1..len : d[n] = d[n - 1] + Nesting(t[n])
  BY <1>1, <1>8
<1>10. \A n \in 1..len : d[n - 1] \in Int => d[n] \in Int
  <2>1. \A n \in 1..len : d[n] = d[n - 1] + step[n]
    BY <1>9
  <2> HIDE DEF step
  <2>2. QED
    BY <1>2, <2>1
<1>11. \A n \in 0..len : d[n] \in Int
  <2>1. 0 \in Int /\ d[0] \in Int
    BY <1>9
  <2>2. QED
    BY <1>1, <1>10, <2>1, Stays
<1>12. QED
  BY <1>9, <1>11 DEF d

LEMMA Concat ==
  ASSUME NEW s \in Text, NEW t \in Text
  PROVE  /\ s \o t \in Text /\ Len(s) \in Nat /\ Len(t) \in Nat
         /\ Len(s \o t) = Len(s) + Len(t)
         /\ \A i \in 1..Len(s) : (s \o t)[i] = s[i]
         /\ \A i \in 1..Len(t) : (s \o t)[Len(s) + i] = t[i]
<1>1. Len(s) \in Nat /\ Len(t) \in Nat
  BY LenProperties DEF Text
<1>2. /\ s \o t \in Text /\ Len(s \o t) = Len(s) + Len(t)
      /\ \A i \in 1..(Len(s) + Len(t)) : (s \o t)[i] = IF i <= Len(s) THEN s[i] ELSE t[i - Len(s)]
  BY ConcatProperties DEF Text
<1>3. \A i \in 1..Len(s) : (s \o t)[i] = s[i]
  BY <1>1, <1>2
<1>4. \A i \in 1..Len(t) : (s \o t)[Len(s) + i] = t[i]
  <2>1. ASSUME NEW i \in 1..Len(t) PROVE (s \o t)[Len(s) + i] = t[i]
    <3>1. /\ Len(s) + i \in 1..(Len(s) + Len(t)) /\ ~(Len(s) + i <= Len(s))
          /\ Len(s) + i - Len(s) = i
      BY <1>1
    <3>2. QED
      BY <1>2, <3>1
  <2>2. QED
    BY <2>1
<1>5. QED
  BY <1>1, <1>2, <1>3, <1>4

(* The scan of the second of two texts goes on from the first.             *)
LEMMA DepthConcat ==
  ASSUME NEW s \in Text, NEW t \in Text
  PROVE  /\ \A i \in 0..Len(s) : Depth(s \o t)[i] = Depth(s)[i]
         /\ \A i \in 0..Len(t) : Depth(s \o t)[Len(s) + i] = Depth(s)[Len(s)] + Depth(t)[i]
<1> DEFINE a == Len(s)
<1> DEFINE b == Len(t)
<1> DEFINE u == s \o t
<1> DEFINE du == Depth(u)
<1> DEFINE ds == Depth(s)
<1> DEFINE dt == Depth(t)
<1>1. /\ u \in Text /\ a \in Nat /\ b \in Nat /\ Len(u) = a + b
      /\ \A i \in 1..a : u[i] = s[i]
      /\ \A i \in 1..b : u[a + i] = t[i]
  BY Concat
<1>2. /\ du[0] = 0 /\ \A n \in 1..(a + b) : du[n] = du[n - 1] + Nesting(u[n])
      /\ \A n \in 0..(a + b) : du[n] \in Int
  BY <1>1, DepthIs
<1>3. /\ ds[0] = 0 /\ \A n \in 1..a : ds[n] = ds[n - 1] + Nesting(s[n])
      /\ \A n \in 0..a : ds[n] \in Int
  BY DepthIs
<1>4. /\ dt[0] = 0 /\ \A n \in 1..b : dt[n] = dt[n - 1] + Nesting(t[n])
      /\ \A n \in 0..b : dt[n] \in Int
  BY DepthIs
<1> HIDE DEF a, b, u, du, ds, dt
<1>5. \A i \in 0..a : du[i] = ds[i]
  <2> DEFINE S == {i \in 0..a : du[i] = ds[i]}
  <2>1. 0 \in S
    BY <1>1, <1>2, <1>3
  <2>2. ASSUME NEW i \in 1..a, i - 1 \in S PROVE i \in S
    <3>1. i \in 1..(a + b) /\ i \in 0..a
      BY <1>1
    <3>2. du[i] = du[i - 1] + Nesting(s[i])
      BY <1>1, <1>2, <3>1
    <3>3. ds[i] = ds[i - 1] + Nesting(s[i])
      BY <1>3
    <3>4. QED
      BY <2>2, <3>1, <3>2, <3>3
  <2> HIDE DEF S
  <2>3. \A i \in 0..a : i \in S
    BY <1>1, <2>1, <2>2, UpTo
  <2>4. QED
    BY <2>3 DEF S
<1>6. \A i \in 0..b : du[a + i] = ds[a] + dt[i]
  <2> DEFINE S == {i \in 0..b : du[a + i] = ds[a] + dt[i]}
  <2>1. 0 \in S
    <3>1. du[a] = ds[a] /\ ds[a] \in Int /\ a + 0 = a /\ 0 \in 0..b
      BY <1>1, <1>3, <1>5
    <3>2. ds[a] + 0 = ds[a]
      BY <3>1
    <3>3. QED
      BY <1>4, <3>1, <3>2
  <2>2. ASSUME NEW i \in 1..b, i - 1 \in S PROVE i \in S
    <3>1. a + i \in 1..(a + b) /\ (a + i) - 1 = a + (i - 1) /\ i \in 0..b /\ i - 1 \in 0..b
      BY <1>1
    <3>2. du[a + i] = du[a + (i - 1)] + Nesting(t[i])
      BY <1>1, <1>2, <3>1
    <3>3. du[a + (i - 1)] = ds[a] + dt[i - 1] /\ dt[i] = dt[i - 1] + Nesting(t[i])
      BY <1>4, <2>2
    <3> DEFINE x == ds[a]
    <3> DEFINE y == dt[i - 1]
    <3> DEFINE z == Nesting(t[i])
    <3>4. x \in Int /\ y \in Int /\ z \in Int
      <4>1. a \in 0..a
        BY <1>1
      <4>2. QED
        BY <1>3, <1>4, <3>1, <4>1 DEF Nesting
    <3>5. du[a + i] = (x + y) + z /\ dt[i] = y + z
      BY <3>2, <3>3
    <3> HIDE DEF x, y, z
    <3>6. (x + y) + z = x + (y + z)
      BY <3>4
    <3>7. QED
      BY <3>1, <3>5, <3>6 DEF x
  <2> HIDE DEF S
  <2>3. \A i \in 0..b : i \in S
    BY <1>1, <2>1, <2>2, UpTo
  <2>4. QED
    BY <2>3 DEF S
<1>7. QED
  BY <1>5, <1>6 DEF a, b, u, du, ds, dt

(* If the brackets of the first text match, the commas outside brackets    *)
(* are those of both.                                                      *)
LEMMA CommasConcat ==
  ASSUME NEW s \in Text, NEW t \in Text, Depth(s)[Len(s)] = 0
  PROVE  /\ OuterCommas(s \o t) = OuterCommas(s) \cup {Len(s) + i : i \in OuterCommas(t)}
         /\ Depth(s \o t)[Len(s \o t)] = Depth(t)[Len(t)]
<1> DEFINE a == Len(s)
<1> DEFINE b == Len(t)
<1> DEFINE u == s \o t
<1>1. /\ u \in Text /\ a \in Nat /\ b \in Nat /\ Len(u) = a + b
      /\ \A i \in 1..a : u[i] = s[i]
      /\ \A i \in 1..b : u[a + i] = t[i]
  BY Concat
<1>2. \A i \in 0..b : Depth(t)[i] \in Int
  BY DepthIs
<1>3. \A i \in 0..a : Depth(u)[i] = Depth(s)[i]
  BY DepthConcat
<1>4. \A i \in 0..b : Depth(u)[a + i] = Depth(t)[i]
  <2>1. ASSUME NEW i \in 0..b PROVE Depth(u)[a + i] = Depth(t)[i]
    <3>1. Depth(u)[a + i] = 0 + Depth(t)[i] /\ Depth(t)[i] \in Int
      BY <1>2, DepthConcat
    <3>2. QED
      BY <3>1
  <2>2. QED
    BY <2>1
<1> DEFINE cu == OuterCommas(u)
<1> DEFINE cs == OuterCommas(s)
<1> DEFINE ct == OuterCommas(t)
<1>5. /\ \A n : n \in cu <=> n \in 1..(a + b) /\ u[n] = "," /\ Depth(u)[n - 1] = 0
      /\ \A n : n \in cs <=> n \in 1..a /\ s[n] = "," /\ Depth(s)[n - 1] = 0
      /\ \A n : n \in ct <=> n \in 1..b /\ t[n] = "," /\ Depth(t)[n - 1] = 0
  BY <1>1 DEF OuterCommas
<1> HIDE DEF cu, cs, ct, a, b, u
<1>6. ASSUME NEW n \in 1..a PROVE n \in cu <=> n \in cs
  <2>1. n \in 1..(a + b) /\ n - 1 \in 0..a
    BY <1>1
  <2>2. u[n] = s[n] /\ Depth(u)[n - 1] = Depth(s)[n - 1]
    BY <1>1, <1>3, <2>1
  <2>3. QED
    BY <1>5, <2>1, <2>2
<1>7. ASSUME NEW i \in 1..b PROVE a + i \in cu <=> i \in ct
  <2>1. a + i \in 1..(a + b) /\ (a + i) - 1 = a + (i - 1) /\ i - 1 \in 0..b
    BY <1>1
  <2>2. u[a + i] = t[i] /\ Depth(u)[(a + i) - 1] = Depth(t)[i - 1]
    BY <1>1, <1>4, <2>1
  <2>3. QED
    BY <1>5, <2>1, <2>2
<1>8. cu = cs \cup {a + i : i \in ct}
  <2>1. ASSUME NEW n \in cu PROVE n \in cs \cup {a + i : i \in ct}
    <3>1. n \in 1..(a + b)
      BY <1>5
    <3>2. CASE n \in 1..a
      BY <1>6, <3>2
    <3>3. CASE n \notin 1..a
      <4>1. n - a \in 1..b /\ n = a + (n - a)
        BY <1>1, <3>1, <3>3
      <4>2. n - a \in ct
        BY <1>7, <4>1
      <4>3. QED
        BY <4>1, <4>2
    <3>4. QED
      BY <3>2, <3>3
  <2>2. ASSUME NEW n \in cs PROVE n \in cu
    BY <1>5, <1>6
  <2>3. ASSUME NEW i \in ct PROVE a + i \in cu
    <3>1. i \in 1..b
      BY <1>5
    <3>2. QED
      BY <1>7, <3>1
  <2>4. QED
    BY <2>1, <2>2, <2>3
<1>9. Depth(u)[Len(u)] = Depth(t)[b]
  <2>1. b \in 0..b
    BY <1>1
  <2>2. QED
    BY <1>1, <1>4, <2>1
<1>10. QED
  BY <1>8, <1>9 DEF cu, cs, ct, a, b, u

(* A list of n types as the demangler writes it.                           *)
Listed(c, n) ==
  /\ c \in Text /\ Len(c) >= 1 /\ Depth(c)[Len(c)] = 0
  /\ IsFiniteSet(OuterCommas(c)) /\ Cardinality(OuterCommas(c)) = n - 1

LEMMA OneToken ==
  ASSUME NEW w \in Tokens
  PROVE  <<w>> \in Text /\ Len(<<w>>) = 1 /\ <<w>>[1] = w
<1>1. <<w>> \in Text
  BY DEF Text
<1>2. Len(<<w>>) = 1 /\ <<w>>[1] = w
  OBVIOUS
<1>3. QED
  BY <1>1, <1>2

LEMMA Comma ==
  /\ <<",">> \in Text /\ Len(<<",">>) = 1 /\ Depth(<<",">>)[1] = 0 /\ OuterCommas(<<",">>) = {1}
<1>1. "," \in Tokens
  BY DEF Tokens
<1> DEFINE c == <<",">>
<1>2. c \in Text /\ Len(c) = 1 /\ c[1] = ","
  BY <1>1, OneToken
<1> HIDE DEF c
<1>3. Nesting(",") = 0
  BY DEF Nesting
<1>4. Depth(c)[0] = 0 /\ Depth(c)[1] = 0
  <2>0. Len(c) = 1
    BY <1>2
  <2>1. 1 \in 1..Len(c) /\ 1 - 1 = 0
    BY <2>0
  <2>2. Depth(c)[0] = 0 /\ Depth(c)[1] = Depth(c)[1 - 1] + Nesting(c[1])
    BY <1>2, <2>1, DepthIs
  <2>3. Nesting(c[1]) = 0
    BY <1>2, <1>3
  <2>4. Depth(c)[1] = 0 + 0
    BY <2>1, <2>2, <2>3
  <2>5. QED
    BY <2>2, <2>4
<1>5. OuterCommas(c) = {1}
  <2>1. OuterCommas(c) = {n \in 1..1 : c[n] = "," /\ Depth(c)[n - 1] = 0}
    BY <1>2 DEF OuterCommas
  <2>2. \A n : n \in 1..1 <=> n = 1
    OBVIOUS
  <2>3. 1 - 1 = 0
    OBVIOUS
  <2>4. c[1] = "," /\ Depth(c)[1 - 1] = 0
    BY <1>2, <1>4, <2>3
  <2> DEFINE good == {n \in 1..1 : c[n] = "," /\ Depth(c)[n - 1] = 0}
  <2>5. \A n : n \in good <=> n = 1
    BY <2>2, <2>4
  <2>6. good = {1}
    BY <2>5
  <2>7. QED
    BY <2>1, <2>6
<1>6. QED
  BY <1>2, <1>4, <1>5 DEF c

LEMMA ListedOne ==
  ASSUME NEW t \in Text, IsType(t)
  PROVE  Listed(t, 1)
<1>1. Len(t) \in Nat /\ Len(t) # 0
  <2>1. t # <<>> /\ t \in Seq(Tokens)
    BY DEF IsType, Text
  <2>2. QED
    BY <2>1, LenProperties, EmptySeq
<1>2. OuterCommas(t) = {} /\ Depth(t)[Len(t)] = 0
  BY DEF IsType
<1>3. IsFiniteSet({}) /\ Cardinality({}) = 1 - 1
  BY FS_EmptySet
<1>4. QED
  BY <1>1, <1>2, <1>3 DEF Listed

LEMMA ListedNext ==
  ASSUME NEW n \in Nat, NEW s, Listed(s, n), NEW t \in Text, IsType(t)
  PROVE  Listed((s \o <<",">>) \o t, n + 1)
<1> DEFINE c == <<",">>
<1> DEFINE v == s \o c
<1> DEFINE w == v \o t
<1>1. s \in Text /\ Len(s) >= 1 /\ Depth(s)[Len(s)] = 0
  BY DEF Listed
<1>2. IsFiniteSet(OuterCommas(s)) /\ Cardinality(OuterCommas(s)) = n - 1
  BY DEF Listed
<1>3. OuterCommas(v) = OuterCommas(s) \cup {Len(s) + i : i \in {1}} /\ Depth(v)[Len(v)] = 0
  <2>1. OuterCommas(c) = {1} /\ Depth(c)[Len(c)] = 0 /\ c \in Text
    BY Comma
  <2> HIDE DEF c
  <2>2. QED
    BY <1>1, <2>1, CommasConcat
<1>4. v \in Text /\ Len(v) = Len(s) + 1 /\ Len(s) \in Nat
  BY <1>1, Comma, Concat
<1>5. OuterCommas(w) = OuterCommas(v) \cup {Len(v) + i : i \in {}} /\ Depth(w)[Len(w)] = 0
  <2>1. OuterCommas(t) = {} /\ Depth(t)[Len(t)] = 0
    BY DEF IsType
  <2> HIDE DEF v
  <2>2. QED
    BY <1>3, <1>4, <2>1, CommasConcat
<1>6. w \in Text /\ Len(w) >= 1
  <2> HIDE DEF v
  <2>1. w \in Text /\ Len(w) = Len(v) + Len(t) /\ Len(t) \in Nat
    BY <1>4, Concat
  <2> HIDE DEF w
  <2>2. QED
    BY <1>4, <2>1
<1>7. OuterCommas(w) = OuterCommas(s) \cup {Len(s) + 1}
  BY <1>3, <1>5
<1>8. Len(s) + 1 \notin OuterCommas(s)
  <2>1. OuterCommas(s) \subseteq 1..Len(s)
    BY DEF OuterCommas
  <2>0. Len(s) \in Nat
    BY <1>4
  <2>2. Len(s) + 1 \notin 1..Len(s)
    BY <2>0
  <2>3. QED
    BY <2>1, <2>2
<1> HIDE DEF c, v, w
<1>9. IsFiniteSet(OuterCommas(w)) /\ Cardinality(OuterCommas(w)) = Cardinality(OuterCommas(s)) + 1
  BY <1>2, <1>7, <1>8, FS_AddElement
<1>10. Cardinality(OuterCommas(w)) = (n + 1) - 1
  BY <1>2, <1>9
<1>11. Listed(w, n + 1)
  BY <1>5, <1>6, <1>9, <1>10 DEF Listed
<1>12. QED
  BY <1>11 DEF w, v, c

LEMMA CommasListed ==
  ASSUME NEW items \in Seq(Text), \A n \in 1..Len(items) : IsType(items[n]), Len(items) # 0
  PROVE  Listed(Commas(items), Len(items))
<1> DEFINE len == Len(items)
<1> DEFINE j == Joined(items)
<1> DEFINE S == {n \in 0..len : n = 0 \/ Listed(j[n], n)}
<1>1. len \in Nat /\ \A n \in 1..len : items[n] \in Text
  BY LenProperties, ElementOfSeq
<1>2. /\ len >= 1 => j[1] = items[1]
      /\ \A n \in 2..len : j[n] = (j[n - 1] \o <<",">>) \o items[n]
  BY JoinedIs
<1> HIDE DEF j, len
<1>3. 0 \in S
  BY <1>1
<1>4. ASSUME NEW n \in 1..len, n - 1 \in S PROVE n \in S
  <2>1. items[n] \in Text /\ IsType(items[n])
    BY <1>1 DEF len
  <2>2. CASE n = 1
    <3>0. len >= 1
      BY <1>1, <2>2
    <3>1. j[1] = items[1]
      BY <1>2, <3>0
    <3>2. QED
      BY <1>1, <2>1, <2>2, <3>1, ListedOne
  <2>3. CASE n # 1
    <3>1. n \in 2..len /\ n - 1 \in Nat /\ (n - 1) + 1 = n /\ n - 1 # 0
      BY <1>1, <2>3
    <3>2. Listed(j[n - 1], n - 1)
      BY <1>4, <3>1
    <3>3. Listed((j[n - 1] \o <<",">>) \o items[n], (n - 1) + 1)
      BY <2>1, <3>1, <3>2, ListedNext
    <3>4. j[n] = (j[n - 1] \o <<",">>) \o items[n]
      BY <1>2, <3>1
    <3>5. Listed(j[n], n)
      BY <3>1, <3>3, <3>4
    <3>6. n \in 0..len
      BY <1>1
    <3>7. QED
      BY <3>5, <3>6
  <2>4. QED
    BY <2>2, <2>3
<1>5. len \in S
  <2> HIDE DEF S
  <2>1. \A n \in 0..len : n \in S
    BY <1>1, <1>3, <1>4, UpTo
  <2>2. QED
    BY <1>1, <2>1
<1>6. Listed(j[len], len)
  BY <1>5 DEF len
<1>7. QED
  BY <1>6 DEF Commas, j, len

(* The first of the opening parentheses and the last of the closing ones   *)
(* are those of the parameters, if the name has none before.               *)
LEMMA BetweenIs ==
  ASSUME NEW s \in Text, NEW c \in Text, \A i \in 1..Len(s) : s[i] # "("
  PROVE  Between(((s \o <<"(">>) \o c) \o <<")">>) = c
<1> DEFINE v == s \o <<"(">>
<1> DEFINE w == v \o c
<1> DEFINE u == w \o <<")">>
<1> DEFINE a == Len(s)
<1> DEFINE b == Len(c)
<1>1. "(" \in Tokens /\ ")" \in Tokens
  BY DEF Tokens
<1>2. /\ <<"(">> \in Text /\ Len(<<"(">>) = 1 /\ <<"(">>[1] = "("
      /\ <<")">> \in Text /\ Len(<<")">>) = 1 /\ <<")">>[1] = ")"
  BY <1>1, OneToken
<1>3. /\ v \in Text /\ a \in Nat /\ Len(v) = a + 1
      /\ \A i \in 1..a : v[i] = s[i]
      /\ v[a + 1] = "("
  BY <1>2, Concat
<1>4. /\ w \in Text /\ b \in Nat /\ Len(w) = a + 1 + b
      /\ \A i \in 1..(a + 1) : w[i] = v[i]
      /\ \A i \in 1..b : w[(a + 1) + i] = c[i]
  <2> HIDE DEF v
  <2>1. /\ w \in Text /\ b \in Nat /\ Len(w) = Len(v) + b
        /\ \A i \in 1..Len(v) : w[i] = v[i]
        /\ \A i \in 1..b : w[Len(v) + i] = c[i]
    BY <1>3, Concat
  <2>2. QED
    BY <1>3, <2>1
<1>5. /\ u \in Text /\ Len(u) = (a + 1 + b) + 1
      /\ \A i \in 1..(a + 1 + b) : u[i] = w[i]
      /\ u[(a + 1 + b) + 1] = ")"
  <2> HIDE DEF w
  <2> DEFINE p == <<")">>
  <2>0. p \in Text /\ Len(p) = 1 /\ p[1] = ")" /\ 1 \in 1..1
    BY <1>2
  <2> HIDE DEF p
  <2>3. /\ w \o p \in Text /\ Len(w \o p) = Len(w) + Len(p)
        /\ \A i \in 1..Len(w) : (w \o p)[i] = w[i]
        /\ \A i \in 1..Len(p) : (w \o p)[Len(w) + i] = p[i]
    BY <1>4, <2>0, Concat
  <2>1. /\ u \in Text /\ Len(u) = Len(w) + 1
        /\ \A i \in 1..Len(w) : u[i] = w[i]
        /\ u[Len(w) + 1] = ")"
    BY <2>0, <2>3 DEF p
  <2>2. QED
    BY <1>4, <2>1
<1> DEFINE e == (a + 1 + b) + 1
<1>6. /\ u[a + 1] = "(" /\ \A i \in 1..a : u[i] # "("
      /\ u[e] = ")"
      /\ \A i \in 1..b : u[(a + 1) + i] = c[i]
  <2> HIDE DEF u, w, v
  <2>1. a + 1 \in 1..(a + 1 + b) /\ a + 1 \in 1..(a + 1)
    BY <1>3, <1>4
  <2>2. u[a + 1] = "("
    BY <1>3, <1>4, <1>5, <2>1
  <2>3. ASSUME NEW i \in 1..a PROVE u[i] # "("
    <3>1. i \in 1..(a + 1 + b) /\ i \in 1..(a + 1)
      BY <1>3, <1>4
    <3>2. QED
      BY <1>3, <1>4, <1>5, <3>1
  <2>4. ASSUME NEW i \in 1..b PROVE u[(a + 1) + i] = c[i]
    <3>1. (a + 1) + i \in 1..(a + 1 + b)
      BY <1>3, <1>4
    <3>2. QED
      BY <1>4, <1>5, <3>1
  <2>5. QED
    BY <1>5, <2>2, <2>3, <2>4
<1>7. Len(u) = e /\ e \in Nat /\ a + 1 \in 1..e /\ e \in 1..e
  BY <1>3, <1>4, <1>5
<1> HIDE DEF u, v, w
<1>8. SelectInSeq(u, LAMBDA x : x = "(") = a + 1
  <2> DEFINE I == {i \in 1..Len(u) : u[i] = "("}
  <2>1. a + 1 \in I /\ I \subseteq Nat
    BY <1>6, <1>7
  <2>2. \A i \in I : a + 1 <= i
    BY <1>3, <1>6, <1>7
  <2>3. SelectInSeq(u, LAMBDA x : x = "(") = IF I # {} THEN Min(I) ELSE 0
    BY DEF SelectInSeq
  <2> HIDE DEF I
  <2>4. Min(I) \in I /\ \A i \in I : Min(I) <= i
    BY <2>1, <2>2 DEF Min
  <2>5. Min(I) = a + 1
    <3>1. Min(I) <= a + 1 /\ a + 1 <= Min(I) /\ Min(I) \in Nat /\ a + 1 \in Nat
      BY <1>3, <2>1, <2>2, <2>4
    <3>2. QED
      BY <3>1
  <2>6. QED
    BY <2>1, <2>3, <2>5
<1>9. SelectLastInSeq(u, LAMBDA x : x = ")") = e
  <2> DEFINE I == {i \in 1..Len(u) : u[i] = ")"}
  <2>1. e \in I /\ I \subseteq Nat
    BY <1>6, <1>7
  <2>2. \A i \in I : e >= i
    BY <1>7
  <2>3. SelectLastInSeq(u, LAMBDA x : x = ")") = IF I # {} THEN Max(I) ELSE 0
    BY DEF SelectLastInSeq
  <2> HIDE DEF I, e
  <2>4. Max(I) \in I /\ \A i \in I : Max(I) >= i
    BY <2>1, <2>2 DEF Max
  <2>5. Max(I) = e
    <3>1. Max(I) <= e /\ e <= Max(I) /\ Max(I) \in Nat /\ e \in Nat
      BY <1>7, <2>1, <2>2, <2>4
    <3>2. QED
      BY <3>1
  <2>6. QED
    BY <2>1, <2>3, <2>5
<1>10. Between(u) = SubSeq(u, (a + 1) + 1, e - 1)
  BY <1>8, <1>9 DEF Between
<1> DEFINE m == (a + 1) + 1
<1> DEFINE n == e - 1
<1>11. SubSeq(u, m, n) = c
  <2>1. m \in Int /\ n \in Int /\ n - m + 1 = b /\ (m <= n <=> b # 0)
    BY <1>3, <1>4
  <2>2. \A i \in m..n : u[i] \in Tokens
    <3>1. \A i \in m..n : i \in 1..Len(u)
      BY <1>3, <1>4, <1>7
    <3>2. QED
      BY <1>5, <3>1, ElementOfSeq DEF Text
  <2>3. \A i \in 1..b : u[(m + i) - 1] = c[i]
    <3>1. \A i \in 1..b : (m + i) - 1 = (a + 1) + i
      BY <1>3, <1>4
    <3>2. QED
      BY <1>6, <3>1
  <2> HIDE DEF m, n
  <2>4. /\ SubSeq(u, m, n) \in Seq(Tokens)
        /\ Len(SubSeq(u, m, n)) = IF m <= n THEN n - m + 1 ELSE 0
        /\ \A i \in 1..(n - m + 1) : SubSeq(u, m, n)[i] = u[m + i - 1]
    BY <2>1, <2>2, SubSeqProperties
  <2>5. Len(SubSeq(u, m, n)) = b
    BY <1>4, <2>1, <2>4
  <2>6. \A i \in 1..b : SubSeq(u, m, n)[i] = c[i]
    BY <2>1, <2>3, <2>4
  <2>7. QED
    BY <2>4, <2>5, <2>6, SeqEqual DEF Text
<1>12. QED
  BY <1>10, <1>11 DEF u, w, v

LEMMA BetweenText ==
  ASSUME NEW w \in Text
  PROVE  Between(w \o <<")">>) \in Text
<1> DEFINE u == w \o <<")">>
<1> DEFINE e == Len(u)
<1>1. u \in Text /\ e \in Nat /\ e >= 1 /\ u[e] = ")"
  <2> DEFINE p == <<")">>
  <2>1. p \in Text /\ Len(p) = 1 /\ p[1] = ")"
    <3>1. ")" \in Tokens
      BY DEF Tokens
    <3>2. QED
      BY <3>1, OneToken
  <2> HIDE DEF p
  <2>2. /\ w \o p \in Text /\ Len(w \o p) = Len(w) + Len(p) /\ Len(w) \in Nat
        /\ \A i \in 1..Len(p) : (w \o p)[Len(w) + i] = p[i]
    BY <2>1, Concat
  <2>3. Len(p) = 1 /\ Len(w) \in Nat
    BY <2>1, <2>2
  <2>4. 1 \in 1..Len(p) /\ Len(w) + Len(p) = Len(w) + 1 /\ Len(w) + 1 \in Nat /\ Len(w) + 1 >= 1
    BY <2>3
  <2>5. QED
    BY <2>1, <2>2, <2>4 DEF p
<1> HIDE DEF u
<1> DEFINE I == {i \in 1..Len(u) : u[i] = "("}
<1> DEFINE J == {i \in 1..Len(u) : u[i] = ")"}
<1> DEFINE f == SelectInSeq(u, LAMBDA x : x = "(")
<1> DEFINE g == SelectLastInSeq(u, LAMBDA x : x = ")")
<1>2. f \in 0..e
  <2>1. f = IF I # {} THEN Min(I) ELSE 0
    BY DEF SelectInSeq
  <2>2. I \in SUBSET Nat /\ I \subseteq 0..e
    BY <1>1
  <2>3. CASE I = {}
    BY <1>1, <2>1, <2>3
  <2>4. CASE I # {}
    <3> HIDE DEF I
    <3>1. \E m \in I : \A k \in I : m <= k
      BY <2>2, <2>4, LeastOf
    <3>2. Min(I) \in I
      BY <3>1 DEF Min
    <3>3. QED
      BY <2>1, <2>2, <2>4, <3>2
  <2>5. QED
    BY <2>3, <2>4
<1>3. g = e
  <2>1. g = IF J # {} THEN Max(J) ELSE 0
    BY DEF SelectLastInSeq
  <2>2. e \in J /\ J \subseteq Nat
    BY <1>1
  <2>3. \A i \in J : e >= i
    BY <1>1
  <2> HIDE DEF J, e
  <2>4. Max(J) \in J /\ \A i \in J : Max(J) >= i
    BY <2>2, <2>3 DEF Max
  <2>5. Max(J) = e
    <3>1. Max(J) <= e /\ e <= Max(J) /\ Max(J) \in Nat /\ e \in Nat
      BY <1>1, <2>2, <2>3, <2>4
    <3>2. QED
      BY <3>1
  <2>6. QED
    BY <2>1, <2>2, <2>5
<1>4. Between(u) = SubSeq(u, f + 1, g - 1)
  BY DEF Between
<1> HIDE DEF f, g
<1>5. f + 1 \in Int /\ g - 1 \in Int
  BY <1>1, <1>2, <1>3
<1>6. \A i \in (f + 1)..(g - 1) : u[i] \in Tokens
  <2>1. \A i \in (f + 1)..(g - 1) : i \in 1..Len(u)
    BY <1>1, <1>2, <1>3
  <2>2. QED
    BY <1>1, <2>1, ElementOfSeq DEF Text
<1>7. SubSeq(u, f + 1, g - 1) \in Seq(Tokens)
  BY <1>5, <1>6, SubSeqProperties
<1>8. QED
  BY <1>4, <1>7 DEF u, Text

(* The parameters of a kernel come in parentheses after the rest of it.    *)
Opens(t) == \E i \in 1..Len(t) : t[i] = "("

LEMMA OpensConcat ==
  ASSUME NEW s \in Text, NEW t \in Text, ~Opens(s), ~Opens(t)
  PROVE  s \o t \in Text /\ ~Opens(s \o t)
<1>1. s \o t \in Text
  BY Concat
<1>2. ASSUME NEW i \in 1..Len(s \o t) PROVE (s \o t)[i] # "("
  <2>1. Len(s) \in Nat /\ Len(t) \in Nat /\ i \in 1..(Len(s) + Len(t))
    BY Concat
  <2>2. CASE i \in 1..Len(s)
    BY <2>2, Concat DEF Opens
  <2>3. CASE i \notin 1..Len(s)
    <3>1. i - Len(s) \in 1..Len(t) /\ i = Len(s) + (i - Len(s))
      BY <2>1, <2>3
    <3>2. (s \o t)[Len(s) + (i - Len(s))] = t[i - Len(s)]
      BY <3>1, Concat
    <3>3. QED
      BY <3>1, <3>2 DEF Opens
  <2>4. QED
    BY <2>2, <2>3
<1>3. QED
  BY <1>1, <1>2 DEF Opens

LEMMA Parts ==
  ASSUME NEW k \in Signatures
  PROVE  /\ k.scope \in Text
         /\ k.targs = <<>> \/ \E a \in Arguments : k.targs = <<a>> /\ a \in Text
         /\ k.params \in Seq(Text) /\ \A n \in 1..Len(k.params) : IsType(k.params[n])
<1>1. Scopes \subseteq Text /\ Arguments \subseteq Text /\ Types \subseteq Text
  BY ParamsAssumption DEF Text
<1>2. k.scope \in Scopes /\ k.targs \in {<<>>} \cup {<<a>> : a \in Arguments}
  BY DEF Signatures
<1>3. PICK n \in 0..MaxParams : k.params \in [1..n -> Types]
  BY DEF Signatures
<1>4. n \in Nat
  BY <1>3, ParamsAssumption
<1>5. k.params \in Seq(Types)
  BY <1>3, <1>4, SeqDef
<1>6. \A i \in 1..Len(k.params) : k.params[i] \in Types
  BY <1>5, ElementOfSeq
<1>7. k.params \in Seq(Text)
  <2>1. k.params \in [1..n -> Text]
    BY <1>1, <1>3
  <2>2. QED
    BY <1>4, <2>1, SeqDef
<1>8. \A i \in 1..Len(k.params) : IsType(k.params[i])
  BY <1>6, ParamsAssumption
<1>9. QED
  BY <1>1, <1>2, <1>7, <1>8

LEMMA JoinedOne ==
  ASSUME NEW items \in Seq(Text), Len(items) = 1
  PROVE  Joined(items)[1] = items[1]
<1>1. Len(items) >= 1 => Joined(items)[1] = items[1]
  BY JoinedIs
<1>2. Len(items) >= 1
  OBVIOUS
<1>3. QED
  BY <1>1, <1>2

(* What comes before the parentheses.                                      *)
Prefix(k) ==
  (IF k.targs = <<>> THEN <<>> ELSE <<"void">>) \o k.scope \o <<"name">>
  \o (IF k.targs = <<>> THEN <<>> ELSE <<"<">> \o Commas(k.targs) \o <<">">>)

LEMMA Tagged ==
  /\ <<>> \in Text /\ ~Opens(<<>>) /\ <<"void">> \in Text /\ ~Opens(<<"void">>)
  /\ <<"name">> \in Text /\ ~Opens(<<"name">>) /\ <<"<">> \in Text /\ ~Opens(<<"<">>)
  /\ <<">">> \in Text /\ ~Opens(<<">">>) /\ <<"(">> \in Text /\ <<")">> \in Text
<1>1. ASSUME NEW w \in Tokens PROVE <<w>> \in Text /\ (w # "(" => ~Opens(<<w>>))
  <2> DEFINE t == <<w>>
  <2>1. t \in Text /\ Len(t) = 1 /\ t[1] = w
    BY OneToken
  <2> HIDE DEF t
  <2>2. \A i \in 1..Len(t) : i = 1
    BY <2>1
  <2>3. w # "(" => ~Opens(t)
    BY <2>1, <2>2 DEF Opens
  <2>4. QED
    BY <2>1, <2>3 DEF t
<1>2. <<>> \in Text /\ ~Opens(<<>>)
  BY EmptySeq DEF Text, Opens
<1>3. /\ "void" \in Tokens /\ "name" \in Tokens /\ "<" \in Tokens /\ ">" \in Tokens
      /\ "(" \in Tokens /\ ")" \in Tokens
  BY DEF Tokens
<1>4. "void" # "(" /\ "name" # "(" /\ "<" # "(" /\ ">" # "("
  OBVIOUS
<1>5. QED
  BY <1>1, <1>2, <1>3, <1>4

LEMMA PrefixIs ==
  ASSUME NEW k \in Signatures
  PROVE  Prefix(k) \in Text /\ (Plain(k) => ~Opens(Prefix(k)))
<1>1. k.scope \in Text
  BY Parts
<1> DEFINE x == IF k.targs = <<>> THEN <<>> ELSE <<"void">>
<1> DEFINE y == IF k.targs = <<>> THEN <<>> ELSE <<"<">> \o Commas(k.targs) \o <<">">>
<1> DEFINE p == x \o k.scope
<1> DEFINE q == p \o <<"name">>
<1>2. x \in Text /\ ~Opens(x)
  BY Tagged
<1>3. Plain(k) => ~Opens(k.scope)
  BY DEF Plain, Opens, Contains
<1>4. y \in Text /\ (Plain(k) => ~Opens(y))
  <2>1. CASE k.targs = <<>>
    BY <2>1, Tagged
  <2>2. CASE k.targs # <<>>
    <3>1. PICK a \in Arguments : k.targs = <<a>> /\ a \in Text
      BY <2>2, Parts
    <3>2. Len(k.targs) = 1 /\ k.targs[1] = a /\ k.targs \in Seq(Text)
      BY <3>1
    <3>3. Commas(k.targs) = a
      <4> DEFINE ts == k.targs
      <4> HIDE DEF ts
      <4>1. ts \in Seq(Text) /\ Len(ts) = 1 /\ ts[1] = a
        BY <3>2 DEF ts
      <4>2. Joined(ts)[1] = ts[1]
        BY <4>1, JoinedOne
      <4>3. QED
        BY <4>1, <4>2 DEF Commas, ts
    <3>4. Plain(k) => ~Opens(a)
      <4>1. 1 \in 1..Len(k.targs)
        BY <3>2
      <4>2. QED
        BY <3>2, <4>1 DEF Plain, Opens, Contains
    <3> DEFINE z == <<"<">> \o a
    <3>5. z \in Text /\ (Plain(k) => ~Opens(z))
      BY <3>1, <3>4, Tagged, Concat, OpensConcat
    <3> HIDE DEF z
    <3>6. z \o <<">">> \in Text /\ (Plain(k) => ~Opens(z \o <<">">>))
      BY <3>5, Tagged, Concat, OpensConcat
    <3>7. y = z \o <<">">>
      BY <2>2, <3>3 DEF z
    <3>8. QED
      BY <3>6, <3>7
  <2>3. QED
    BY <2>1, <2>2
<1> HIDE DEF x, y
<1>5. p \in Text /\ (Plain(k) => ~Opens(p))
  BY <1>1, <1>2, <1>3, Concat, OpensConcat
<1> HIDE DEF p
<1>6. q \in Text /\ (Plain(k) => ~Opens(q))
  BY <1>5, Tagged, Concat, OpensConcat
<1> HIDE DEF q
<1>7. q \o y \in Text /\ (Plain(k) => ~Opens(q \o y))
  BY <1>4, <1>6, Concat, OpensConcat
<1>8. Prefix(k) = q \o y
  BY DEF Prefix, q, p, x, y
<1>9. QED
  BY <1>7, <1>8

LEMMA ParamsText ==
  ASSUME NEW k \in Signatures
  PROVE  /\ Commas(k.params) \in Text
         /\ Demangled(k) = ((Prefix(k) \o <<"(">>) \o Commas(k.params)) \o <<")">>
<1>1. Commas(k.params) \in Text
  <2>1. k.params \in Seq(Text) /\ Len(k.params) \in Nat
    BY Parts, LenProperties
  <2>2. Len(k.params) \in 0..Len(k.params)
    BY <2>1
  <2>3. QED
    BY <2>1, <2>2, JoinedIs DEF Commas
<1>2. QED
  BY <1>1 DEF Demangled, Prefix

LEMMA CountType ==
  ASSUME NEW k \in Signatures
  PROVE  CountParams(k) \in Nat
<1> DEFINE t == Between(Demangled(k))
<1>1. t \in Text
  <2>1. (Prefix(k) \o <<"(">>) \o Commas(k.params) \in Text
    BY PrefixIs, ParamsText, Tagged, Concat
  <2>2. QED
    BY <2>1, ParamsText, BetweenText
<1> HIDE DEF t
<1>2. Len(t) \in Nat
  BY <1>1, LenProperties DEF Text
<1>3. OuterCommas(t) \in SUBSET (1..Len(t))
  BY DEF OuterCommas
<1>4. IsFiniteSet(1..Len(t))
  BY <1>2, FS_Interval
<1>5. Cardinality(OuterCommas(t)) \in Nat
  BY <1>3, <1>4, FS_Subset, FS_CardinalityType
<1>6. Counted(t) \in Nat
  BY <1>5 DEF Counted
<1>7. QED
  BY <1>6 DEF CountParams, t

(* The scan counts the parameters, however their types nest.               *)
LEMMA PlainCount ==
  ASSUME NEW k \in Signatures, Plain(k)
  PROVE  CountParams(k) = Len(k.params)
<1> DEFINE t == Commas(k.params)
<1> DEFINE n == Len(k.params)
<1>1. Between(Demangled(k)) = t
  <2>1. Prefix(k) \in Text /\ \A i \in 1..Len(Prefix(k)) : Prefix(k)[i] # "("
    BY PrefixIs DEF Opens
  <2>2. QED
    BY <2>1, ParamsText, BetweenIs
<1>2. k.params \in Seq(Text) /\ n \in Nat
  BY Parts, LenProperties
<1>3. CASE n = 0
  <2>1. t = <<>>
    BY <1>2, <1>3, JoinedIs DEF Commas
  <2>2. QED
    BY <1>1, <1>3, <2>1 DEF CountParams
<1>4. CASE n # 0
  <2>1. Listed(t, n)
    BY <1>2, <1>4, Parts, CommasListed
  <2>2. t # <<>>
    <3>1. Len(t) >= 1
      BY <2>1 DEF Listed
    <3>2. Len(<<>>) = 0
      OBVIOUS
    <3> HIDE DEF t
    <3>3. QED
      BY <3>1, <3>2
  <2>3. Counted(t) = n
    <3>1. Cardinality(OuterCommas(t)) = n - 1
      BY <2>1 DEF Listed
    <3>2. 1 + (n - 1) = n
      BY <1>2
    <3>3. QED
      BY <3>1, <3>2 DEF Counted
  <2>4. ~(Counted(t) = 1 /\ t[1] \in Voids)
    <3>1. SUFFICES ASSUME n = 1 PROVE t[1] \notin Voids
      BY <2>3
    <3>2. t = k.params[1]
      BY <1>2, <3>1, JoinedOne DEF Commas
    <3>3. QED
      BY <3>1, <3>2 DEF Plain
  <2>5. k.mangled
    BY DEF Plain
  <2> HIDE DEF t
  <2>6. QED
    BY <1>1, <2>2, <2>3, <2>4, <2>5 DEF CountParams
<1>5. QED
  BY <1>3, <1>4

------------------------------------------------------------------------------
(* What comes behind the structures.                                       *)

Names == {"register_fatbin", "register_function"}

LEMMA DescSize == SizeOf(AccessDesc) \in Nat
<1>1. Words(3) \in Lines
  BY DEF Words, Lines
<1>2. AccessDesc \in Small
  BY <1>1, Tuples DEF AccessDesc
<1>3. SizeOf(AccessDesc) \in 1..433
  BY <1>2, SmallSize
<1>4. QED
  BY <1>3

(* Caller, driver and handler count the same data behind a request.        *)
LEMMA Behind ==
  ASSUME NEW c, NEW n \in Nat
  PROVE  /\ Appended(c, n) \in Nat
         /\ Trails(c, Field(c, n)) = Appended(c, n)
         /\ ReadsBehind(c, Field(c, n)) = Appended(c, n)
         /\ c \notin Names \cup {"launch_kernel", "cu_mem_set_access"} => Appended(c, n) = 0
<1>1. CASE c = "launch_kernel"
  <2>1. Field(c, n) = 8 * n
    BY <1>1 DEF Field
  <2>2. /\ Appended(c, n) = Field(c, n)
        /\ Trails(c, Field(c, n)) = Field(c, n)
        /\ ReadsBehind(c, Field(c, n)) = (Field(c, n) \div 8) * 8
    BY <1>1, Zenon DEF Appended, Trails, ReadsBehind
  <2>3. 8 * n \in Nat /\ ((8 * n) \div 8) * 8 = 8 * n
    OBVIOUS
  <2>4. QED
    BY <1>1, <2>1, <2>2, <2>3
<1>2. CASE c \in Names
  <2>1. c # "launch_kernel"
    BY <1>2 DEF Names
  <2>2. Field(c, n) = n
    BY <2>1 DEF Field
  <2>3. CASE c = "register_fatbin"
    <3>1. /\ Appended(c, n) = Field(c, n)
          /\ Trails(c, Field(c, n)) = Field(c, n)
          /\ ReadsBehind(c, Field(c, n)) = Field(c, n)
      BY <2>3, Zenon DEF Appended, Trails, ReadsBehind
    <3>2. QED
      BY <1>2, <2>2, <3>1
  <2>4. CASE c = "register_function"
    <3>1. /\ Appended(c, n) = Field(c, n)
          /\ Trails(c, Field(c, n)) = Field(c, n)
          /\ ReadsBehind(c, Field(c, n)) = Field(c, n)
      BY <2>4, Zenon DEF Appended, Trails, ReadsBehind
    <3>2. QED
      BY <1>2, <2>2, <3>1
  <2>5. QED
    BY <1>2, <2>3, <2>4 DEF Names
<1>3. CASE c = "cu_mem_set_access"
  <2>1. Field(c, n) = n
    BY <1>3 DEF Field
  <2>2. /\ Appended(c, n) = n * SizeOf(AccessDesc)
        /\ Trails(c, Field(c, n)) = Field(c, n) * SizeOf(AccessDesc)
        /\ ReadsBehind(c, Field(c, n)) = Field(c, n) * SizeOf(AccessDesc)
    BY <1>3, Zenon DEF Appended, Trails, ReadsBehind
  <2>3. n * SizeOf(AccessDesc) \in Nat
    BY DescSize
  <2>4. QED
    BY <1>3, <2>1, <2>2, <2>3
<1>4. CASE c \notin Names \cup {"launch_kernel", "cu_mem_set_access"}
  <2>1. /\ c # "launch_kernel" /\ c # "cu_mem_set_access"
        /\ c # "register_fatbin" /\ c # "register_function"
    BY <1>4 DEF Names
  <2>2. /\ Appended(c, n) = 0
        /\ Trails(c, Field(c, n)) = 0
        /\ ReadsBehind(c, Field(c, n)) = 0
    BY <2>1, Zenon DEF Appended, Trails, ReadsBehind
  <2>3. QED
    BY <2>2
<1>5. QED
  BY <1>1, <1>2, <1>3, <1>4

LEMMA Ahead ==
  ASSUME NEW c, NEW n \in Nat
  PROVE  /\ Expected(c, n) \in Nat
         /\ c \in ErrorTexts => Expected(c, n) = 256
         /\ c = "cu_device_get_name" => Expected(c, n) = n
<1>1. c \in ErrorTexts => Expected(c, n) = 256
  <2>1. ASSUME c \in ErrorTexts PROVE Expected(c, n) = 256
    <3>1. c # "cu_device_get_name"
      BY <2>1 DEF ErrorTexts, RuntimeTexts, DriverTexts
    <3>2. Expected(c, n) = MaxText
      BY <2>1, <3>1, Zenon DEF Expected
    <3>3. QED
      BY <3>2 DEF MaxText
  <2>2. QED
    BY <2>1
<1>2. c = "cu_device_get_name" => c \notin ErrorTexts
  BY DEF ErrorTexts, RuntimeTexts, DriverTexts
<1>3. c = "cu_device_get_name" => Expected(c, n) = n
  BY <1>2, Zenon DEF Expected
<1>4. (c \notin ErrorTexts /\ c # "cu_device_get_name") => Expected(c, n) = 0
  BY Zenon DEF Expected
<1>5. Expected(c, n) \in Nat
  <2>1. 256 \in Nat /\ 0 \in Nat
    OBVIOUS
  <2>2. QED
    BY <1>1, <1>3, <1>4, <2>1
<1>6. QED
  BY <1>1, <1>3, <1>5

(* A structure goes before data.                                           *)
LEMMA LeadingStructure ==
  ASSUME NEW c \in DOMAIN Library, Library[c].req = 0, NEW n \in Nat
  PROVE  Appended(c, n) = 0
<1>1. SUFFICES ASSUME c \in Names \cup {"launch_kernel", "cu_mem_set_access"} PROVE FALSE
  BY Behind
<1>2. Sizes[c] = Library[c]
  BY ListsAgree
<1>3. CASE c \in Names \cup {"launch_kernel"}
  <2>1. c \in DOMAIN SizesRuntime /\ SizesRuntime[c].req = SizeOf(Request[Like(c)])
    BY <1>3 DEF SizesRuntime, List, Names
  <2>2. Like(c) = c
    BY <1>3, Zenon DEF Like, Names
  <2>3. c \in DOMAIN Request
    <3>1. c \in DOMAIN RuntimeRequest
      BY <1>3 DEF RuntimeRequest, Names
    <3>2. QED
      BY <3>1, Known
  <2>4. SizeOf(Request[c]) \in 1..433
    BY <2>3, RequestSizes
  <2>5. Library[c].req = SizeOf(Request[c])
    BY <1>2, <2>1, <2>2, SizesFrom
  <2>6. QED
    BY <2>4, <2>5
<1>4. CASE c = "cu_mem_set_access"
  <2>1. c \in DOMAIN SizesVirtual /\ SizesVirtual[c].req = SizeOf(Request[Like(c)])
    BY <1>4 DEF SizesVirtual, List
  <2>2. Like(c) = c
    BY <1>4, Zenon DEF Like
  <2>3. c \in DOMAIN Request
    <3>1. c \in DOMAIN VirtualRequest
      BY <1>4 DEF VirtualRequest
    <3>2. QED
      BY <3>1, Known
  <2>4. SizeOf(Request[c]) \in 1..433
    BY <2>3, RequestSizes
  <2>5. Library[c].req = SizeOf(Request[c])
    BY <1>2, <2>1, <2>2, SizesFrom
  <2>6. QED
    BY <2>4, <2>5
<1>5. QED
  BY <1>1, <1>3, <1>4

------------------------------------------------------------------------------
(* The calls.                                                              *)

LEMMA PassedIs ==
  ASSUME NEW c, NEW x \in Passed(c)
  PROVE  /\ x.count \in Nat
         /\ c = "launch_kernel" => x.kernel \in Signatures /\ x.count = CountParams(x.kernel)
<1>1. CASE c = "launch_kernel"
  <2>1. Passed(c) = {[count |-> CountParams(k), kernel |-> k] : k \in Signatures}
    BY <1>1, Zenon DEF Passed
  <2>2. PICK k \in Signatures : x = [count |-> CountParams(k), kernel |-> k]
    BY <2>1
  <2>3. QED
    BY <2>2, CountType
<1>2. CASE c \in {"register_fatbin", "register_function", "cu_mem_set_access", "cu_device_get_name"}
  <2>1. c # "launch_kernel"
    BY <1>2
  <2>2. Passed(c) = [count : Counts, kernel : {NoKernel}]
    BY <1>2, <2>1, Zenon DEF Passed
  <2>3. x.count \in Counts
    BY <2>2
  <2>4. QED
    BY <2>1, <2>3, SizesAssumption
<1>3. CASE c \notin {"launch_kernel", "register_fatbin", "register_function", "cu_mem_set_access",
                     "cu_device_get_name"}
  <2>1. c # "launch_kernel"
        /\ c \notin {"register_fatbin", "register_function", "cu_mem_set_access",
                     "cu_device_get_name"}
    BY <1>3
  <2>2. Passed(c) = [count : {0}, kernel : {NoKernel}]
    BY <2>1, Zenon DEF Passed
  <2>3. QED
    BY <2>1, <2>2
<1>4. QED
  BY <1>1, <1>2, <1>3

LEMMA FirstPass ==
  ASSUME NEW c \in DOMAIN Library
  PROVE  Pass1Sizes(c) = [req |-> Library[c].req,
                          resp |-> Library[c].resp + IF c \in RuntimeTexts THEN 256 ELSE 0]
<1>1. Sizes[c] = [req |-> Library[c].req, resp |-> Library[c].resp]
  BY ListsAgree DEF Row
<1>2. QED
  BY <1>1 DEF Pass1Sizes, MaxText

LEMMA MadeTypes ==
  ASSUME Made
  PROVE  /\ call.cmd \in DOMAIN Library /\ call.count \in Nat
         /\ Library[call.cmd].req \in Nat /\ Library[call.cmd].resp \in Nat
         /\ Library[call.cmd].resp <= 2000
         /\ Appended(call.cmd, call.count) \in Nat
         /\ buffer.filled = Library[call.cmd].req + Appended(call.cmd, call.count)
         /\ buffer.filled \in Nat /\ buffer.room \in Nat /\ buffer.filled <= buffer.room
         /\ Expected(call.cmd, call.count) \in Nat
         /\ Library[call.cmd].resp + Expected(call.cmd, call.count) <= buffer.room
<1> DEFINE a == Appended(call.cmd, call.count)
<1> DEFINE e == Expected(call.cmd, call.count)
<1> DEFINE q == Library[call.cmd].req
<1> DEFINE r == Library[call.cmd].resp
<1>1. /\ call.cmd \in DOMAIN Library /\ buffer.filled = q + a
      /\ buffer.room = Max({buffer.filled, r + e})
  BY DEF Made
<1>2. call.count \in Nat
  BY PassedIs DEF Made
<1>3. q \in Nat /\ r \in 0..2000
  <2>1. Row(Library[call.cmd])
    BY <1>1, ListsAgree
  <2>2. QED
    BY <2>1 DEF Row
<1>4. a \in Nat /\ e \in Nat
  BY <1>2, Behind, Ahead
<1> HIDE DEF a, e, q, r
<1>8. r \in Nat /\ r <= 2000
  BY <1>3
<1>5. buffer.filled \in Nat /\ r + e \in Nat
  <2>1. q + a \in Nat /\ r + e \in Nat
    BY <1>3, <1>4, <1>8
  <2>2. QED
    BY <1>1, <2>1
<1>6. buffer.room = IF buffer.filled >= r + e THEN buffer.filled ELSE r + e
  BY <1>1, <1>5, Most
<1>7. buffer.room \in Nat /\ buffer.filled <= buffer.room /\ r + e <= buffer.room
  BY <1>5, <1>6
<1>9. /\ call.cmd \in DOMAIN Library /\ call.count \in Nat
      /\ q \in Nat /\ r \in Nat /\ r <= 2000 /\ a \in Nat
      /\ buffer.filled = q + a
      /\ buffer.filled \in Nat /\ buffer.room \in Nat /\ buffer.filled <= buffer.room
      /\ e \in Nat /\ r + e <= buffer.room
  BY <1>1, <1>2, <1>3, <1>4, <1>5, <1>7, <1>8
<1>10. QED
  BY <1>9 DEF a, e, q, r

LEMMA SizesInit == Init => SizesInv
BY DEF Init, SizesInv, Untouched, Unsized, Heard

LEMMA DispatchStep ==
  ASSUME NEW c \in DOMAIN Library, NEW x \in Passed(c), Dispatch(c, x.count, x.kernel)
  PROVE  SizesInv'
<1>1. /\ call' = [cmd |-> c, count |-> x.count, kernel |-> x.kernel]
      /\ buffer' = [filled |-> Library[c].req + Appended(c, x.count),
                    room |-> Max({Library[c].req + Appended(c, x.count),
                                  Library[c].resp + Expected(c, x.count)})]
      /\ pc' = "ioctl" /\ result' = "none" /\ sizes' = [req |-> 0, resp |-> 0]
      /\ text' = 0 /\ answer' = 0 /\ host' = [heard |-> 0, reads |-> 0, returned |-> 0]
  BY DEF Dispatch
<1>2. call'.cmd = c /\ call'.count = x.count /\ call'.kernel = x.kernel
  BY <1>1
<1>3. /\ buffer'.filled = Library[c].req + Appended(c, x.count)
      /\ buffer'.room = Max({buffer'.filled, Library[c].resp + Expected(c, x.count)})
  BY <1>1
<1>4. Made'
  BY <1>2, <1>3 DEF Made
<1>5. Unsized' /\ Heard(0)'
  BY <1>1 DEF Unsized, Heard
<1>6. QED
  BY <1>1, <1>4, <1>5 DEF SizesInv, Underway

(* Who is at which step of a call.                                         *)
LEMMA Steps ==
  ASSUME SizesInv
  PROVE  /\ pc = "ioctl" => Made /\ result = "none" /\ Unsized /\ Heard(0)
         /\ pc = "sized" => Made /\ result = "none" /\ Once /\ Heard(0)
         /\ pc = "resized" => Made /\ result = "none" /\ Twice /\ Heard(0)
         /\ pc = "sent" => Made /\ result = "none" /\ Twice /\ Heard(buffer.filled)
         /\ pc = "served" => Made /\ result = "none" /\ Twice /\ Served
BY DEF SizesInv, Untouched, Underway, Over

LEMMA Pass1Step ==
  ASSUME SizesInv, Pass1
  PROVE  SizesInv'
<1>1. Made /\ result = "none" /\ Heard(0)
  BY Steps DEF Pass1
<1>2. call.cmd \in DOMAIN Sizes
  BY <1>1, ListsAgree DEF Made
<1>3. /\ sizes' = Pass1Sizes(call.cmd) /\ pc' = "sized"
      /\ UNCHANGED <<call, buffer, host, text, answer, result>>
  BY <1>2 DEF Pass1
<1>4. Made' /\ Once' /\ Heard(0)' /\ result' = "none"
  BY <1>1, <1>3 DEF Made, Once, Heard
<1>5. QED
  BY <1>3, <1>4 DEF SizesInv, Underway

LEMMA Pass2Step ==
  ASSUME SizesInv, Pass2
  PROVE  SizesInv'
<1>1. Made /\ result = "none" /\ Heard(0) /\ Once
  BY Steps DEF Pass2
<1>2. /\ sizes' = IF sizes.req = 0 THEN sizes
                  ELSE [sizes EXCEPT !.req = @ + Trails(call.cmd, Field(call.cmd, call.count))]
      /\ pc' = "resized" /\ UNCHANGED <<call, buffer, host, text, answer, result>>
  BY DEF Pass2
<1> DEFINE r == Pass1Sizes(call.cmd).resp
<1>3. sizes = [req |-> Library[call.cmd].req, resp |-> r]
  BY <1>1, FirstPass, MadeTypes DEF Once
<1>4. /\ Trails(call.cmd, Field(call.cmd, call.count)) = Appended(call.cmd, call.count)
      /\ buffer.filled = Library[call.cmd].req + Appended(call.cmd, call.count)
      /\ buffer.filled \in Nat
  BY <1>1, MadeTypes, Behind
<1>5. sizes' = [req |-> buffer.filled, resp |-> r]
  <2>1. CASE Library[call.cmd].req = 0
    <3>1. Appended(call.cmd, call.count) = 0
      BY <1>1, <2>1, MadeTypes, LeadingStructure
    <3>2. buffer.filled = 0
      BY <1>4, <2>1, <3>1
    <3> HIDE DEF r
    <3>3. QED
      BY <1>2, <1>3, <2>1, <3>2
  <2>2. CASE Library[call.cmd].req # 0
    <3> HIDE DEF r
    <3>1. sizes' = [sizes EXCEPT !.req = sizes.req + Appended(call.cmd, call.count)]
      BY <1>2, <1>3, <1>4, <2>2
    <3>2. QED
      BY <1>3, <1>4, <3>1
  <2>3. QED
    BY <2>1, <2>2
<1>6. Made' /\ Twice' /\ Heard(0)' /\ result' = "none"
  BY <1>1, <1>2, <1>5 DEF Made, Twice, Heard
<1>7. QED
  BY <1>2, <1>6 DEF SizesInv, Underway

LEMMA RefuseStep ==
  ASSUME SizesInv, Refuse
  PROVE  SizesInv'
<1>1. Made /\ Heard(0) /\ (Once \/ Twice)
  BY Steps DEF Refuse
<1>2. /\ pc' = "idle" /\ result' = "errno"
      /\ UNCHANGED <<call, buffer, sizes, host, text, answer>>
  BY DEF Refuse, Return
<1>3. Made' /\ Heard(0)' /\ (Once' \/ Twice')
  BY <1>1, <1>2 DEF Made, Heard, Once, Twice
<1>4. QED
  BY <1>2, <1>3 DEF SizesInv, Over

LEMMA BuildStep ==
  ASSUME SizesInv, Build
  PROVE  SizesInv'
<1>1. Made /\ result = "none" /\ Twice /\ Heard(0)
  BY Steps DEF Build
<1>2. /\ pc' = "sent" /\ host' = [host EXCEPT !.heard = sizes.req]
      /\ UNCHANGED <<call, buffer, sizes, text, answer, result>>
  BY DEF Build
<1>3. sizes.req = buffer.filled
  BY <1>1 DEF Twice
<1>4. host' = [heard |-> buffer.filled, reads |-> 0, returned |-> 0] /\ text' = 0 /\ answer' = 0
  BY <1>1, <1>2, <1>3 DEF Heard
<1>5. Made' /\ Twice' /\ result' = "none"
  BY <1>1, <1>2 DEF Made, Twice
<1>6. Heard(buffer.filled)'
  BY <1>2, <1>4 DEF Heard
<1>7. QED
  BY <1>2, <1>5, <1>6 DEF SizesInv, Underway

LEMMA ServeStep ==
  ASSUME SizesInv, NEW len \in Texts, Serve(len)
  PROVE  SizesInv'
<1>1. Made /\ result = "none" /\ Twice /\ Heard(buffer.filled)
  BY Steps DEF Serve
<1>2. call.cmd \in DOMAIN Handlers
  BY <1>1, ListsAgree DEF Made
<1> DEFINE field == Field(call.cmd, call.count)
<1> DEFINE length == TextLength(call.cmd, field, len)
<1>3. /\ host' = [host EXCEPT
                    !.reads    = Handlers[call.cmd].req + ReadsBehind(call.cmd, field),
                    !.returned = Returned(call.cmd, length)]
      /\ text' = length /\ answer' = Cut(Returned(call.cmd, length), sizes.resp)
      /\ pc' = "served" /\ UNCHANGED <<call, buffer, sizes, result>>
  BY <1>2 DEF Serve
<1> HIDE DEF field, length
<1>4. host' = [heard |-> buffer.filled, returned |-> Returned(call.cmd, length),
               reads |-> Handlers[call.cmd].req + ReadsBehind(call.cmd, field)]
  BY <1>1, <1>3 DEF Heard
<1>5. host'.returned = Returned(call.cmd, length)
  BY <1>4
<1>6. Served'
  BY <1>3, <1>4, <1>5 DEF Served, field, length
<1>7. Made' /\ Twice' /\ result' = "none"
  BY <1>1, <1>3 DEF Made, Twice
<1>8. QED
  BY <1>3, <1>6, <1>7 DEF SizesInv, Underway

LEMMA FinishStep ==
  ASSUME SizesInv, Finish
  PROVE  SizesInv'
<1>1. Made /\ Twice /\ Served
  BY Steps DEF Finish
<1>2. /\ pc' = "idle" /\ result' \in {"CUDA error", "ok"}
      /\ UNCHANGED <<call, buffer, sizes, host, text, answer>>
  BY DEF Finish, Return
<1>3. Made' /\ Twice' /\ Served'
  BY <1>1, <1>2 DEF Made, Twice, Served
<1>4. QED
  BY <1>2, <1>3 DEF SizesInv, Over

LEMMA SizesNext == SizesInv /\ [Next]_vars => SizesInv'
<1> SUFFICES ASSUME SizesInv, [Next]_vars PROVE SizesInv'
  OBVIOUS
<1>1. CASE UNCHANGED vars
  <2>1. UNCHANGED <<pc, call, buffer, sizes, host, text, answer, result>>
    BY <1>1 DEF vars
  <2>2. (Made' <=> Made) /\ (Unsized' <=> Unsized) /\ (Once' <=> Once) /\ (Twice' <=> Twice)
    BY <2>1 DEF Made, Unsized, Once, Twice
  <2>3. (Heard(0)' <=> Heard(0)) /\ (Heard(buffer.filled)' <=> Heard(buffer.filled))
    BY <2>1 DEF Heard
  <2>4. Served' <=> Served
    BY <2>1 DEF Served
  <2>5. Untouched' <=> Untouched
    BY <2>1, <2>2, <2>3 DEF Untouched
  <2>6. (Underway' <=> Underway) /\ (Over' <=> Over)
    BY <2>1, <2>2, <2>3, <2>4 DEF Underway, Over
  <2>7. QED
    BY <2>5, <2>6 DEF SizesInv
<1>2. CASE Next
  BY <1>2, DispatchStep, Pass1Step, Pass2Step, RefuseStep, BuildStep, ServeStep, FinishStep DEF Next
<1>3. QED
  BY <1>1, <1>2

(* At each step of a call, the four programs know the lengths that the     *)
(* invariant says.                                                         *)
THEOREM SizesInvariance == Spec => []SizesInv
BY SizesInit, SizesNext, PTL DEF Spec

LEMMA RoomEnough ==
  ASSUME Made
  PROVE  /\ Pass1Sizes(call.cmd).req <= buffer.filled
         /\ Pass1Sizes(call.cmd).resp <= buffer.room
<1> DEFINE c == call.cmd
<1> DEFINE e == Expected(c, call.count)
<1> DEFINE a == Appended(c, call.count)
<1> DEFINE q == Library[c].req
<1> DEFINE r == Library[c].resp
<1> DEFINE extra == IF c \in RuntimeTexts THEN 256 ELSE 0
<1>1. Pass1Sizes(c).req = q /\ Pass1Sizes(c).resp = r + extra
  BY MadeTypes, FirstPass
<1>2. /\ q \in Nat /\ r \in Nat /\ a \in Nat /\ e \in Nat /\ buffer.filled = q + a
      /\ buffer.room \in Nat /\ r + e <= buffer.room
  BY MadeTypes
<1>3. c \in RuntimeTexts => e = 256
  BY MadeTypes, Ahead DEF ErrorTexts
<1> HIDE DEF e, a, q, r
<1>4. extra \in Nat /\ extra <= e
  BY <1>2, <1>3
<1> HIDE DEF c, extra
<1>5. q <= buffer.filled /\ r + extra <= buffer.room
  BY <1>2, <1>4
<1>6. QED
  BY <1>1, <1>5 DEF c

(* In either pass the driver asks for no byte that the caller's buffer has *)
(* not, whatever is passed to whichever call.                              *)
THEOREM DriverIsInside == Spec => []DriverStaysInside
<1>1. ASSUME Made, Once PROVE DriverStaysInside
  BY <1>1, RoomEnough DEF Once, DriverStaysInside
<1>2. ASSUME Made, Twice PROVE DriverStaysInside
  <2>1. sizes.req = buffer.filled /\ sizes.resp = Pass1Sizes(call.cmd).resp
    BY <1>2 DEF Twice
  <2>2. buffer.filled \in Nat
    BY <1>2, MadeTypes
  <2>3. QED
    BY <1>2, <2>1, <2>2, RoomEnough DEF DriverStaysInside
<1>3. ASSUME Made, Unsized PROVE DriverStaysInside
  <2>1. buffer.filled \in Nat /\ buffer.room \in Nat
    BY <1>3, MadeTypes
  <2>2. QED
    BY <1>3, <2>1 DEF Unsized, DriverStaysInside
<1>4. Untouched => DriverStaysInside
  BY DEF Untouched, Unsized, DriverStaysInside
<1>5. SizesInv => DriverStaysInside
  BY <1>1, <1>2, <1>3, <1>4 DEF SizesInv, Underway, Over
<1>6. QED
  BY <1>5, SizesInvariance, PTL

(* No handler reads behind the end of its request.                         *)
THEOREM HandlerIsInside == Spec => []HandlerStaysInside
<1>1. ASSUME NEW n, Heard(n), n \in Nat PROVE HandlerStaysInside
  <2>1. host.reads = 0 /\ host.heard = n
    BY <1>1 DEF Heard
  <2>2. QED
    BY <1>1, <2>1 DEF HandlerStaysInside
<1>2. ASSUME Made, Served PROVE HandlerStaysInside
  <2> DEFINE a == Appended(call.cmd, call.count)
  <2> DEFINE h == Handlers[call.cmd].req
  <2> DEFINE q == Library[call.cmd].req
  <2>1. /\ call.cmd \in DOMAIN Library /\ call.count \in Nat /\ q \in Nat /\ a \in Nat
        /\ buffer.filled = q + a
    BY <1>2, MadeTypes
  <2>2. ReadsBehind(call.cmd, Field(call.cmd, call.count)) = a
    BY <2>1, Behind
  <2>3. h = IF call.cmd = "device_synchronize" THEN 0 ELSE q
    BY <2>1, ListsAgree
  <2>4. host.heard = q + a /\ host.reads = h + a
    BY <1>2, <2>1, <2>2 DEF Served
  <2> HIDE DEF a, h, q
  <2>5. h \in Nat /\ h <= q
    BY <2>1, <2>3
  <2>6. QED
    BY <2>1, <2>4, <2>5 DEF HandlerStaysInside
<1>3. SizesInv => HandlerStaysInside
  <2>1. Made => buffer.filled \in Nat
    BY MadeTypes
  <2>2. Heard(0) => HandlerStaysInside
    BY <1>1
  <2>3. QED
    BY <1>1, <1>2, <2>1, <2>2 DEF SizesInv, Untouched, Underway, Over
<1>4. QED
  BY <1>3, SizesInvariance, PTL

(* Whatever a library asks, driver and daemon have it in their lists.      *)
THEOREM CommandsKnown == Spec => []NoCommandUnknown
<1>1. SizesInv => NoCommandUnknown
  BY DEF SizesInv, Untouched, Underway, Over, NoCommandUnknown
<1>2. QED
  BY <1>1, SizesInvariance, PTL

(* An ordinary kernel is launched with as many arguments as it has         *)
(* parameters: the commas outside brackets are those between the types.    *)
THEOREM PlainKernels == Spec => []PlainKernelsGetArguments
<1>1. ASSUME Made, Served, call.cmd = "launch_kernel", Plain(call.kernel)
      PROVE  Given = Len(call.kernel.params)
  <2> DEFINE n == call.count
  <2> DEFINE q == Library[call.cmd].req
  <2>1. PICK x \in Passed(call.cmd) : call.count = x.count /\ call.kernel = x.kernel
    BY <1>1 DEF Made
  <2>2. call.kernel \in Signatures /\ n = CountParams(call.kernel) /\ n \in Nat
    BY <1>1, <2>1, PassedIs
  <2>3. n = Len(call.kernel.params)
    BY <1>1, <2>2, PlainCount
  <2>4. call.cmd \in DOMAIN Library /\ q \in Nat
    BY <1>1, MadeTypes
  <2>5. Handlers[call.cmd].req = q
    BY <1>1, <2>4, ListsAgree
  <2>6. ReadsBehind(call.cmd, Field(call.cmd, n)) = 8 * n
    <3>1. Field(call.cmd, n) = 8 * n
      BY <1>1 DEF Field
    <3>2. ReadsBehind(call.cmd, Field(call.cmd, n)) = (Field(call.cmd, n) \div 8) * 8
      BY <1>1, Zenon DEF ReadsBehind
    <3>3. ((8 * n) \div 8) * 8 = 8 * n
      BY <2>2
    <3>4. QED
      BY <3>1, <3>2, <3>3
  <2>7. host.reads = q + 8 * n
    BY <1>1, <2>5, <2>6 DEF Served
  <2> HIDE DEF n, q
  <2>8. (host.reads - q) \div 8 = n
    BY <2>2, <2>4, <2>7
  <2>9. QED
    BY <2>3, <2>8 DEF Given, q
<1>2. SizesInv => PlainKernelsGetArguments
  BY <1>1 DEF SizesInv, Untouched, Underway, Over, Launched, PlainKernelsGetArguments
<1>3. QED
  BY <1>2, SizesInvariance, PTL

------------------------------------------------------------------------------
(* Texts.                                                                  *)

AllTexts == RuntimeTexts \cup DriverTexts

LEMMA LengthIs ==
  ASSUME NEW c, NEW n \in Nat, NEW len \in Nat
  PROVE  /\ TextLength(c, Field(c, n), len) \in Nat
         /\ TextLength(c, Field(c, n), len) <= IF len >= 1 THEN len ELSE 1
<1> DEFINE field == Field(c, n)
<1> DEFINE max == IF len >= 1 THEN len ELSE 1
<1> DEFINE room == IF field > 0 THEN field ELSE 256
<1>1. field \in Nat
  <2>1. 8 * n \in Nat
    OBVIOUS
  <2>2. QED
    BY <2>1 DEF Field
<1>2. TextLength(c, field, len) = IF c = "cu_device_get_name" THEN Min({max, room}) ELSE len
  <2>1. Max({len, 1}) = max
    BY Most
  <2>2. QED
    BY <2>1 DEF TextLength
<1> HIDE DEF field
<1>3. max \in Nat /\ room \in Nat /\ len <= max
  BY <1>1
<1> HIDE DEF max, room
<1>4. Min({max, room}) = IF max <= room THEN max ELSE room
  BY <1>3, Most
<1>5. Min({max, room}) \in Nat /\ Min({max, room}) <= max
  BY <1>3, <1>4
<1>6. TextLength(c, field, len) \in Nat /\ TextLength(c, field, len) <= max
  BY <1>2, <1>3, <1>5
<1>7. QED
  BY <1>6 DEF field, max

(* Commands without a text, and those with one.                            *)
LEMMA ReturnedIs ==
  ASSUME NEW c \in DOMAIN Library, NEW len \in Nat
  PROVE  /\ Returned(c, len) \in Nat
         /\ c \in RuntimeTexts /\ len = 0 => Returned(c, len) = 0
         /\ c \in RuntimeTexts /\ len # 0 => Returned(c, len) = Library[c].resp + len
         /\ c \notin AllTexts => Returned(c, len) = Library[c].resp
         /\ Returned(c, len) <= Library[c].resp + IF c \in AllTexts THEN len ELSE 0
<1> DEFINE r == Library[c].resp
<1>1. Handlers[c].resp = r /\ r \in Nat
  <2>1. Row(Library[c]) /\ Handlers[c].resp = Library[c].resp
    BY ListsAgree
  <2>2. r \in 0..2000
    BY <2>1 DEF Row
  <2> HIDE DEF r
  <2>3. r \in Nat
    BY <2>2
  <2>4. QED
    BY <2>1, <2>3 DEF r
<1>2. Returned(c, len) = IF c \in RuntimeTexts /\ len = 0 THEN 0
                         ELSE r + IF c \in AllTexts THEN len ELSE 0
  BY <1>1 DEF Returned, AllTexts
<1> HIDE DEF r
<1>3. c \in RuntimeTexts => c \in AllTexts
  BY DEF AllTexts
<1>4. /\ Returned(c, len) \in Nat
      /\ c \in RuntimeTexts /\ len = 0 => Returned(c, len) = 0
      /\ c \in RuntimeTexts /\ len # 0 => Returned(c, len) = r + len
      /\ c \notin AllTexts => Returned(c, len) = r
      /\ Returned(c, len) <= r + IF c \in AllTexts THEN len ELSE 0
  BY <1>1, <1>2, <1>3
<1>5. QED
  BY <1>4 DEF r

LEMMA ServedTypes ==
  ASSUME Made, Twice, Served
  PROVE  /\ text \in Nat /\ host.returned \in Nat /\ answer \in Nat
         /\ sizes.resp \in Nat /\ sizes.req \in Nat
         /\ sizes.resp = Library[call.cmd].resp + IF call.cmd \in RuntimeTexts THEN 256 ELSE 0
         /\ host.returned = Returned(call.cmd, text)
         /\ answer = IF host.returned <= sizes.resp THEN host.returned ELSE sizes.resp
<1>1. /\ call.cmd \in DOMAIN Library /\ call.count \in Nat /\ Library[call.cmd].resp \in Nat
      /\ buffer.filled \in Nat
  BY MadeTypes
<1>2. PICK len \in Texts : text = TextLength(call.cmd, Field(call.cmd, call.count), len)
  BY DEF Served
<1>3. text \in Nat
  BY <1>1, <1>2, LengthIs, SizesAssumption
<1>4. host.returned = Returned(call.cmd, text) /\ answer = Min({host.returned, sizes.resp})
  BY DEF Served, Cut
<1>5. /\ sizes.resp = Library[call.cmd].resp + IF call.cmd \in RuntimeTexts THEN 256 ELSE 0
      /\ sizes.req = buffer.filled
  BY <1>1, FirstPass DEF Twice
<1>6. sizes.resp \in Nat /\ sizes.req \in Nat
  BY <1>1, <1>5
<1>7. host.returned \in Nat
  BY <1>1, <1>3, <1>4, ReturnedIs
<1>8. answer = IF host.returned <= sizes.resp THEN host.returned ELSE sizes.resp
  <2>1. Min({host.returned, sizes.resp}) =
          IF host.returned <= sizes.resp THEN host.returned ELSE sizes.resp
    <3> DEFINE h == host.returned
    <3> DEFINE s == sizes.resp
    <3>1. h \in Int /\ s \in Int
      BY <1>6, <1>7
    <3> HIDE DEF h, s
    <3>2. Min({h, s}) = IF h <= s THEN h ELSE s
      BY <3>1, Most
    <3>3. QED
      BY <3>2 DEF h, s
  <2>2. QED
    BY <1>4, <2>1
<1>9. answer \in Nat
  BY <1>6, <1>7, <1>8
<1>10. QED
  BY <1>3, <1>4, <1>5, <1>6, <1>7, <1>8, <1>9

LEMMA CopiedIs ==
  ASSUME NEW c, NEW n, c \notin DriverTexts
  PROVE  /\ c \in RuntimeTexts => Copied(c, n) = IF text < 256 THEN text ELSE 255
         /\ c \notin RuntimeTexts => Copied(c, n) = 0
<1>1. c # "cu_device_get_name" /\ (c \in ErrorTexts <=> c \in RuntimeTexts)
  BY DEF DriverTexts, ErrorTexts
<1>2. ASSUME c \in RuntimeTexts PROVE Copied(c, n) = IF text < 256 THEN text ELSE 255
  <2>1. Copied(c, n) = IF text < MaxText THEN text ELSE MaxText - 1
    BY <1>1, <1>2, Zenon DEF Copied
  <2>2. QED
    BY <2>1 DEF MaxText
<1>3. ASSUME c \notin RuntimeTexts PROVE Copied(c, n) = 0
  BY <1>1, <1>3, Zenon DEF Copied
<1>4. QED
  BY <1>2, <1>3

(* All that a caller reads of a good answer is the daemon's: the structure *)
(* of the response and, for the texts of the runtime API, as much of the   *)
(* text as the driver has made room for.                                   *)
THEOREM AnswersArrive == Spec => []AnswerDelivered
<1>1. ASSUME Made, Twice, Served, call.cmd \notin DriverTexts
      PROVE  Read <= IF call.cmd \in RuntimeTexts /\ text = 0 THEN sizes.resp ELSE answer
  <2> DEFINE c == call.cmd
  <2> DEFINE r == Library[c].resp
  <2> DEFINE seen == Copied(c, call.count)
  <2>1. c \in DOMAIN Library /\ r \in Nat
    BY <1>1, MadeTypes
  <2>2. /\ text \in Nat /\ host.returned \in Nat /\ answer \in Nat /\ sizes.resp \in Nat
        /\ sizes.resp = r + IF c \in RuntimeTexts THEN 256 ELSE 0
        /\ answer = IF host.returned <= sizes.resp THEN host.returned ELSE sizes.resp
    BY <1>1, ServedTypes
  <2>3. /\ c \in RuntimeTexts /\ text # 0 => host.returned = r + text
        /\ c \notin RuntimeTexts => host.returned = r
    <3>1. host.returned = Returned(c, text)
      BY <1>1, ServedTypes
    <3>2. c \notin RuntimeTexts => c \notin AllTexts
      BY <1>1 DEF AllTexts
    <3>3. QED
      BY <2>1, <2>2, <3>1, <3>2, ReturnedIs
  <2>4. /\ c \in RuntimeTexts => seen = IF text < 256 THEN text ELSE 255
        /\ c \notin RuntimeTexts => seen = 0
    BY <1>1, CopiedIs
  <2>5. Read = r + seen
    BY DEF Read
  <2> HIDE DEF c, r, seen
  <2>6. CASE c \in RuntimeTexts
    <3>1. Read = r + IF text < 256 THEN text ELSE 255
      BY <2>4, <2>5, <2>6
    <3>2. CASE text = 0
      <4>1. Read <= sizes.resp
        BY <2>1, <2>2, <2>6, <3>1, <3>2
      <4>2. QED
        BY <2>6, <3>2, <4>1 DEF c
    <3>3. CASE text # 0
      <4>1. host.returned = r + text /\ sizes.resp = r + 256
        BY <2>2, <2>3, <2>6, <3>3
      <4>2. Read <= answer
        BY <2>1, <2>2, <3>1, <4>1
      <4>3. QED
        BY <3>3, <4>2
    <3>4. QED
      BY <3>2, <3>3
  <2>7. CASE c \notin RuntimeTexts
    <3>1. Read = r /\ answer = r
      BY <2>1, <2>2, <2>3, <2>4, <2>5, <2>7
    <3>2. Read <= answer
      BY <2>1, <3>1
    <3>3. QED
      BY <2>7, <3>2 DEF c
  <2>8. QED
    BY <2>6, <2>7
<1>2. SizesInv => AnswerDelivered
  BY <1>1 DEF SizesInv, Untouched, Underway, Over, AnswerDelivered
<1>3. QED
  BY <1>2, SizesInvariance, PTL

(* The structure before a text is the length of the text.                  *)
LengthWord == <<Words(1)>>

LEMMA TextRows ==
  ASSUME NEW c \in DOMAIN Library, c \in AllTexts
  PROVE  Library[c].resp = SizeOf(LengthWord) /\ SizeOf(LengthWord) \in 1..433
<1> DEFINE Tables == {RuntimeResponse, ControlResponse, MemoryResponse, VirtualResponse,
                      MulticastResponse}
<1>1. Response = Together(Tables)
  BY DEF Response
<1>2. SizeOf(LengthWord) \in 1..433
  <2>1. Words(1) \in Lines
    BY DEF Words, Lines
  <2>2. LengthWord \in Small
    BY <2>1, Tuples DEF LengthWord
  <2>3. QED
    BY <2>2, SmallSize
<1>3. Library[c].resp = Sizes[c].resp
  BY ListsAgree
<1>4. CASE c \in RuntimeTexts
  <2>1. /\ c \in DOMAIN SizesRuntime
        /\ SizesRuntime[c].resp = SizeOf(Response[Like(c)])
    BY <1>4 DEF SizesRuntime, List, RuntimeTexts
  <2>2. Like(c) = "get_error_string"
    <3>1. CASE c = "get_error_string"
      BY <3>1, Zenon DEF Like
    <3>2. CASE c = "get_error_name"
      BY <3>2, Zenon DEF Like
    <3>3. QED
      BY <1>4, <3>1, <3>2 DEF RuntimeTexts
  <2>3. RuntimeResponse \in Tables
    OBVIOUS
  <2>4. /\ "get_error_string" \in DOMAIN RuntimeResponse
        /\ RuntimeResponse["get_error_string"] = LengthWord
    BY DEF RuntimeResponse, LengthWord
  <2>5. \A u \in Tables : "get_error_string" \in DOMAIN u => u = RuntimeResponse
    BY DEF ControlResponse, MemoryResponse, VirtualResponse, MulticastResponse
  <2> HIDE DEF Tables
  <2>6. Response["get_error_string"] = RuntimeResponse["get_error_string"]
    BY <1>1, <2>3, <2>4, <2>5, FromOnly
  <2>7. Sizes[c] = SizesRuntime[c]
    BY <2>1, SizesFrom
  <2>8. QED
    BY <1>2, <1>3, <2>1, <2>2, <2>4, <2>6, <2>7
<1>5. CASE c \in {"cu_get_error_string", "cu_get_error_name"}
  <2>1. c \in DOMAIN SizesMemory /\ SizesMemory[c].resp = SizeOf(Response[Like(c)])
    BY <1>5 DEF SizesMemory, List
  <2>2. Like(c) = c
    BY <1>5, Zenon DEF Like
  <2>3. MemoryResponse \in Tables
    OBVIOUS
  <2>4. c \in DOMAIN MemoryResponse /\ MemoryResponse[c] = LengthWord
    BY <1>5 DEF MemoryResponse, LengthWord
  <2>5. \A u \in Tables : c \in DOMAIN u => u = MemoryResponse
    BY <1>5 DEF RuntimeResponse, ControlResponse, VirtualResponse, MulticastResponse
  <2> HIDE DEF Tables
  <2>6. Response[c] = MemoryResponse[c]
    BY <1>1, <2>3, <2>4, <2>5, FromOnly
  <2>7. Sizes[c] = SizesMemory[c]
    BY <2>1, SizesFrom
  <2>8. QED
    BY <1>2, <1>3, <2>1, <2>2, <2>4, <2>6, <2>7
<1>6. CASE c = "cu_device_get_name"
  <2>1. c \in DOMAIN SizesControl /\ SizesControl[c].resp = SizeOf(Response[Like(c)])
    BY <1>6 DEF SizesControl, List
  <2>2. Like(c) = c
    BY <1>6, Zenon DEF Like
  <2>3. ControlResponse \in Tables
    OBVIOUS
  <2>4. c \in DOMAIN ControlResponse /\ ControlResponse[c] = LengthWord
    BY <1>6 DEF ControlResponse, LengthWord
  <2>5. \A u \in Tables : c \in DOMAIN u => u = ControlResponse
    BY <1>6 DEF RuntimeResponse, MemoryResponse, VirtualResponse, MulticastResponse
  <2> HIDE DEF Tables
  <2>6. Response[c] = ControlResponse[c]
    BY <1>1, <2>3, <2>4, <2>5, FromOnly
  <2>7. Sizes[c] = SizesControl[c]
    BY <2>1, SizesFrom
  <2>8. QED
    BY <1>2, <1>3, <2>1, <2>2, <2>4, <2>6, <2>7
<1>7. QED
  BY <1>4, <1>5, <1>6 DEF AllTexts, RuntimeTexts, DriverTexts

(* Type correctness, if CUDA has no text that is longer than the buffer    *)
(* the daemon makes a response in, of which the handlers do not see the    *)
(* end: then every response fits that buffer, and what is left of it the   *)
(* driver's.                                                               *)
THEOREM SizesTypeCorrect ==
  ASSUME \A len \in Texts : SizeOf(LengthWord) + len <= MaxResp
  PROVE  Spec => []TypeOK
<1>1. ASSUME Made, Twice, Served PROVE host.returned \in 0..MaxResp /\ answer \in 0..sizes.resp
  <2> DEFINE r == Library[call.cmd].resp
  <2> DEFINE most == r + IF call.cmd \in AllTexts THEN text ELSE 0
  <2>1. /\ call.cmd \in DOMAIN Library /\ call.count \in Nat /\ r \in Nat /\ r <= 2000
    BY <1>1, MadeTypes
  <2>2. /\ text \in Nat /\ host.returned \in Nat /\ answer \in Nat /\ sizes.resp \in Nat
        /\ host.returned = Returned(call.cmd, text)
        /\ answer = IF host.returned <= sizes.resp THEN host.returned ELSE sizes.resp
    BY <1>1, ServedTypes
  <2>3. host.returned <= most
    BY <2>1, <2>2, ReturnedIs
  <2>4. PICK len \in Texts : text = TextLength(call.cmd, Field(call.cmd, call.count), len)
    BY <1>1 DEF Served
  <2>5. len \in Nat /\ text <= IF len >= 1 THEN len ELSE 1
    BY <2>1, <2>4, LengthIs, SizesAssumption
  <2>6. most <= 2048
    <3>1. CASE call.cmd \in AllTexts
      <4>1. r = SizeOf(LengthWord) /\ SizeOf(LengthWord) \in 1..433
        BY <2>1, <3>1, TextRows
      <4>2. r \in 1..433 /\ r + len <= 2048
        BY <2>4, <4>1 DEF MaxResp
      <4>3. most = r + text
        BY <3>1
      <4> HIDE DEF r, most
      <4>4. QED
        BY <2>2, <2>5, <4>2, <4>3
    <3>2. CASE call.cmd \notin AllTexts
      <4>1. most = r + 0
        BY <3>2
      <4> HIDE DEF r, most
      <4>2. QED
        BY <2>1, <4>1
    <3>3. QED
      BY <3>1, <3>2
  <2>7. most \in Nat
    BY <2>1, <2>2
  <2> HIDE DEF most
  <2>8. host.returned \in 0..2048
    BY SMTT(30), <2>2, <2>3, <2>6, <2>7
  <2>9. answer \in 0..sizes.resp
    BY <2>2
  <2>10. QED
    BY <2>8, <2>9 DEF MaxResp
<1>2. ASSUME Made
      PROVE  /\ call.cmd \in {"none"} \cup DOMAIN Library /\ call.count \in Nat
             /\ buffer.room \in Nat /\ buffer.filled \in 0..buffer.room
  <2>1. /\ call.cmd \in DOMAIN Library /\ call.count \in Nat
        /\ buffer.room \in Nat /\ buffer.filled \in Nat /\ buffer.filled <= buffer.room
    BY <1>2, MadeTypes
  <2>2. QED
    BY <2>1
<1>3. ASSUME Made PROVE Unsized \/ Once \/ Twice => sizes.req \in Nat /\ sizes.resp \in Nat
  <2> DEFINE extra == IF call.cmd \in RuntimeTexts THEN 256 ELSE 0
  <2>1. /\ call.cmd \in DOMAIN Library /\ Library[call.cmd].req \in Nat
        /\ Library[call.cmd].resp \in Nat /\ buffer.filled \in Nat
    BY <1>3, MadeTypes
  <2>2. extra \in Nat
    OBVIOUS
  <2>3. Pass1Sizes(call.cmd) = [req |-> Library[call.cmd].req,
                                resp |-> Library[call.cmd].resp + extra]
    BY <2>1, FirstPass
  <2> HIDE DEF extra
  <2>4. Library[call.cmd].resp + extra \in Nat
    BY <2>1, <2>2
  <2>5. QED
    BY <2>1, <2>3, <2>4 DEF Unsized, Once, Twice
<1>4. ASSUME NEW n, Heard(n), sizes.resp \in Nat
      PROVE  host.returned \in 0..MaxResp /\ answer \in 0..sizes.resp
  <2>1. host.returned = 0 /\ answer = 0
    BY <1>4 DEF Heard
  <2>2. QED
    BY <1>4, <2>1 DEF MaxResp
<1>5. Untouched => TypeOK
  <2>1. SUFFICES ASSUME Untouched PROVE TypeOK
    OBVIOUS
  <2>2. /\ pc = "idle" /\ result = "none" /\ call.cmd = "none" /\ call.count = 0
        /\ buffer.filled = 0 /\ buffer.room = 0 /\ sizes.req = 0 /\ sizes.resp = 0 /\ Heard(0)
    BY <2>1 DEF Untouched, Nothing, Unsized
  <2>3. host.returned \in 0..MaxResp /\ answer \in 0..sizes.resp
    BY <1>4, <2>2
  <2>4. QED
    BY <2>2, <2>3 DEF TypeOK
<1>6. Underway => TypeOK
  BY <1>1, <1>2, <1>3, <1>4 DEF Underway, TypeOK
<1>7. Over => TypeOK
  BY <1>1, <1>2, <1>3, <1>4 DEF Over, TypeOK
<1>8. SizesInv => TypeOK
  BY <1>5, <1>6, <1>7 DEF SizesInv
<1>9. QED
  BY <1>8, SizesInvariance, PTL

==============================================================================
