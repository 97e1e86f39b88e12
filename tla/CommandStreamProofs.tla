------------------------ MODULE CommandStreamProofs ------------------------
(***************************************************************************)
(* Proofs about module CommandStream, for a buffer of any size and packages*)
(* of any lengths, for clients that keep to two rules: no more than        *)
(* Capacity bytes are sent and not yet handled, and no header arrives in   *)
(* two pieces.  Without them the code loses bytes or takes old bytes for a *)
(* length (see the comment of module CommandStream).                       *)
(*                                                                         *)
(* The argument: count is the distance between start and end and the loops *)
(* of add, get and read copy all they are asked to (the test for a full or *)
(* an empty buffer never strikes), so moving bytes from the wire into the  *)
(* ring changes nothing in what is unread (RingKeeps).  What is unread is  *)
(* described by the place where each package begins in it (Layout): a new  *)
(* package is put behind it, and handling one moves all others forward.    *)
(***************************************************************************)
EXTENDS CommandStream, SequenceTheorems, TLAPS

\* The rules a client keeps to.
ClientRules == Window <= Capacity /\ ~Split

\* The length of a package.
PkgLen(k) == pkgs[k].len

\* How the unread bytes u are made up of packages once h of them have been
\* handled: package k begins behind position base[k].
Layout(base, u, h) ==
    LET waiting == (h + 1)..Len(pkgs)
    IN  /\ base[h + 1] = 0
        /\ base[Len(pkgs) + 1] = Len(u)
        /\ \A k \in waiting : base[k + 1] = base[k] + PkgLen(k)
        /\ \A k \in waiting : \A o \in 1..PkgLen(k) :
             base[k] + o \in 1..Len(u) /\ u[base[k] + o] = <<k, o>>
        /\ \A i \in 1..Len(u) : \E k \in waiting : \E o \in 1..PkgLen(k) : i = base[k] + o

\* The fields of the buffer agree, and everything unread has room in it.
BufInv == end = start + count /\ count + Len(wire) <= Capacity

\* What is unread is the rest of the stream.
StreamInv == /\ Len(handled) <= Len(pkgs)
             /\ \E base \in [Nat -> Int] : Layout(base, Unread, Len(handled))

IInv == TypeOK /\ BufInv /\ StreamInv /\ HandledInOrder

-----------------------------------------------------------------------------
(* Arithmetic *)

\* Quotient and remainder.
LEMMA DivMod ==
  ASSUME NEW x \in Int, NEW c \in Nat \ {0}
  PROVE  x \div c \in Int /\ x % c \in 0..(c - 1) /\ x = c * (x \div c) + (x % c)
OBVIOUS

\* A remainder is recognised by its range.
LEMMA ModUnique ==
  ASSUME NEW c \in Nat \ {0}, NEW x \in Int, NEW q \in Int, NEW r \in 0..(c - 1), x = c * q + r
  PROVE  x % c = r
<1> DEFINE p == x \div c
           s == x % c
           d == p - q
<1>1. p \in Int /\ s \in 0..(c - 1) /\ x = c * p + s
  BY DivMod
<1> HIDE DEF p, s
<1>2. d \in Int /\ c * d = r - s
  <2>1. c * (p - q) = c * p - c * q
    BY <1>1
  <2> QED
    BY <1>1, <2>1
<1> HIDE DEF d
<1>3. d = 0
  <2>1. d >= 1 => c * d >= c
    BY <1>2
  <2>2. d <= -1 => c * d <= -c
    BY <1>2
  <2> QED
    BY <1>1, <1>2, <2>1, <2>2
<1>4. c * d = 0
  BY <1>3
<1> QED
  BY <1>1, <1>2, <1>4 DEF s

\* The index in the chunk that add writes to a place of the ring.
LEMMA ModDiff ==
  ASSUME NEW c \in Nat \ {0}, NEW a \in Int, NEW b \in Int, NEW m \in 0..(c - 1),
         a - b = m \/ a - b = m - c
  PROVE  ((a % c) - b) % c = m
<1> DEFINE q == a \div c
           s == a % c
<1>1. q \in Int /\ s \in 0..(c - 1) /\ a = c * q + s
  BY DivMod
<1> HIDE DEF q, s
<1>2. CASE a - b = m
  <2>1. c * (-q) = -(c * q)
    BY <1>1
  <2>2. s - b = c * (-q) + m /\ s - b \in Int /\ -q \in Int
    BY <1>1, <1>2, <2>1
  <2>3. (s - b) % c = m
    BY <2>2, ModUnique
  <2> QED
    BY <2>3 DEF s
<1>3. CASE a - b = m - c
  <2>1. c * (-q - 1) = -(c * q) - c
    BY <1>1
  <2>2. s - b = c * (-q - 1) + m /\ s - b \in Int /\ -q - 1 \in Int
    BY <1>1, <1>3, <2>1
  <2>3. (s - b) % c = m
    BY <2>2, ModUnique
  <2> QED
    BY <2>3 DEF s
<1> QED
  BY <1>2, <1>3

\* The ring has places.
LEMMA Sizes == /\ CmdPkgMax \in Nat /\ Base \in Nat \ {0, 1} /\ Capacity \in Nat
               /\ \A l \in Lens : l \in Nat /\ l >= 3 /\ l < CmdPkgMax /\ Capacity > 0
  BY SizesAssumption DEF Capacity

-----------------------------------------------------------------------------
(* The buffer *)

\* The n bytes of a ring b from place s on.
BytesFrom(b, s, n) == [i \in 1..n |-> b[(s + i - 1) % Capacity]]

\* They are bytes indeed.
LEMMA BytesFromSeq ==
  ASSUME NEW b \in [0..(Capacity - 1) -> Bytes], NEW s \in Nat, NEW n \in Nat, Capacity > 0
  PROVE  /\ BytesFrom(b, s, n) \in Seq(Bytes) /\ Len(BytesFrom(b, s, n)) = n
         /\ \A i \in 1..n : BytesFrom(b, s, n)[i] = b[(s + i - 1) % Capacity]
<1>1. ASSUME NEW i \in 1..n PROVE b[(s + i - 1) % Capacity] \in Bytes
  <2>1. s + i - 1 \in Int /\ Capacity \in Nat \ {0}
    BY Sizes
  <2>2. (s + i - 1) % Capacity \in 0..(Capacity - 1)
    BY <2>1, DivMod
  <2> QED
    BY <2>2
<1>2. BytesFrom(b, s, n) \in [1..n -> Bytes]
  BY <1>1 DEF BytesFrom
<1>3. BytesFrom(b, s, n) \in Seq(Bytes) /\ Len(BytesFrom(b, s, n)) = n
  BY <1>2, SeqDef, LenProperties
<1> QED
  BY <1>3 DEF BytesFrom

\* The unread bytes: first c bytes in a ring b from place s on, then those on
\* a wire w.
LEMMA JoinFrom ==
  ASSUME NEW b \in [0..(Capacity - 1) -> Bytes], NEW s \in Nat, NEW c \in Nat, NEW w \in Seq(Bytes), Capacity > 0
  PROVE  /\ BytesFrom(b, s, c) \o w \in Seq(Bytes) /\ Len(BytesFrom(b, s, c) \o w) = c + Len(w) /\ Len(w) \in Nat
         /\ \A i \in 1..(c + Len(w)) :
              (BytesFrom(b, s, c) \o w)[i] = IF i <= c THEN b[(s + i - 1) % Capacity] ELSE w[i - c]
<1>1. /\ BytesFrom(b, s, c) \in Seq(Bytes) /\ Len(BytesFrom(b, s, c)) = c
      /\ \A i \in 1..c : BytesFrom(b, s, c)[i] = b[(s + i - 1) % Capacity]
  BY BytesFromSeq
<1>2. Len(w) \in Nat
  BY LenProperties
<1> DEFINE t == BytesFrom(b, s, c)
<1> HIDE DEF t
<1>3. /\ t \o w \in Seq(Bytes) /\ Len(t \o w) = c + Len(w)
      /\ \A i \in 1..(c + Len(w)) : (t \o w)[i] = IF i <= c THEN t[i] ELSE w[i - c]
  <2>1. t \in Seq(Bytes) /\ Len(t) = c
    BY <1>1 DEF t
  <2>2. /\ t \o w \in Seq(Bytes) /\ Len(t \o w) = Len(t) + Len(w)
        /\ \A i \in 1..(Len(t) + Len(w)) : (t \o w)[i] = IF i <= Len(t) THEN t[i] ELSE w[i - Len(t)]
    BY <2>1, ConcatProperties
  <2> QED
    BY <2>1, <2>2
<1>4. \A i \in 1..(c + Len(w)) : i <= c => t[i] = b[(s + i - 1) % Capacity]
  BY <1>1, <1>2 DEF t
<1> QED
  BY <1>2, <1>3, <1>4 DEF t

\* The same from start on.
LEMMA JoinAt ==
  ASSUME NEW b \in [0..(Capacity - 1) -> Bytes], start \in Nat, NEW c \in Nat, NEW w \in Seq(Bytes), Capacity > 0
  PROVE  /\ Taken(b, c) \o w \in Seq(Bytes) /\ Len(Taken(b, c) \o w) = c + Len(w) /\ Len(w) \in Nat
         /\ \A i \in 1..(c + Len(w)) :
              (Taken(b, c) \o w)[i] = IF i <= c THEN b[(start + i - 1) % Capacity] ELSE w[i - c]
<1>1. Taken(b, c) = BytesFrom(b, start, c)
  BY DEF Taken, BytesFrom
<1>2. /\ BytesFrom(b, start, c) \o w \in Seq(Bytes) /\ Len(BytesFrom(b, start, c) \o w) = c + Len(w)
      /\ Len(w) \in Nat
      /\ \A i \in 1..(c + Len(w)) :
           (BytesFrom(b, start, c) \o w)[i] = IF i <= c THEN b[(start + i - 1) % Capacity] ELSE w[i - c]
  BY JoinFrom
<1> QED
  BY <1>1, <1>2, Zenon

\* get and read copy all len bytes if the buffer has them.
LEMMA ReadsAll ==
  ASSUME start \in Nat, NEW c \in Nat, NEW len \in 0..c, NEW e \in Nat, e = start + c, Capacity > 0
  PROVE  Copied(start, len, e) = len
<1> DEFINE hits == {i \in 1..(len - 1) : (start + i) % Capacity = e}
<1>1. ASSUME NEW i \in 1..(len - 1), (start + i) % Capacity = e PROVE FALSE
  <2>1. start + i \in Nat /\ start + i < e /\ Capacity \in Nat \ {0}
    BY Sizes
  <2>2. e < Capacity
    BY <1>1, <2>1, DivMod
  <2>3. (start + i) % Capacity = start + i
    <3>1. start + i \in 0..(Capacity - 1) /\ start + i = Capacity * 0 + (start + i)
      BY <2>1, <2>2
    <3> QED
      BY <2>1, <3>1, ModUnique
  <2> QED
    BY <1>1, <2>1, <2>3
<1>2. hits = {}
  BY <1>1
<1> QED
  BY <1>2 DEF Copied

\* add stores all n bytes if they have room behind the c bytes there are.
LEMMA AddsAll ==
  ASSUME start \in Nat, NEW c \in Nat, NEW n \in Nat, end = start + c, c + n <= Capacity, n > 0
  PROVE  Copied(end, n, start) = n
<1> DEFINE hits == {i \in 1..(n - 1) : (end + i) % Capacity = start}
<1>1. ASSUME NEW i \in 1..(n - 1), (end + i) % Capacity = start PROVE FALSE
  <2>1. end + i \in Nat /\ Capacity \in Nat \ {0} /\ end + i = start + (c + i) /\ c + i \in 1..(Capacity - 1)
    BY Sizes
  <2>2. start \in 0..(Capacity - 1)
    BY <1>1, <2>1, DivMod
  <2>3. CASE start + (c + i) < Capacity
    <3>1. end + i \in 0..(Capacity - 1) /\ end + i = Capacity * 0 + (end + i)
      BY <2>1, <2>3
    <3>2. (end + i) % Capacity = end + i
      BY <2>1, <3>1, ModUnique
    <3> QED
      BY <1>1, <2>1, <3>2
  <2>4. CASE start + (c + i) >= Capacity
    <3>1. end + i - Capacity \in 0..(Capacity - 1) /\ end + i = Capacity * 1 + (end + i - Capacity)
      BY <2>1, <2>2, <2>4
    <3>2. (end + i) % Capacity = end + i - Capacity
      BY <2>1, <3>1, ModUnique
    <3> QED
      BY <1>1, <2>1, <3>2
  <2> QED
    BY <2>1, <2>2, <2>3, <2>4
<1>2. hits = {}
  BY <1>1
<1> QED
  BY <1>2 DEF Copied

\* Moving n bytes from the wire into the ring changes nothing in what is
\* unread: they come behind the bytes that are there, and overwrite none.
LEMMA RingKeeps ==
  ASSUME TypeOK, BufInv, NEW n \in 1..Len(wire)
  PROVE  LET b    == Written(SubSeq(wire, 1, n), n)
             rest == SubSeq(wire, n + 1, Len(wire))
         IN  /\ b \in [0..(Capacity - 1) -> Bytes]
             /\ rest \in Seq(Bytes) /\ Len(rest) = Len(wire) - n
             /\ \A i \in 1..Len(rest) : rest[i] = wire[n + i]
             /\ Taken(b, count + n) \o rest = Unread
<1> DEFINE chunk == SubSeq(wire, 1, n)
           b     == Written(chunk, n)
           rest  == SubSeq(wire, n + 1, Len(wire))
<1>1. /\ wire \in Seq(Bytes) /\ Len(wire) \in Nat /\ n \in Nat /\ 1 <= n /\ n <= Len(wire)
      /\ \A i \in 1..Len(wire) : wire[i] \in Bytes
      /\ ring \in [0..(Capacity - 1) -> Bytes] /\ start \in Nat /\ count \in Nat /\ end = start + count
      /\ count + Len(wire) <= Capacity /\ Capacity \in Nat \ {0}
  <2>1. wire \in Seq(Bytes) /\ count \in Nat /\ Capacity \in Nat
    BY Sizes DEF TypeOK
  <2>2. Len(wire) \in Nat /\ \A i \in 1..Len(wire) : wire[i] \in Bytes
    BY <2>1, LenProperties
  <2> QED
    BY <2>1, <2>2 DEF TypeOK, BufInv
<1>2. /\ chunk \in Seq(Bytes) /\ Len(chunk) = n
      /\ \A i \in 1..n : chunk[i] = wire[i]
  <2>1. \A j \in 1..n : wire[j] \in Bytes
    BY <1>1
  <2>2. /\ chunk \in Seq(Bytes) /\ Len(chunk) = IF 1 <= n THEN n - 1 + 1 ELSE 0
        /\ \A j \in 1..(n - 1 + 1) : chunk[j] = wire[1 + j - 1]
    BY <1>1, <2>1, SubSeqProperties
  <2> QED
    BY <1>1, <2>2
<1>3. /\ rest \in Seq(Bytes) /\ Len(rest) = Len(wire) - n
      /\ \A j \in 1..(Len(wire) - n) : rest[j] = wire[n + j]
  <2>1. \A j \in (n + 1)..Len(wire) : wire[j] \in Bytes
    BY <1>1
  <2>2. /\ rest \in Seq(Bytes) /\ Len(rest) = IF n + 1 <= Len(wire) THEN Len(wire) - (n + 1) + 1 ELSE 0
        /\ \A j \in 1..(Len(wire) - (n + 1) + 1) : rest[j] = wire[(n + 1) + j - 1]
    BY <1>1, <2>1, SubSeqProperties
  <2> QED
    BY <1>1, <2>2
<1> HIDE DEF chunk, rest
<1>4. /\ b = [j \in 0..(Capacity - 1) |->
                IF ((j - end) % Capacity) < n THEN chunk[((j - end) % Capacity) + 1] ELSE ring[j]]
  BY DEF Written
<1>5. b \in [0..(Capacity - 1) -> Bytes]
  <2>1. ASSUME NEW j \in 0..(Capacity - 1) PROVE b[j] \in Bytes
    <3>1. (j - end) % Capacity \in 0..(Capacity - 1)
      <4>1. j - end \in Int
        BY <1>1
      <4> QED
        BY <1>1, <4>1, DivMod
    <3>2. CASE (j - end) % Capacity < n
      <4>1. ((j - end) % Capacity) + 1 \in 1..n /\ ((j - end) % Capacity) + 1 \in 1..Len(wire)
        BY <1>1, <3>1, <3>2
      <4> QED
        BY <1>1, <1>2, <1>4, <3>2, <4>1
    <3>3. CASE ~((j - end) % Capacity < n)
      BY <1>1, <1>4, <3>3
    <3> QED
      BY <3>2, <3>3
  <2> QED
    BY <1>4, <2>1
<1> HIDE DEF b
<1> DEFINE new == Taken(b, count + n) \o rest
<1>6. /\ new \in Seq(Bytes) /\ Len(new) = count + Len(wire)
      /\ \A i \in 1..(count + Len(wire)) :
           new[i] = IF i <= count + n THEN b[(start + i - 1) % Capacity] ELSE rest[i - (count + n)]
  <2>1. count + n \in Nat /\ Capacity > 0 /\ start \in Nat /\ rest \in Seq(Bytes)
    BY <1>1, <1>3
  <2>2. /\ new \in Seq(Bytes) /\ Len(new) = (count + n) + Len(rest)
        /\ \A i \in 1..((count + n) + Len(rest)) :
             new[i] = IF i <= count + n THEN b[(start + i - 1) % Capacity] ELSE rest[i - (count + n)]
    BY ONLY <1>5, <2>1, JoinAt DEF new
  <2>3. (count + n) + Len(rest) = count + Len(wire)
    BY <1>1, <1>3
  <2> QED
    BY <2>2, <2>3
<1>7. /\ Unread \in Seq(Bytes) /\ Len(Unread) = count + Len(wire)
      /\ \A i \in 1..(count + Len(wire)) :
           Unread[i] = IF i <= count THEN ring[(start + i - 1) % Capacity] ELSE wire[i - count]
  <2>1. /\ Capacity > 0 /\ count \in Nat /\ start \in Nat /\ wire \in Seq(Bytes)
        /\ ring \in [0..(Capacity - 1) -> Bytes]
    BY <1>1
  <2> QED
    BY ONLY <2>1, JoinAt DEF Unread
<1> HIDE DEF new
<1>8. ASSUME NEW i \in 1..(count + Len(wire)) PROVE new[i] = Unread[i]
  <2> DEFINE a == start + i - 1
             j == a % Capacity
  <2>1. i \in Nat /\ i >= 1 /\ i <= count + Len(wire) /\ a = start + i - 1 /\ a \in Int
    BY <1>1
  <2>2. /\ i <= count + n => new[i] = b[j]
        /\ i <= count => Unread[i] = ring[j]
    BY <1>6, <1>7
  <2> HIDE DEF a
  <2>3. j \in 0..(Capacity - 1)
    BY <1>1, <2>1, DivMod
  <2>4. a \in Int /\ Capacity \in Nat \ {0}
    BY <1>1, <2>1
  <2>5. CASE i <= count
    <3> DEFINE m == Capacity + i - 1 - count
    <3>1. m \in 0..(Capacity - 1) /\ end \in Int /\ a - end = m - Capacity /\ m >= n
      BY <1>1, <2>1, <2>5
    <3> HIDE DEF m
    <3>2. ((a % Capacity) - end) % Capacity = m
      BY ONLY <2>4, <3>1, ModDiff
    <3>3. b[j] = ring[j]
      BY <1>1, <1>4, <2>3, <3>1, <3>2
    <3>4. new[i] = b[j] /\ Unread[i] = ring[j]
      BY <1>1, <2>1, <2>2, <2>5
    <3> QED
      BY <3>3, <3>4
  <2>6. CASE i > count /\ i <= count + n
    <3> DEFINE m == i - 1 - count
    <3>1. /\ m \in 0..(Capacity - 1) /\ end \in Int /\ a - end = m /\ m < n
          /\ m + 1 = i - count /\ m + 1 \in 1..n
      BY <1>1, <2>1, <2>6
    <3> HIDE DEF m
    <3>2. ((a % Capacity) - end) % Capacity = m
      BY ONLY <2>4, <3>1, ModDiff
    <3>3. b[j] = wire[i - count]
      BY <1>1, <1>2, <1>4, <2>3, <3>1, <3>2
    <3>4. new[i] = b[j]
      BY <2>2, <2>6
    <3>5. Unread[i] = wire[i - count]
      BY <1>1, <1>7, <2>1, <2>6
    <3> QED
      BY <3>3, <3>4, <3>5
  <2>7. CASE i > count + n
    <3>1. /\ i - (count + n) \in 1..(Len(wire) - n) /\ n + (i - (count + n)) = i - count
          /\ ~(i <= count) /\ ~(i <= count + n)
      BY <1>1, <2>1, <2>7
    <3>2. new[i] = rest[i - (count + n)] /\ Unread[i] = wire[i - count]
      BY <1>6, <1>7, <3>1
    <3> QED
      BY <1>3, <3>1, <3>2
  <2> QED
    BY <1>1, <2>1, <2>5, <2>6, <2>7
<1>9. new = Unread
  BY <1>6, <1>7, <1>8, SeqEqual
<1> QED
  BY <1>3, <1>5, <1>9 DEF b, rest, chunk, new

-----------------------------------------------------------------------------
(* The stream *)

\* The packages sent, and how many are handled.
LEMMA Counts ==
  ASSUME TypeOK
  PROVE  /\ pkgs \in Seq([type : Types, len : Lens]) /\ Len(pkgs) \in Nat
         /\ handled \in Seq(0..MaxPkgs) /\ Len(handled) \in Nat
         /\ \A k \in 1..Len(pkgs) : PkgLen(k) \in Lens /\ PkgLen(k) \in Nat /\ PkgLen(k) >= 3
                                    /\ PkgLen(k) < CmdPkgMax
<1>1. pkgs \in Seq([type : Types, len : Lens]) /\ handled \in Seq(0..MaxPkgs)
  BY DEF TypeOK
<1>2. Len(pkgs) \in Nat /\ Len(handled) \in Nat /\ \A k \in 1..Len(pkgs) : pkgs[k] \in [type : Types, len : Lens]
  BY <1>1, LenProperties
<1>3. \A k \in 1..Len(pkgs) : PkgLen(k) \in Lens
  BY <1>2 DEF PkgLen
<1> QED
  BY <1>1, <1>2, <1>3, Sizes

\* Something is unread only if a package waits; the first of them is at the
\* head.
LEMMA HeadPackage ==
  ASSUME TypeOK, NEW base \in [Nat -> Int], NEW u \in Seq(Bytes), NEW h \in Nat, h <= Len(pkgs),
         Layout(base, u, h), Len(u) > 0
  PROVE  /\ h + 1 \in 1..Len(pkgs) /\ PkgLen(h + 1) <= Len(u)
         /\ \A o \in 1..PkgLen(h + 1) : u[o] = <<h + 1, o>>
<1>1. Len(pkgs) \in Nat /\ Len(u) \in Nat /\ 1 \in 1..Len(u)
  BY Counts, LenProperties
<1>2. PICK k \in (h + 1)..Len(pkgs) : TRUE
  BY <1>1 DEF Layout
<1>3. h + 1 \in (h + 1)..Len(pkgs) /\ h + 1 \in 1..Len(pkgs)
  BY <1>1, <1>2
<1>4. PkgLen(h + 1) \in Nat /\ PkgLen(h + 1) >= 3
  BY <1>3, Counts
<1>5. \A o \in 1..PkgLen(h + 1) : base[h + 1] + o \in 1..Len(u) /\ u[base[h + 1] + o] = <<h + 1, o>>
  BY <1>3 DEF Layout
<1>6. base[h + 1] = 0
  BY DEF Layout
<1>7. ASSUME NEW o \in 1..PkgLen(h + 1) PROVE o \in 1..Len(u) /\ u[o] = <<h + 1, o>>
  <2>1. base[h + 1] + o = o
    BY <1>4, <1>6
  <2> QED
    BY <1>5, <2>1
<1>8. PkgLen(h + 1) \in 1..PkgLen(h + 1)
  BY <1>4
<1>9. PkgLen(h + 1) \in 1..Len(u)
  BY <1>7, <1>8
<1> QED
  BY <1>1, <1>3, <1>4, <1>7, <1>9, SMTT(30)

\* v is u without its first l elements.
IsRest(v, u, l) == Len(v) = Len(u) - l /\ \A i \in 1..Len(v) : v[i] = u[l + i]

\* When the first package is taken away the others move forward.
LEMMA DropPackage ==
  ASSUME TypeOK, NEW base \in [Nat -> Int], NEW u \in Seq(Bytes), NEW h \in Nat, h + 1 \in 1..Len(pkgs),
         Layout(base, u, h), PkgLen(h + 1) <= Len(u), NEW v \in Seq(Bytes), IsRest(v, u, PkgLen(h + 1))
  PROVE  \E nbase \in [Nat -> Int] : Layout(nbase, v, h + 1)
<1> DEFINE l == PkgLen(h + 1)
           nbase == [k \in Nat |-> base[k] - l]
           n == Len(pkgs)
<1>1. n \in Nat /\ l \in Nat /\ h + 1 \in 1..n /\ Len(u) \in Nat /\ Len(v) \in Nat /\ Len(v) = Len(u) - l
  BY Counts, LenProperties DEF IsRest
<1>2. \A i \in 1..Len(v) : v[i] = u[l + i]
  BY DEF IsRest
<1>3. \A k \in 1..n : PkgLen(k) \in Nat /\ PkgLen(k) >= 3
  BY Counts
<1>4. base[h + 1] = 0 /\ base[n + 1] = Len(u) /\ \A k \in (h + 1)..n : base[k + 1] = base[k] + PkgLen(k)
  BY DEF Layout
<1>5. \A k \in (h + 1)..n : \A o \in 1..PkgLen(k) : base[k] + o \in 1..Len(u) /\ u[base[k] + o] = <<k, o>>
  BY DEF Layout
<1>6. \A i \in 1..Len(u) : \E k \in (h + 1)..n : \E o \in 1..PkgLen(k) : i = base[k] + o
  BY DEF Layout
<1>7. nbase \in [Nat -> Int] /\ \A k \in Nat : nbase[k] = base[k] - l
  BY <1>1
<1>8. h + 1 \in (h + 1)..n /\ h + 1 \in Nat /\ (h + 1) + 1 \in Nat /\ n + 1 \in Nat
  BY <1>1
<1>9. base[(h + 1) + 1] = l
  BY <1>1, <1>4, <1>8
<1>10. \A o \in 1..l : u[o] = <<h + 1, o>>
  <2> SUFFICES ASSUME NEW o \in 1..l PROVE u[o] = <<h + 1, o>>
    OBVIOUS
  <2>1. base[h + 1] + o = o
    BY <1>1, <1>4
  <2> QED
    BY <1>5, <1>8, <2>1
<1> HIDE DEF l, n, nbase
<1>11. nbase[(h + 1) + 1] = 0 /\ nbase[n + 1] = Len(v)
  <2>1. nbase[(h + 1) + 1] = l - l /\ nbase[n + 1] = Len(u) - l
    BY <1>4, <1>7, <1>8, <1>9
  <2> QED
    BY <1>1, <2>1
<1>12. ASSUME NEW k \in ((h + 1) + 1)..n
       PROVE  /\ k \in Nat /\ k \in 1..n /\ k \in (h + 1)..n /\ k # h + 1 /\ base[k] \in Int
              /\ nbase[k] = base[k] - l /\ PkgLen(k) \in Nat
  <2>1. k \in Nat /\ k \in 1..n /\ k \in (h + 1)..n /\ k # h + 1
    BY <1>1
  <2> QED
    BY <1>3, <1>7, <2>1
<1>13. ASSUME NEW k \in ((h + 1) + 1)..n PROVE nbase[k + 1] = nbase[k] + PkgLen(k)
  <2>1. k + 1 \in Nat /\ base[k + 1] = base[k] + PkgLen(k)
    BY <1>4, <1>12
  <2>2. nbase[k + 1] = (base[k] + PkgLen(k)) - l
    BY <1>7, <2>1
  <2>3. nbase[k] = base[k] - l /\ base[k] \in Int /\ PkgLen(k) \in Int /\ l \in Int
    BY <1>1, <1>12, SMTT(30)
  <2> QED
    BY <2>2, <2>3
<1>14. ASSUME NEW k \in ((h + 1) + 1)..n, NEW o \in 1..PkgLen(k)
       PROVE  nbase[k] + o \in 1..Len(v) /\ v[nbase[k] + o] = <<k, o>>
  <2> DEFINE p == base[k] + o
  <2>1. p \in 1..Len(u) /\ u[p] = <<k, o>>
    BY <1>5, <1>12
  <2>2. p - l = nbase[k] + o /\ p \in Int
    <3>1. nbase[k] = base[k] - l /\ base[k] \in Int /\ o \in Int /\ l \in Int
      BY <1>1, <1>12
    <3> QED
      BY <3>1, SMTT(30)
  <2> HIDE DEF p
  <2>3. p \notin 1..l
    BY <1>10, <1>12, <2>1
  <2>4. p - l \in 1..Len(v) /\ l + (p - l) = p
    BY <1>1, <2>1, <2>2, <2>3
  <2>5. v[p - l] = u[p]
    BY <1>2, <2>4
  <2> QED
    BY <2>1, <2>2, <2>4, <2>5
<1>15. ASSUME NEW i \in 1..Len(v) PROVE \E k \in ((h + 1) + 1)..n : \E o \in 1..PkgLen(k) : i = nbase[k] + o
  <2> DEFINE p == l + i
  <2>1. p \in 1..Len(u) /\ p \notin 1..l /\ i = p - l
    BY <1>1
  <2> HIDE DEF p
  <2>2. PICK k \in (h + 1)..n : \E o \in 1..PkgLen(k) : p = base[k] + o
    BY <1>6, <2>1
  <2>3. PICK o \in 1..PkgLen(k) : p = base[k] + o
    BY <2>2
  <2>4. k # h + 1
    <3> SUFFICES ASSUME k = h + 1 PROVE FALSE
      OBVIOUS
    <3>1. o \in 1..l /\ p = 0 + o
      BY <1>4, <2>3 DEF l
    <3> QED
      BY <1>1, <2>1, <3>1
  <2>5. k \in ((h + 1) + 1)..n
    BY <1>1, <2>4
  <2>6. base[k] \in Int /\ nbase[k] = base[k] - l /\ o \in Int /\ l \in Int
    BY <1>1, <1>12, <2>5
  <2>7. i = nbase[k] + o
    BY <2>1, <2>3, <2>6, SMTT(30)
  <2> QED
    BY <2>5, <2>7
<1>16. Layout(nbase, v, h + 1)
  BY <1>11, <1>13, <1>14, <1>15, Zenon DEF Layout, n
<1> QED
  BY <1>7, <1>16

-----------------------------------------------------------------------------
(* The steps *)

\* The unread bytes as a sequence.
LEMMA UnreadAt ==
  ASSUME TypeOK, Capacity > 0
  PROVE  /\ Unread \in Seq(Bytes) /\ Len(Unread) = count + Len(wire) /\ Len(wire) \in Nat /\ count \in Nat
         /\ \A i \in 1..(count + Len(wire)) :
              Unread[i] = IF i <= count THEN ring[(start + i - 1) % Capacity] ELSE wire[i - count]
<1>1. /\ count \in Nat /\ start \in Nat /\ wire \in Seq(Bytes)
      /\ ring \in [0..(Capacity - 1) -> Bytes]
  BY Sizes DEF TypeOK
<1> QED
  BY <1>1, JoinAt DEF Unread

\* The initial state satisfies the invariant.
LEMMA InitIInv == Init => IInv
<1> SUFFICES ASSUME Init PROVE IInv
  OBVIOUS
<1>1. TypeOK
  <2>1. Garbage \in Bytes
    BY DEF Bytes
  <2> QED
    BY <2>1, Sizes, BoundsAssumption DEF Init, TypeOK
<1>2. BufInv
  BY Sizes DEF Init, BufInv
<1>3. HandledInOrder
  BY DEF Init, HandledInOrder
<1>4. Unread = <<>>
  <2>1. Taken(ring, count) = [i \in 1..0 |-> ring[(start + i - 1) % Capacity]]
    BY DEF Init, Taken
  <2>2. Taken(ring, count) = <<>>
    BY <2>1
  <2> QED
    BY <2>2 DEF Init, Unread
<1>5. StreamInv
  <2> DEFINE base == [k \in Nat |-> 0]
  <2>1. base \in [Nat -> Int]
    OBVIOUS
  <2>2. Len(pkgs) = 0 /\ Len(handled) = 0 /\ Len(Unread) = 0
    BY <1>4 DEF Init
  <2>3. Layout(base, Unread, Len(handled))
    BY <2>2 DEF Layout
  <2> QED
    BY <2>1, <2>2, <2>3 DEF StreamInv
<1> QED
  BY <1>1, <1>2, <1>3, <1>5 DEF IInv

\* A package the client sends comes behind everything that is unread.
LEMMA SendAppends ==
  ASSUME TypeOK, NEW t \in Types, NEW l \in Lens, Send(t, l)
  PROVE  /\ wire' \in Seq(Bytes) /\ Len(wire') = Len(wire) + l /\ Len(wire) \in Nat
         /\ Unread' \in Seq(Bytes) /\ Len(Unread') = Len(Unread) + l /\ Len(Unread) \in Nat
         /\ \A i \in 1..Len(Unread) : Unread'[i] = Unread[i]
         /\ \A o \in 1..l : Unread'[Len(Unread) + o] = <<Len(pkgs) + 1, o>>
<1> DEFINE new == [o \in 1..l |-> <<Len(pkgs) + 1, o>>]
<1>1. /\ l \in Nat /\ l < CmdPkgMax /\ CmdPkgMax \in Nat /\ Capacity \in Nat \ {0} /\ MaxPkgs \in Nat
      /\ Len(pkgs) \in Nat /\ Len(pkgs) + 1 \in 1..MaxPkgs
  BY Sizes, Counts, BoundsAssumption DEF Send
<1>2. new \in Seq(Bytes) /\ Len(new) = l /\ \A o \in 1..l : new[o] = <<Len(pkgs) + 1, o>>
  <2>1. \A o \in 1..l : o \in 1..CmdPkgMax
    BY <1>1
  <2>2. \A o \in 1..l : <<Len(pkgs) + 1, o>> \in Bytes
    BY <1>1, <2>1 DEF Bytes
  <2>3. new \in [1..l -> Bytes]
    BY <2>2
  <2> QED
    BY <1>1, <2>3, SeqDef, LenProperties
<1>3. /\ wire' = wire \o new /\ wire \in Seq(Bytes) /\ count \in Nat /\ start \in Nat
      /\ ring \in [0..(Capacity - 1) -> Bytes] /\ ring' = ring /\ count' = count /\ start' = start
  BY <1>1 DEF Send, TypeOK, bufVars
<1> HIDE DEF new
<1>4. /\ wire' \in Seq(Bytes) /\ Len(wire') = Len(wire) + l /\ Len(wire) \in Nat
      /\ \A i \in 1..(Len(wire) + l) : wire'[i] = IF i <= Len(wire) THEN wire[i] ELSE new[i - Len(wire)]
  <2>1. /\ wire \o new \in Seq(Bytes) /\ Len(wire \o new) = Len(wire) + Len(new)
        /\ \A i \in 1..(Len(wire) + Len(new)) :
             (wire \o new)[i] = IF i <= Len(wire) THEN wire[i] ELSE new[i - Len(wire)]
    BY <1>2, <1>3, ConcatProperties
  <2> QED
    BY <1>2, <1>3, <2>1, LenProperties
<1>5. /\ Unread \in Seq(Bytes) /\ Len(Unread) = count + Len(wire)
      /\ \A i \in 1..(count + Len(wire)) :
           Unread[i] = IF i <= count THEN ring[(start + i - 1) % Capacity] ELSE wire[i - count]
  BY <1>1, UnreadAt
<1>6. /\ Unread' \in Seq(Bytes) /\ Len(Unread') = count + Len(wire')
      /\ \A i \in 1..(count + Len(wire')) :
           Unread'[i] = IF i <= count THEN ring[(start + i - 1) % Capacity] ELSE wire'[i - count]
  <2>1. PICK w : w = wire'
    OBVIOUS
  <2>2. Unread' = Taken(ring, count) \o w
    BY <1>3, <2>1 DEF Unread, Taken
  <2>3. /\ Capacity > 0 /\ start \in Nat /\ count \in Nat /\ w \in Seq(Bytes)
        /\ ring \in [0..(Capacity - 1) -> Bytes]
    BY <1>1, <1>3, <1>4, <2>1
  <2>4. /\ Taken(ring, count) \o w \in Seq(Bytes) /\ Len(Taken(ring, count) \o w) = count + Len(w)
        /\ \A i \in 1..(count + Len(w)) :
             (Taken(ring, count) \o w)[i] = IF i <= count THEN ring[(start + i - 1) % Capacity] ELSE w[i - count]
    BY ONLY <2>3, JoinAt
  <2> QED
    BY <2>1, <2>2, <2>4
<1>7. Len(Unread) \in Nat /\ Len(Unread') = Len(Unread) + l
  BY <1>1, <1>3, <1>4, <1>5, <1>6
<1>8. ASSUME NEW i \in 1..Len(Unread) PROVE Unread'[i] = Unread[i]
  <2>1. i \in 1..(count + Len(wire)) /\ i \in 1..(count + Len(wire'))
    <3>1. /\ Len(Unread) = count + Len(wire) /\ Len(wire') = Len(wire) + l
          /\ Len(wire) \in Nat /\ count \in Nat /\ l \in Nat
      BY <1>1, <1>3, <1>4, <1>5
    <3> QED
      BY <3>1
  <2>2. CASE i <= count
    BY <1>5, <1>6, <2>1, <2>2
  <2>3. CASE ~(i <= count)
    <3>1. i - count \in 1..(Len(wire) + l) /\ i - count <= Len(wire)
      BY <1>1, <1>3, <1>4, <2>1, <2>3
    <3>2. wire'[i - count] = wire[i - count]
      BY <1>4, <3>1
    <3> QED
      BY <1>5, <1>6, <2>1, <2>3, <3>2
  <2> QED
    BY <2>2, <2>3
<1>9. ASSUME NEW o \in 1..l PROVE Unread'[Len(Unread) + o] = <<Len(pkgs) + 1, o>>
  <2> DEFINE i == Len(Unread) + o
  <2>1. /\ i \in 1..(count + Len(wire')) /\ ~(i <= count)
        /\ i - count \in 1..(Len(wire) + l) /\ ~(i - count <= Len(wire)) /\ (i - count) - Len(wire) = o
    BY <1>1, <1>3, <1>4, <1>5
  <2> HIDE DEF i
  <2>2. Unread'[i] = wire'[i - count]
    BY <1>6, <2>1
  <2>3. wire'[i - count] = new[o]
    BY <1>4, <2>1
  <2> QED
    BY <1>2, <2>2, <2>3 DEF i
<1> QED
  BY <1>4, <1>6, <1>7, <1>8, <1>9

\* After a Send the unread bytes are the packages that waited and the new one.
LEMMA SendLayout ==
  ASSUME TypeOK, StreamInv, NEW t \in Types, NEW l \in Lens, Send(t, l)
  PROVE  StreamInv'
<1>1. PICK n, h, u, v : n = Len(pkgs) /\ h = Len(handled) /\ u = Unread /\ v = Unread'
  OBVIOUS
<1>2. PICK base \in [Nat -> Int] : Layout(base, u, h)
  BY <1>1 DEF StreamInv
<1>3. n \in Nat /\ h \in Nat /\ h <= n /\ l \in Nat /\ l >= 3
  BY <1>1, Counts, Sizes DEF StreamInv
<1>4. /\ pkgs \in Seq([type : Types, len : Lens]) /\ [type |-> t, len |-> l] \in [type : Types, len : Lens]
      /\ pkgs' = Append(pkgs, [type |-> t, len |-> l]) /\ handled' = handled
  BY DEF Send, TypeOK
<1>5. Len(pkgs') = n + 1 /\ Len(handled') = h
  BY <1>1, <1>4, AppendProperties
<1>6. /\ \A k \in 1..n : PkgLen(k)' = PkgLen(k)
      /\ PkgLen(n + 1)' = l
  <2>1. (\A k \in 1..n : pkgs'[k] = pkgs[k]) /\ pkgs'[n + 1] = [type |-> t, len |-> l]
    BY <1>1, <1>4, AppendProperties
  <2> QED
    BY <2>1 DEF PkgLen
<1>7. Len(v) = Len(u) + l /\ Len(u) \in Nat
  BY <1>1, SendAppends
<1>8. (\A i \in 1..Len(u) : v[i] = u[i]) /\ \A o \in 1..l : v[Len(u) + o] = <<n + 1, o>>
  BY <1>1, SendAppends
<1>9. base[h + 1] = 0 /\ base[n + 1] = Len(u) /\ \A k \in (h + 1)..n : base[k + 1] = base[k] + PkgLen(k)
  BY <1>1, <1>2 DEF Layout
<1>10. \A k \in (h + 1)..n : \A o \in 1..PkgLen(k) : base[k] + o \in 1..Len(u) /\ u[base[k] + o] = <<k, o>>
  BY <1>1, <1>2 DEF Layout
<1>11. \A i \in 1..Len(u) : \E k \in (h + 1)..n : \E o \in 1..PkgLen(k) : i = base[k] + o
  BY <1>1, <1>2 DEF Layout
<1>12. PICK nbase \in [Nat -> Int] : /\ nbase[(n + 1) + 1] = Len(v)
                                      /\ \A k \in Nat : k # (n + 1) + 1 => nbase[k] = base[k]
  <2> DEFINE f == [k \in Nat |-> IF k = (n + 1) + 1 THEN Len(v) ELSE base[k]]
  <2>1. f \in [Nat -> Int] /\ f[(n + 1) + 1] = Len(v) /\ \A k \in Nat : k # (n + 1) + 1 => f[k] = base[k]
    BY <1>3, <1>7
  <2> QED
    BY <2>1
<1>13. nbase[h + 1] = 0 /\ nbase[n + 1] = Len(u)
  <2>1. h + 1 \in Nat /\ h + 1 # (n + 1) + 1 /\ n + 1 \in Nat /\ n + 1 # (n + 1) + 1
    BY <1>3
  <2> QED
    BY <1>9, <1>12, <2>1
<1>14. ASSUME NEW k \in (h + 1)..(n + 1), k # n + 1
       PROVE  k \in (h + 1)..n /\ nbase[k] = base[k] /\ nbase[k + 1] = base[k + 1] /\ PkgLen(k)' = PkgLen(k)
  <2>1. k \in (h + 1)..n /\ k \in Nat /\ k + 1 \in Nat /\ k # (n + 1) + 1 /\ k + 1 # (n + 1) + 1 /\ k \in 1..n
    BY <1>3, <1>14
  <2> QED
    BY <1>6, <1>12, <2>1
<1>15. ASSUME NEW k \in (h + 1)..(n + 1) PROVE nbase[k + 1] = nbase[k] + PkgLen(k)'
  <2>1. CASE k = n + 1
    <3>1. nbase[k + 1] = Len(v) /\ nbase[k] = Len(u) /\ PkgLen(k)' = l
      BY <1>6, <1>12, <1>13, <2>1
    <3> QED
      BY <1>7, <3>1
  <2>2. CASE k # n + 1
    BY <1>9, <1>14, <2>2
  <2> QED
    BY <2>1, <2>2
<1>16. ASSUME NEW k \in (h + 1)..(n + 1), NEW o \in 1..PkgLen(k)'
       PROVE  nbase[k] + o \in 1..Len(v) /\ v[nbase[k] + o] = <<k, o>>
  <2>1. CASE k = n + 1
    <3>1. nbase[k] = Len(u) /\ PkgLen(k)' = l /\ o \in 1..l
      BY <1>6, <1>13, <2>1
    <3>2. Len(u) + o \in 1..Len(v)
      BY <1>3, <1>7, <3>1
    <3> QED
      BY <1>8, <2>1, <3>1, <3>2
  <2>2. CASE k # n + 1
    <3>1. nbase[k] = base[k] /\ base[k] + o \in 1..Len(u) /\ u[base[k] + o] = <<k, o>>
      BY <1>10, <1>14, <2>2
    <3>2. base[k] + o \in 1..Len(v)
      <4>1. \A p \in 1..Len(u) : p \in 1..Len(v)
        BY <1>3, <1>7
      <4> QED
        BY <3>1, <4>1
    <3> QED
      BY <1>8, <3>1, <3>2
  <2> QED
    BY <2>1, <2>2
<1>17. ASSUME NEW i \in 1..Len(v) PROVE \E k \in (h + 1)..(n + 1) : \E o \in 1..PkgLen(k)' : i = nbase[k] + o
  <2>1. CASE i \in 1..Len(u)
    <3>1. PICK k \in (h + 1)..n : \E o \in 1..PkgLen(k) : i = base[k] + o
      BY <1>11, <2>1
    <3>2. k \in (h + 1)..(n + 1) /\ k # n + 1
      BY <1>3
    <3>3. nbase[k] = base[k] /\ PkgLen(k)' = PkgLen(k)
      BY <1>14, <3>2
    <3> QED
      BY <3>1, <3>2, <3>3
  <2>2. CASE i \notin 1..Len(u)
    <3>1. PICK o : o = i - Len(u)
      OBVIOUS
    <3>2. o \in 1..l /\ i = Len(u) + o /\ n + 1 \in (h + 1)..(n + 1)
      BY <1>3, <1>7, <2>2, <3>1
    <3>3. PkgLen(n + 1)' = l /\ nbase[n + 1] = Len(u)
      BY <1>6, <1>13
    <3> QED
      BY <3>2, <3>3
  <2> QED
    BY <2>1, <2>2
<1>18. Layout(nbase, Unread, Len(handled))'
  <2>1. PICK g, m : g = Len(handled') /\ m = Len(pkgs')
    OBVIOUS
  <2>2. /\ nbase[g + 1] = 0 /\ nbase[m + 1] = Len(v)
        /\ \A k \in (g + 1)..m : nbase[k + 1] = nbase[k] + PkgLen(k)'
        /\ \A k \in (g + 1)..m : \A o \in 1..PkgLen(k)' : nbase[k] + o \in 1..Len(v) /\ v[nbase[k] + o] = <<k, o>>
        /\ \A i \in 1..Len(v) : \E k \in (g + 1)..m : \E o \in 1..PkgLen(k)' : i = nbase[k] + o
    <3>1. g = h /\ m = n + 1
      BY <1>5, <2>1
    <3> QED
      BY <1>12, <1>13, <1>15, <1>16, <1>17, <3>1, Zenon
  <2> QED
    BY <1>1, <2>1, <2>2, Zenon DEF Layout
<1>19. Len(handled') <= Len(pkgs')
  BY <1>3, <1>5
<1> QED
  BY <1>12, <1>18, <1>19 DEF StreamInv

\* The length is found in a header that was read whole.
LEMMA HeaderRead ==
  ASSUME TypeOK, NEW k \in 1..Len(pkgs), NEW q, Len(q) = 3, q[2] = <<k, 2>>, q[3] = <<k, 3>>
  PROVE  PkgLens(q) = {PkgLen(k)}
<1> DEFINE l  == PkgLen(k)
           hi == l \div Base
           lo == l % Base
<1>1. l \in Nat /\ Base \in Nat \ {0} /\ Len(pkgs) \in Nat
  BY Counts, Sizes
<1>2. Values(q[2]) = {hi} /\ Values(q[3]) = {lo}
  <2>1. q[2] # Garbage /\ q[3] # Garbage
    BY <1>1 DEF Garbage
  <2>2. q[2][1] = k /\ q[2][2] = 2 /\ q[3][1] = k /\ q[3][2] = 3
    OBVIOUS
  <2> QED
    BY <2>1, <2>2 DEF Values, PkgLen
<1>3. hi * Base + lo = l
  <2> HIDE DEF l
  <2>1. l \in Int
    BY <1>1
  <2>2. l = Base * hi + lo /\ hi \in Int /\ lo \in 0..(Base - 1)
    BY <1>1, <2>1, DivMod, Zenon
  <2> HIDE DEF hi, lo
  <2> QED
    BY <1>1, <2>2
<1> HIDE DEF l, hi, lo
<1>4. PkgLens(q) = {x * Base + y : x \in {hi}, y \in {lo}}
  BY <1>2 DEF PkgLens
<1> QED
  BY <1>3, <1>4 DEF l

\* The bytes of a package are recognised as that package.
LEMMA WholePackage ==
  ASSUME TypeOK, NEW k \in 1..Len(pkgs), NEW q, Len(q) = PkgLen(k), \A o \in 1..PkgLen(k) : q[o] = <<k, o>>
  PROVE  PackageOf(q) = k
<1>1. PkgLen(k) \in Nat /\ PkgLen(k) >= 3 /\ k > 0
  BY Counts
<1>2. 1 \in 1..PkgLen(k)
  BY <1>1
<1>3. q[1] = <<k, 1>>
  BY <1>2
<1>4. q[1][1] = k
  BY <1>3
<1> QED
  BY <1>1, <1>4 DEF PackageOf, PkgLen

\* Sending keeps the invariant: the client's window leaves room.
LEMMA SendInv ==
  ASSUME ClientRules, IInv, NEW t \in Types, NEW l \in Lens, Send(t, l)
  PROVE  IInv'
<1>1. /\ wire' \in Seq(Bytes) /\ Len(wire') = Len(wire) + l /\ Len(wire) \in Nat
  BY SendAppends DEF IInv
<1>2. UNCHANGED <<ring, start, end, count, handled, open>> /\ count + Len(wire) + l <= Window /\ Len(pkgs) < MaxPkgs
  BY DEF Send, bufVars
<1>3. StreamInv'
  BY SendLayout DEF IInv
<1>4. BufInv'
  <2>1. /\ count \in Nat /\ l \in Nat /\ Window \in Nat /\ Capacity \in Nat /\ Window <= Capacity
        /\ end = start + count
    BY Sizes, BoundsAssumption DEF ClientRules, IInv, TypeOK, BufInv
  <2>2. count + Len(wire') <= Capacity
    BY <1>1, <1>2, <2>1
  <2> QED
    BY <1>2, <2>1, <2>2 DEF BufInv
<1>5. TypeOK'
  <2>1. pkgs' \in Seq([type : Types, len : Lens]) /\ Len(pkgs') = Len(pkgs) + 1 /\ Len(pkgs) \in Nat
    <3>1. pkgs \in Seq([type : Types, len : Lens]) /\ [type |-> t, len |-> l] \in [type : Types, len : Lens]
      BY DEF IInv, TypeOK
    <3> QED
      BY <3>1, AppendProperties, LenProperties DEF Send
  <2>2. Len(pkgs') <= MaxPkgs
    BY <1>2, <2>1, BoundsAssumption
  <2> QED
    BY <1>1, <1>2, <2>1, <2>2 DEF IInv, TypeOK
<1>6. HandledInOrder'
  BY <1>2 DEF IInv, HandledInOrder
<1> QED
  BY <1>3, <1>4, <1>5, <1>6 DEF IInv

\* What is unread does not depend on whether the connection is open.
LEMMA SameInv ==
  ASSUME IInv, UNCHANGED <<pkgs, wire, ring, start, end, count, handled>>, open' \in BOOLEAN
  PROVE  IInv'
<1>1. TypeOK' /\ BufInv' /\ HandledInOrder'
  BY DEF IInv, TypeOK, BufInv, HandledInOrder
<1>2. StreamInv'
  <2>1. Unread' = Unread
    BY DEF Unread, Taken
  <2>2. PICK base \in [Nat -> Int] : Layout(base, Unread, Len(handled))
    BY DEF IInv, StreamInv
  <2>3. Layout(base, Unread, Len(handled))'
    BY <2>1, <2>2, Zenon DEF Layout, PkgLen
  <2> QED
    BY <2>3 DEF IInv, StreamInv
<1> QED
  BY <1>1, <1>2 DEF IInv

\* A turn of the loop after Recv: add stores all n bytes (ring b, rest of the
\* wire w, size c), at least a header is there, and its length is read.
LEMMA RecvReads ==
  ASSUME ClientRules, IInv, NEW n, Recv(n)
  PROVE  \E b \in [0..(Capacity - 1) -> Bytes], w \in Seq(Bytes) :
           LET c == count + n
               k == Len(handled) + 1
           IN  /\ Capacity > 0 /\ c \in Nat /\ c + Len(w) <= Capacity /\ Len(w) \in Nat
               /\ Taken(b, c) \o w = Unread
               /\ ring' = b /\ wire' = w /\ end' = start + c
               /\ k \in 1..Len(pkgs) /\ PkgLen(k) <= Len(Unread)
               /\ \A o \in 1..PkgLen(k) : Unread[o] = <<k, o>>
               /\ IF Complete(c, PkgLen(k))
                  THEN Handle(b, start + c, c, PkgLen(k))
                  ELSE count' = c /\ UNCHANGED <<start, handled>>
<1>1. PICK b, w, c, h : /\ b = Written(SubSeq(wire, 1, n), n) /\ w = SubSeq(wire, n + 1, Len(wire))
                        /\ c = count + n /\ h = Len(handled)
  OBVIOUS
<1>2. /\ n \in 1..Len(wire) /\ n <= CmdPkgMax /\ TypeOK /\ BufInv /\ Len(wire) \in Nat /\ n \in Nat /\ n > 0
      /\ count \in Nat /\ start \in Nat /\ end = start + count /\ count + Len(wire) <= Capacity
  <2>1. wire \in Seq(Bytes) /\ n \in 1..Len(wire) /\ n <= CmdPkgMax
    BY DEF Recv, IInv, TypeOK
  <2>2. Len(wire) \in Nat
    BY <2>1, LenProperties
  <2> QED
    BY <2>1, <2>2, Sizes DEF IInv, BufInv, TypeOK
<1>3. Capacity \in Nat /\ Capacity > 0 /\ c \in Nat /\ c >= 1 /\ c <= Capacity /\ end + n = start + c
  BY <1>1, <1>2, Sizes
<1>4. /\ b \in [0..(Capacity - 1) -> Bytes] /\ w \in Seq(Bytes) /\ Len(w) = Len(wire) - n
      /\ \A i \in 1..Len(w) : w[i] = wire[n + i]
      /\ Taken(b, c) \o w = Unread
  BY <1>1, <1>2, RingKeeps
<1>5. Copied(end, n, start) = n
  <2>1. count + n <= Capacity
    BY <1>1, <1>3
  <2> QED
    BY <1>2, <2>1, AddsAll
<1>6. /\ ring' = b /\ wire' = w /\ end' = start + c
      /\ \E len \in PkgLens(Taken(b, Copied(start, 3, start + c))) :
           IF Complete(c, len) THEN Handle(b, start + c, c, len) ELSE count' = c /\ UNCHANGED <<start, handled>>
  BY <1>1, <1>3, <1>5 DEF Recv, HEADER
<1>7. /\ Unread \in Seq(Bytes) /\ Len(Unread) = c + Len(w) /\ Len(w) \in Nat
      /\ \A i \in 1..(c + Len(w)) : Unread[i] = IF i <= c THEN b[(start + i - 1) % Capacity] ELSE w[i - c]
  <2>1. /\ Taken(b, c) \o w \in Seq(Bytes) /\ Len(Taken(b, c) \o w) = c + Len(w) /\ Len(w) \in Nat
        /\ \A i \in 1..(c + Len(w)) :
             (Taken(b, c) \o w)[i] = IF i <= c THEN b[(start + i - 1) % Capacity] ELSE w[i - c]
    BY <1>2, <1>3, <1>4, JoinAt
  <2> QED
    BY <1>4, <2>1
<1>8. c + Len(w) = count + Len(wire)
  <2>1. Len(w) = Len(wire) - n /\ c = count + n
    BY <1>1, <1>4
  <2> QED
    BY <1>2, <2>1
<1>9. PICK k, l : k = h + 1 /\ l = PkgLen(k)
  OBVIOUS
<1>10. k \in 1..Len(pkgs) /\ l <= Len(Unread) /\ \A o \in 1..l : Unread[o] = <<k, o>>
  <2>1. PICK base \in [Nat -> Int] : Layout(base, Unread, h)
    BY <1>1 DEF IInv, StreamInv
  <2>2. h \in Nat /\ h <= Len(pkgs) /\ Len(Unread) > 0
    <3>1. h \in Nat /\ h <= Len(pkgs)
      BY <1>1, <1>2, Counts DEF IInv, StreamInv
    <3>2. Len(Unread) > 0
      BY <1>3, <1>7
    <3> QED
      BY <3>1, <3>2
  <2>3. /\ h + 1 \in 1..Len(pkgs) /\ PkgLen(h + 1) <= Len(Unread)
        /\ \A o \in 1..PkgLen(h + 1) : Unread[o] = <<h + 1, o>>
    BY <1>2, <1>7, <2>1, <2>2, HeadPackage
  <2> QED
    BY <1>9, <2>3, Zenon
<1>11. l \in Nat /\ l >= 3
  BY <1>2, <1>9, <1>10, Counts
<1>12. c >= 3
  <2> SUFFICES ASSUME c < 3 PROVE FALSE
    BY <1>3
  <2>1. c + 1 \in 1..l /\ c + 1 \in 2..3 /\ c + 1 \in 1..(c + Len(w)) /\ ~(c + 1 <= c) /\ 1 \in 1..Len(w)
    <3>1. l <= c + Len(w) /\ Len(w) \in Nat
      BY <1>7, <1>10
    <3> QED
      BY <1>3, <1>11, <3>1
  <2>2. Unread[c + 1] = w[(c + 1) - c]
    BY <1>7, <2>1
  <2>3. (c + 1) - c = 1 /\ n < Len(wire)
    <3>1. c \in Nat /\ n \in Nat /\ Len(wire) \in Nat
      BY ONLY <1>2, <1>3
    <3>2. Len(w) = Len(wire) - n /\ 1 \in 1..Len(w)
      BY ONLY <1>4, <2>1
    <3> QED
      BY ONLY <3>1, <3>2
  <2>4. w[1] = <<k, c + 1>>
    BY <1>10, <2>1, <2>2, <2>3
  <2>5. wire[n + 1] = <<k, c + 1>>
    BY <1>4, <2>1, <2>4
  <2>6. wire[n + 1][2] \in 2..3
    BY <2>1, <2>5
  <2>7. CutsHeader(n)
    BY <2>3, <2>6 DEF CutsHeader, HEADER
  <2> QED
    BY <2>7 DEF Recv, ClientRules
<1>13. Copied(start, 3, start + c) = 3
  <2>1. 3 \in 0..c /\ start + c \in Nat
    BY <1>2, <1>3, <1>12
  <2> QED
    BY <1>2, <1>3, <2>1, ReadsAll
<1>14. PkgLens(Taken(b, 3)) = {l}
  <2> DEFINE q == Taken(b, 3)
  <2>1. q = BytesFrom(b, start, 3)
    BY DEF Taken, BytesFrom
  <2>2. Len(q) = 3 /\ \A i \in 1..3 : q[i] = b[(start + i - 1) % Capacity]
    <3>1. b \in [0..(Capacity - 1) -> Bytes] /\ start \in Nat /\ 3 \in Nat /\ Capacity > 0
      BY <1>2, <1>3, <1>4
    <3>2. /\ Len(BytesFrom(b, start, 3)) = 3
          /\ \A i \in 1..3 : BytesFrom(b, start, 3)[i] = b[(start + i - 1) % Capacity]
      BY <3>1, BytesFromSeq, Zenon
    <3> QED
      BY <2>1, <3>2, Zenon
  <2> HIDE DEF q
  <2>3. 2 \in 1..(c + Len(w)) /\ 2 <= c /\ 3 \in 1..(c + Len(w)) /\ 3 <= c /\ 2 \in 1..l /\ 3 \in 1..l
    BY <1>3, <1>7, <1>11, <1>12
  <2>4. q[2] = Unread[2] /\ q[3] = Unread[3]
    BY <1>7, <2>2, <2>3
  <2>5. q[2] = <<k, 2>> /\ q[3] = <<k, 3>>
    BY <1>10, <2>3, <2>4
  <2>6. PkgLens(q) = {PkgLen(k)}
    BY <1>2, <1>10, <2>2, <2>5, HeaderRead
  <2> QED
    BY <1>9, <2>6 DEF q
<1>15. IF Complete(c, l) THEN Handle(b, start + c, c, l) ELSE count' = c /\ UNCHANGED <<start, handled>>
  <2>1. \E len \in {l} :
          IF Complete(c, len) THEN Handle(b, start + c, c, len) ELSE count' = c /\ UNCHANGED <<start, handled>>
    BY <1>6, <1>13, <1>14
  <2> QED
    BY <2>1
<1>16. c + Len(w) <= Capacity
  BY <1>2, <1>8
<1> HIDE DEF Handle
<1> QED
  BY <1>1, <1>3, <1>4, <1>6, <1>7, <1>9, <1>10, <1>15, <1>16, Zenon

\* Layout depends only on the packages sent.
LEMMA LayoutSame ==
  ASSUME NEW base, NEW u, NEW h, UNCHANGED pkgs, Layout(base, u, h)
  PROVE  Layout(base, u, h)'
BY Zenon DEF Layout, PkgLen

\* A turn of the loop keeps the invariant.
LEMMA RecvInv ==
  ASSUME ClientRules, IInv, NEW n, Recv(n)
  PROVE  IInv'
<1>1. PICK c, k, l, h : c = count + n /\ k = h + 1 /\ l = PkgLen(k) /\ h = Len(handled)
  OBVIOUS
<1>2. PICK b \in [0..(Capacity - 1) -> Bytes], w \in Seq(Bytes) :
        /\ Capacity > 0 /\ c \in Nat /\ c + Len(w) <= Capacity /\ Len(w) \in Nat
        /\ Taken(b, c) \o w = Unread
        /\ ring' = b /\ wire' = w /\ end' = start + c
        /\ k \in 1..Len(pkgs) /\ l <= Len(Unread)
        /\ \A o \in 1..l : Unread[o] = <<k, o>>
        /\ IF Complete(c, l) THEN Handle(b, start + c, c, l) ELSE count' = c /\ UNCHANGED <<start, handled>>
  BY <1>1, RecvReads, Zenon
<1>3. UNCHANGED <<pkgs, open>>
  BY DEF Recv
<1>4. TypeOK /\ start \in Nat /\ h \in Nat /\ l \in Nat /\ l >= 3 /\ Capacity \in Nat /\ MaxPkgs \in Nat
  BY <1>1, <1>2, Counts, Sizes, BoundsAssumption DEF IInv, TypeOK
<1>5. /\ Capacity > 0 /\ c \in Nat /\ c + Len(w) <= Capacity /\ Len(w) \in Nat /\ start \in Nat
      /\ b \in [0..(Capacity - 1) -> Bytes] /\ w \in Seq(Bytes) /\ l \in Nat /\ l >= 3 /\ Capacity \in Nat
  BY <1>2, <1>4
<1>6. PICK base \in [Nat -> Int] : Layout(base, Unread, h)
  BY <1>1 DEF IInv, StreamInv
<1>7. CASE ~Complete(c, l)
  <2>1. count' = c /\ UNCHANGED <<start, handled>>
    BY <1>2, <1>7
  <2>2. TypeOK'
    <3>1. c \in 0..Capacity /\ start + c \in Nat
      BY <1>5
    <3> QED
      BY <1>2, <1>3, <2>1, <3>1 DEF IInv, TypeOK
  <2>3. BufInv' /\ HandledInOrder'
    BY <1>2, <2>1 DEF IInv, BufInv, HandledInOrder
  <2>4. Unread' = Unread
    BY <1>2, <2>1 DEF Unread, Taken
  <2>5. StreamInv'
    <3>1. PICK u : u = Unread
      OBVIOUS
    <3>2. Layout(base, u, h)'
      BY <1>3, <1>6, <3>1, LayoutSame
    <3>3. u = Unread' /\ h = Len(handled') /\ Len(handled') <= Len(pkgs')
      BY <1>1, <1>3, <2>1, <2>4, <3>1 DEF IInv, StreamInv
    <3> QED
      BY <3>2, <3>3, Zenon DEF StreamInv
  <2> QED
    BY <2>2, <2>3, <2>5 DEF IInv
<1>8. CASE Complete(c, l)
  <2>1. l <= c /\ l # 0 /\ Handle(b, start + c, c, l)
    BY <1>2, <1>4, <1>8 DEF Complete
  <2>2. Copied(start, l, start + c) = l
    <3>1. l \in 0..c /\ start + c \in Nat
      BY <1>5, <2>1
    <3> QED
      BY <1>5, <3>1, ReadsAll
  <2>3. start' = start + l /\ count' = c - l /\ handled' = Append(handled, PackageOf(Taken(b, l)))
    BY <2>1, <2>2 DEF Handle
  <2>4. /\ Unread \in Seq(Bytes) /\ Len(Unread) = c + Len(w)
        /\ \A i \in 1..(c + Len(w)) : Unread[i] = IF i <= c THEN b[(start + i - 1) % Capacity] ELSE w[i - c]
    <3>1. /\ Taken(b, c) \o w \in Seq(Bytes) /\ Len(Taken(b, c) \o w) = c + Len(w)
          /\ \A i \in 1..(c + Len(w)) :
               (Taken(b, c) \o w)[i] = IF i <= c THEN b[(start + i - 1) % Capacity] ELSE w[i - c]
      BY <1>5, JoinAt, ZenonT(30)
    <3> QED
      BY <1>2, <3>1
  <2>5. PackageOf(Taken(b, l)) = k
    <3> DEFINE q == Taken(b, l)
    <3>1. q = BytesFrom(b, start, l)
      BY DEF Taken, BytesFrom
    <3>2. Len(q) = l /\ \A i \in 1..l : q[i] = b[(start + i - 1) % Capacity]
      <4>1. /\ Len(BytesFrom(b, start, l)) = l
            /\ \A i \in 1..l : BytesFrom(b, start, l)[i] = b[(start + i - 1) % Capacity]
        BY <1>2, <1>4, BytesFromSeq, Zenon
      <4> QED
        BY <3>1, <4>1, Zenon
    <3> HIDE DEF q
    <3>3. ASSUME NEW o \in 1..l PROVE q[o] = <<k, o>>
      <4>1. o \in 1..(c + Len(w)) /\ o <= c
        BY <1>5, <2>1
      <4>2. q[o] = Unread[o]
        BY <2>4, <3>2, <4>1
      <4> QED
        BY <1>2, <4>2
    <3>4. PackageOf(q) = k
      BY <1>1, <1>2, <1>4, <3>2, <3>3, WholePackage
    <3> QED
      BY <3>4 DEF q
  <2>6. /\ handled' = Append(handled, k) /\ handled \in Seq(0..MaxPkgs) /\ k \in 0..MaxPkgs
        /\ handled' \in Seq(0..MaxPkgs) /\ Len(handled') = k
        /\ (\A i \in 1..h : handled'[i] = handled[i]) /\ handled'[k] = k
    <3>1. handled' = Append(handled, k) /\ handled \in Seq(0..MaxPkgs) /\ k \in 0..MaxPkgs
      <4>1. Len(pkgs) \in Nat /\ Len(pkgs) <= MaxPkgs
        BY <1>4, Counts DEF TypeOK
      <4> QED
        BY <1>2, <1>4, <2>3, <2>5, <4>1, SMTT(30) DEF TypeOK
    <3> QED
      BY <1>1, <3>1, AppendProperties
  <2>7. TypeOK'
    <3>1. c - l \in 0..Capacity /\ start + l \in Nat /\ start + c \in Nat
      BY <1>5, <2>1
    <3> QED
      BY <1>2, <1>3, <2>3, <2>6, <3>1 DEF IInv, TypeOK
  <2>8. BufInv'
    <3>1. start + c = (start + l) + (c - l) /\ (c - l) + Len(w) <= Capacity
      BY <1>5, <2>1
    <3> QED
      BY <1>2, <2>3, <3>1 DEF BufInv
  <2>9. HandledInOrder'
    <3>1. ASSUME NEW i \in 1..k PROVE handled'[i] = i
      <4>1. i \in 1..h \/ i = k
        BY <1>1, <1>4
      <4> QED
        BY <1>1, <2>6, <4>1 DEF IInv, HandledInOrder
    <3> QED
      BY <2>6, <3>1 DEF HandledInOrder
  <2>10. PICK s, m : s = start + l /\ m = c - l /\ s \in Nat /\ m \in Nat
    BY <1>5, <2>1, SMTT(30)
  <2>11. PICK u, v : u = Unread /\ v = BytesFrom(b, s, m) \o w
    OBVIOUS
  <2>12. Unread' = v
    BY <1>2, <2>3, <2>10, <2>11 DEF Unread, Taken, BytesFrom
  <2>13. v \in Seq(Bytes) /\ IsRest(v, u, l)
    <3>1. /\ v \in Seq(Bytes) /\ Len(v) = m + Len(w)
          /\ \A i \in 1..(m + Len(w)) : v[i] = IF i <= m THEN b[(s + i - 1) % Capacity] ELSE w[i - m]
      <4>1. /\ BytesFrom(b, s, m) \o w \in Seq(Bytes) /\ Len(BytesFrom(b, s, m) \o w) = m + Len(w)
            /\ \A i \in 1..(m + Len(w)) :
                 (BytesFrom(b, s, m) \o w)[i] = IF i <= m THEN b[(s + i - 1) % Capacity] ELSE w[i - m]
        <5>1. /\ s \in Nat /\ m \in Nat /\ w \in Seq(Bytes) /\ Capacity > 0
              /\ b \in [0..(Capacity - 1) -> Bytes]
          BY <1>5, <2>10
        <5> QED
          BY ONLY <5>1, JoinFrom
      <4> QED
        BY <2>11, <4>1
    <3>2. Len(v) = Len(u) - l
      <4>1. Len(v) = m + Len(w) /\ Len(u) = c + Len(w) /\ Len(w) \in Nat /\ c \in Nat
        BY <1>2, <2>4, <2>11, <3>1
      <4> QED
        BY <1>4, <2>10, <4>1
    <3>3. ASSUME NEW i \in 1..Len(v) PROVE v[i] = u[l + i]
      <4>1. /\ i \in 1..(m + Len(w)) /\ l + i \in 1..(c + Len(w)) /\ i \in Int
            /\ (i <= m <=> l + i <= c) /\ s + i - 1 = start + (l + i) - 1 /\ i - m = (l + i) - c
        <5>1. i \in 1..(m + Len(w)) /\ Len(w) \in Nat /\ c \in Nat
          BY <1>2, <3>1
        <5> QED
          BY <1>4, <2>10, <5>1
      <4>2. v[i] = IF i <= m THEN b[(s + i - 1) % Capacity] ELSE w[i - m]
        BY <3>1, <4>1
      <4>3. u[l + i] = IF l + i <= c THEN b[(start + (l + i) - 1) % Capacity] ELSE w[(l + i) - c]
        BY <2>4, <2>11, <4>1
      <4> QED
        BY <4>1, <4>2, <4>3
    <3> QED
      BY <3>1, <3>2, <3>3 DEF IsRest
  <2>14. PICK nbase \in [Nat -> Int] : Layout(nbase, v, k)
    <3>1. u \in Seq(Bytes) /\ Layout(base, u, h) /\ l <= Len(u) /\ h + 1 \in 1..Len(pkgs) /\ l = PkgLen(h + 1)
      BY <1>1, <1>2, <1>6, <2>4, <2>11
    <3>2. \E nbase \in [Nat -> Int] : Layout(nbase, v, h + 1)
      BY <1>4, <2>13, <3>1, DropPackage
    <3> QED
      BY <1>1, <3>2
  <2>15. StreamInv'
    <3>1. Layout(nbase, v, k)'
      BY <1>3, <2>14, LayoutSame
    <3>2. v = Unread' /\ k = Len(handled') /\ Len(handled') <= Len(pkgs')
      <4>1. k <= Len(pkgs)
        BY <1>2
      <4> QED
        BY <1>3, <2>6, <2>12, <4>1
    <3> QED
      BY <3>1, <3>2, Zenon DEF StreamInv
  <2> QED
    BY <2>7, <2>8, <2>9, <2>15 DEF IInv
<1> QED
  BY <1>7, <1>8

\* Every step keeps the invariant.
LEMMA NextIInv == ASSUME ClientRules PROVE IInv /\ [Next]_vars => IInv'
<1> SUFFICES ASSUME IInv, [Next]_vars PROVE IInv'
  OBVIOUS
<1>1. CASE UNCHANGED vars
  <2>1. UNCHANGED <<pkgs, wire, ring, start, end, count, handled>> /\ open' \in BOOLEAN
    BY <1>1 DEF vars, bufVars, IInv, TypeOK
  <2> QED
    BY <2>1, SameInv
<1>2. CASE CloseConnection
  <2>1. UNCHANGED <<pkgs, wire, ring, start, end, count, handled>> /\ open' \in BOOLEAN
    BY <1>2 DEF CloseConnection, bufVars
  <2> QED
    BY <2>1, SameInv
<1>3. ASSUME NEW t \in Types, NEW l \in Lens, Send(t, l) PROVE IInv'
  BY <1>3, SendInv
<1>4. ASSUME NEW n \in 1..CmdPkgMax, Recv(n) PROVE IInv'
  BY <1>4, RecvInv
<1> QED
  BY <1>1, <1>2, <1>3, <1>4 DEF Next

\* The invariant holds in every reachable state.
LEMMA Invariance == ClientRules => (Spec => []IInv)
<1> SUFFICES ASSUME ClientRules PROVE Spec => []IInv
  OBVIOUS
<1> QED
  BY InitIInv, NextIInv, PTL DEF Spec

-----------------------------------------------------------------------------
(* The theorems *)

\* What is unread, described byte by byte.
LEMMA LayoutComplete == IInv => NothingLost
<1> SUFFICES ASSUME IInv PROVE NothingLost
  OBVIOUS
<1>1. PICK n, h, u : n = Len(pkgs) /\ h = Len(handled) /\ u = Unread
  OBVIOUS
<1>2. PICK base \in [Nat -> Int] : Layout(base, u, h)
  BY <1>1 DEF IInv, StreamInv
<1>3. TypeOK /\ n \in Nat /\ h \in Nat /\ h <= n /\ \A k \in 1..n : PkgLen(k) \in Nat /\ PkgLen(k) >= 3
  BY <1>1, Counts DEF IInv, StreamInv
<1>4. base[h + 1] = 0 /\ base[n + 1] = Len(u) /\ \A k \in (h + 1)..n : base[k + 1] = base[k] + PkgLen(k)
  BY <1>1, <1>2 DEF Layout
<1>5. \A k \in (h + 1)..n : \A o \in 1..PkgLen(k) : base[k] + o \in 1..Len(u) /\ u[base[k] + o] = <<k, o>>
  BY <1>1, <1>2 DEF Layout
<1>6. \A i \in 1..Len(u) : \E k \in (h + 1)..n : \E o \in 1..PkgLen(k) : i = base[k] + o
  BY <1>1, <1>2 DEF Layout
<1>7. h < n => u # <<>> /\ u[1] = <<h + 1, 1>>
  <2> SUFFICES ASSUME h < n PROVE u # <<>> /\ u[1] = <<h + 1, 1>>
    OBVIOUS
  <2>1. h + 1 \in (h + 1)..n /\ h + 1 \in 1..n
    BY <1>3
  <2>2. 1 \in 1..PkgLen(h + 1)
    BY <1>3, <2>1
  <2>3. base[h + 1] + 1 \in 1..Len(u) /\ u[base[h + 1] + 1] = <<h + 1, 1>>
    BY <1>5, <2>1, <2>2
  <2>4. base[h + 1] + 1 = 1
    BY <1>4
  <2>5. u # <<>>
    BY <2>3, <2>4
  <2> QED
    BY <2>3, <2>4, <2>5
<1>8. h = n => u = <<>>
  <2> SUFFICES ASSUME h = n PROVE u = <<>>
    OBVIOUS
  <2>1. Len(u) = 0
    BY <1>4
  <2>2. u \in Seq(Bytes)
    <3>1. count \in Nat /\ start \in Nat /\ wire \in Seq(Bytes) /\ ring \in [0..(Capacity - 1) -> Bytes]
      BY Sizes DEF IInv, TypeOK
    <3>2. CASE Capacity > 0
      BY <1>1, <3>1, <3>2, <1>3, UnreadAt
    <3>3. CASE ~(Capacity > 0)
      <4>1. count = 0 /\ Capacity \in Nat
        BY <3>3, Sizes DEF IInv, TypeOK
      <4>2. Taken(ring, count) = [i \in 1..0 |-> ring[(start + i - 1) % Capacity]]
        BY <4>1 DEF Taken
      <4>3. Taken(ring, count) = <<>>
        BY <4>2
      <4> QED
        BY <1>1, <3>1, <4>3, ConcatEmptySeq DEF Unread
    <3> QED
      BY <3>2, <3>3
  <2> QED
    BY <2>1, <2>2, EmptySeq
<1>9. h < n => u[Len(u)] = <<n, PkgLen(n)>>
  <2> SUFFICES ASSUME h < n PROVE u[Len(u)] = <<n, PkgLen(n)>>
    OBVIOUS
  <2>1. n \in (h + 1)..n /\ n \in 1..n
    BY <1>3
  <2>2. PkgLen(n) \in 1..PkgLen(n)
    BY <1>3, <2>1
  <2>3. base[n] + PkgLen(n) = Len(u)
    BY <1>4, <2>1
  <2> QED
    BY <1>5, <2>1, <2>2, <2>3
<1>10. ASSUME NEW i \in 1..(Len(u) - 1)
       PROVE  u[i + 1] = IF u[i][2] < PkgLen(u[i][1]) THEN <<u[i][1], u[i][2] + 1>> ELSE <<u[i][1] + 1, 1>>
  <2>1. Len(u) \in Int /\ i \in 1..Len(u) /\ i + 1 \in 1..Len(u) /\ i < Len(u)
    <3>1. n + 1 \in Nat
      BY <1>3
    <3>2. Len(u) \in Int
      BY <1>4, <3>1
    <3> QED
      BY <3>2
  <2>2. PICK k \in (h + 1)..n : \E o \in 1..PkgLen(k) : i = base[k] + o
    BY <1>6, <2>1
  <2>3. PICK o \in 1..PkgLen(k) : i = base[k] + o
    BY <2>2
  <2>4. u[i] = <<k, o>>
    BY <1>5, <2>3
  <2>5. u[i][1] = k /\ u[i][2] = o
    BY <2>4
  <2>6. k \in Nat /\ k \in 1..n /\ PkgLen(k) \in Nat /\ PkgLen(k) >= 3 /\ base[k] \in Int /\ o \in Int
    <3>1. k \in Nat /\ k \in 1..n
      BY <1>3
    <3> QED
      BY <1>3, <3>1
  <2>7. CASE o < PkgLen(k)
    <3>1. o + 1 \in 1..PkgLen(k) /\ base[k] + (o + 1) = i + 1
      BY <2>3, <2>6, <2>7, SMTT(30)
    <3>2. u[i + 1] = <<k, o + 1>>
      BY <1>5, <3>1
    <3> QED
      BY <2>5, <2>7, <3>2
  <2>8. CASE ~(o < PkgLen(k))
    <3>1. o = PkgLen(k) /\ base[k + 1] = i
      BY <1>4, <2>3, <2>6, <2>8
    <3>2. k # n
      BY <1>4, <2>1, <3>1, SMTT(30)
    <3>3. k + 1 \in (h + 1)..n /\ k + 1 \in 1..n
      BY <1>3, <2>6, <3>2
    <3>4. 1 \in 1..PkgLen(k + 1)
      BY <1>3, <3>3
    <3>5. u[i + 1] = <<k + 1, 1>>
      BY <1>5, <3>1, <3>3, <3>4
    <3> QED
      BY <2>5, <2>8, <3>5
  <2> QED
    BY <2>7, <2>8
<1>11. h = n \/ h < n
  BY <1>3
<1> QED
  BY <1>1, <1>7, <1>8, <1>9, <1>10, <1>11 DEF NothingLost, PkgLen

\* The types hold in every reachable state, and the circular buffer never
\* counts more bytes than it has room for, if the client keeps to the rules.
THEOREM TypeCorrect == ClientRules => (Spec => []TypeOK)
<1>1. IInv => TypeOK
  BY DEF IInv
<1> QED
  BY Invariance, <1>1, PTL

\* add, get and read of the circular buffer lose, repeat and overwrite no byte
\* of the stream, for every size of the buffer and however TCP cuts it, if the
\* client keeps to the rules.
THEOREM StreamIntact == ClientRules => (Spec => []NothingLost)
  BY Invariance, LayoutComplete, PTL

\* incomingData handles the packages whole, each once and in the order sent,
\* if the client keeps to the rules.
THEOREM PackagesInOrder == ClientRules => (Spec => []HandledInOrder)
<1>1. IInv => HandledInOrder
  BY DEF IInv
<1> QED
  BY Invariance, <1>1, PTL

=============================================================================
