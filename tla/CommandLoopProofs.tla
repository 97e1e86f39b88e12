-------------------------- MODULE CommandLoopProofs --------------------------
(***************************************************************************)
(* Proofs about module CommandLoop, for any number of clients, any size of *)
(* the send buffers and any step by which the array of events grows.       *)
(***************************************************************************)
EXTENDS CommandLoop, SequenceTheorems, FiniteSetTheorems, TLAPS

\* The callbacks that work for client cur.
Callbacks == {"flush", "recv", "reply"}

\* Only open connections are watched or announced, each at most once, and none
\* but cur is being worked for.
LoopInv == /\ edge \subseteq Open \cup {Listen}
           /\ \A e \in batch : e.fd \in Open \cup {Listen}
           /\ \A e \in batch : e.fd = Listen => ~e.hup
           /\ \A e, f \in batch : e.fd = f.fd => e = f
           /\ pc \in Callbacks => cur \in Open /\ \A e \in batch : e.fd # cur

\* The packages on a queue, each there once.
Elems(q) == {q[j] : j \in 1..Len(q)}
NoDup(q) == \A i, j \in 1..Len(q) : i # j => q[i] # q[j]

\* Queue and history hold the packages 1..m between them, each once.
Once(q, g, m) == /\ IsFiniteSet(g) /\ Cardinality(g) + Len(q) = m
                 /\ Elems(q) \cup g = 1..m
                 /\ Elems(q) \cap g = {}
                 /\ NoDup(q)

SendInv == \A c \in Clients :
             /\ conn[c] \in {"away", "backlog"} => queue[c] = <<>> /\ got[c] = {} /\ made[c] = 0
             /\ conn[c] = "open" => Once(queue[c], got[c], made[c])

\* Packages still to be made for c in answer to the request at hand.
Due(c) == IF pc = "reply" /\ cur = c THEN left ELSE 0

\* Requests of c that are not handled: in the socket or in the buffer.
Unhandled(c) == inbox[c] + buf[c]

\* Packages are made only for requests that were sent.
CountInv == \A c \in Clients :
              /\ Unhandled(c) <= nreqs
              /\ made[c] + Due(c) + Replies * Unhandled(c) <= Replies * nreqs

IInv == TypeOK /\ ArrayFits /\ LoopInv /\ SendInv /\ CountInv

-----------------------------------------------------------------------------
(* The array of events *)

\* An integer quotient, times the divisor, is within one divisor of the
\* dividend.
LEMMA Quotient == ASSUME NEW a \in Nat, NEW b \in Nat \ {0}
                  PROVE  /\ (a + b - 1) \div b \in Nat
                         /\ b * ((a + b - 1) \div b) \in Nat
                         /\ b * ((a + b - 1) \div b) >= a
<1> DEFINE x == a + b - 1
           q == x \div b
<1>1. x \in Nat
  OBVIOUS
<1>2. q \in Int /\ x % b \in 0..(b - 1) /\ x = b * q + (x % b)
  BY <1>1
<1> HIDE DEF x, q
<1>3. q \in Nat
  <2> SUFFICES ASSUME q <= -1 PROVE FALSE
    BY <1>2
  <2>1. b * q <= -b
    BY <1>2
  <2> QED
    BY <1>1, <1>2, <2>1
<1>4. b * q \in Nat
  BY <1>3
<1> QED
  BY <1>1, <1>2, <1>3, <1>4 DEF x, q

\* The array addEvent leaves has room for n events.
LEMMA GrownFits == ASSUME NEW n \in Nat, NEW sz \in Nat PROVE Grown(n, sz) \in Nat /\ n <= Grown(n, sz)
<1>1. CASE n <= sz
  BY <1>1 DEF Grown
<1>2. CASE n > sz
  <2>1. n - sz \in Nat /\ EDelta \in Nat \ {0}
    BY <1>2, SizesAssumption
  <2>2. /\ EDelta * ((n - sz + EDelta - 1) \div EDelta) \in Nat
        /\ EDelta * ((n - sz + EDelta - 1) \div EDelta) >= n - sz
    BY <2>1, Quotient
  <2> QED
    BY <1>2, <2>2 DEF Grown
<1> QED
  BY <1>1, <1>2

\* The array removeEvent leaves has room for the events that are left.
LEMMA ShrunkFits == ASSUME NEW n \in Nat, NEW sz \in Nat, n <= sz PROVE Shrunk(n, sz) \in Nat /\ n <= Shrunk(n, sz)
  BY SizesAssumption DEF Shrunk

-----------------------------------------------------------------------------
(* Queue and history *)

\* A package that is made and taken by Send at once.
LEMMA OnceTaken ==
  ASSUME NEW S, NEW q \in Seq(S), NEW g, NEW m \in Nat, Once(q, g, m)
  PROVE  Once(q, g \cup {m + 1}, m + 1)
<1>1. m + 1 \notin g /\ m + 1 \notin Elems(q)
  BY DEF Once
<1>2. IsFiniteSet(g \cup {m + 1}) /\ Cardinality(g \cup {m + 1}) = Cardinality(g) + 1
  BY <1>1, FS_AddElement DEF Once
<1>3. 1..(m + 1) = 1..m \cup {m + 1}
  OBVIOUS
<1>4. Cardinality(g) \in Nat /\ Len(q) \in Nat
  BY FS_CardinalityType, LenProperties DEF Once
<1>5. Elems(q) \cup (g \cup {m + 1}) = 1..(m + 1) /\ Elems(q) \cap (g \cup {m + 1}) = {}
  BY <1>1, <1>3 DEF Once
<1>6. Cardinality(g \cup {m + 1}) + Len(q) = m + 1
  BY <1>2, <1>4 DEF Once
<1> QED
  BY <1>2, <1>5, <1>6 DEF Once

\* A package that is made and queued.
LEMMA OnceQueued ==
  ASSUME NEW S, NEW q \in Seq(S), NEW g, NEW m \in Nat, m + 1 \in S, Once(q, g, m)
  PROVE  Once(Append(q, m + 1), g, m + 1)
<1> DEFINE r == Append(q, m + 1)
<1>1. /\ Len(r) = Len(q) + 1 /\ Len(q) \in Nat
      /\ \A i \in 1..Len(q) : r[i] = q[i]
      /\ r[Len(q) + 1] = m + 1
  BY AppendProperties, LenProperties
<1>2. m + 1 \notin g /\ m + 1 \notin Elems(q)
  BY DEF Once
<1>3. 1..(Len(q) + 1) = 1..Len(q) \cup {Len(q) + 1} /\ 1..(m + 1) = 1..m \cup {m + 1}
  BY <1>1
<1> HIDE DEF r
<1>4. Elems(r) = Elems(q) \cup {m + 1}
  BY <1>1, <1>3 DEF Elems
<1>5. NoDup(r)
  BY <1>1, <1>2, <1>3 DEF Once, NoDup, Elems
<1>6. Cardinality(g) + Len(r) = m + 1
  BY <1>1, FS_CardinalityType DEF Once
<1>7. Elems(r) \cup g = 1..(m + 1) /\ Elems(r) \cap g = {}
  BY <1>2, <1>3, <1>4 DEF Once
<1> QED
  BY <1>5, <1>6, <1>7 DEF Once, r

\* A queued package that Send takes.
LEMMA OnceFlushed ==
  ASSUME NEW S, NEW q \in Seq(S), q # <<>>, NEW g, NEW m \in Nat, Once(q, g, m)
  PROVE  Once(Tail(q), g \cup {Head(q)}, m)
<1> DEFINE r == Tail(q)
<1>1. /\ Head(q) = q[1] /\ Len(q) \in Nat /\ Len(q) > 0
      /\ Len(r) = Len(q) - 1
      /\ \A i \in 1..Len(r) : r[i] = q[i + 1]
  BY HeadTailProperties, LenProperties, EmptySeq
<1>2. \A i \in 1..Len(r) : i + 1 \in 1..Len(q) /\ i + 1 # 1
  BY <1>1
<1>3. 1 \in 1..Len(q) /\ \A j \in 1..Len(q) : j = 1 \/ (j - 1 \in 1..Len(r) /\ (j - 1) + 1 = j)
  BY <1>1
<1> HIDE DEF r
<1>5. Elems(q) = Elems(r) \cup {Head(q)}
  <2>1. Elems(r) \subseteq Elems(q) /\ Head(q) \in Elems(q)
    BY <1>1, <1>2, <1>3 DEF Elems
  <2>2. ASSUME NEW y \in Elems(q) PROVE y \in Elems(r) \cup {Head(q)}
    <3>1. PICK j \in 1..Len(q) : y = q[j]
      BY DEF Elems
    <3>2. CASE j = 1
      BY <1>1, <3>1, <3>2
    <3>3. CASE j # 1
      <4>1. j - 1 \in 1..Len(r) /\ r[j - 1] = y
        BY <1>1, <1>3, <3>1, <3>3
      <4> QED
        BY <4>1 DEF Elems
    <3> QED
      BY <3>2, <3>3
  <2> QED
    BY <2>1, <2>2
<1>6. Head(q) \notin Elems(r)
  <2> SUFFICES ASSUME NEW i \in 1..Len(r), Head(q) = r[i] PROVE FALSE
    BY DEF Elems
  <2>1. i + 1 \in 1..Len(q) /\ i + 1 # 1 /\ q[i + 1] = q[1]
    BY <1>1, <1>2
  <2> QED
    BY <2>1, <1>3 DEF Once, NoDup
<1>7. NoDup(r)
  <2> SUFFICES ASSUME NEW i \in 1..Len(r), NEW j \in 1..Len(r), i # j PROVE r[i] # r[j]
    BY DEF NoDup
  <2>1. i + 1 \in 1..Len(q) /\ j + 1 \in 1..Len(q) /\ i + 1 # j + 1
    BY <1>1
  <2>2. q[i + 1] # q[j + 1]
    BY <2>1 DEF Once, NoDup
  <2> QED
    BY <1>1, <2>2
<1>8. Head(q) \notin g
  BY <1>5 DEF Once
<1>9. IsFiniteSet(g \cup {Head(q)}) /\ Cardinality(g \cup {Head(q)}) = Cardinality(g) + 1 /\ Cardinality(g) \in Nat
  BY <1>8, FS_AddElement, FS_CardinalityType DEF Once
<1>10. Elems(r) \cup (g \cup {Head(q)}) = 1..m /\ Elems(r) \cap (g \cup {Head(q)}) = {}
  BY <1>5, <1>6, <1>8 DEF Once
<1>11. Cardinality(g \cup {Head(q)}) + Len(r) = m
  BY <1>1, <1>9 DEF Once
<1> QED
  BY <1>7, <1>9, <1>10, <1>11 DEF Once, r

\* Nothing has been made yet.
LEMMA OnceEmpty == Once(<<>>, {}, 0)
  BY FS_EmptySet, EmptySeq DEF Once, Elems, NoDup

-----------------------------------------------------------------------------
(* Counting requests and packages *)

\* What products the counts need.
LEMMA Products == ASSUME NEW a \in Nat, NEW b \in Nat
                  PROVE  /\ Replies * a \in Nat
                         /\ Replies * (a + 1) = Replies * a + Replies
                         /\ a <= b => Replies * a <= Replies * b
<1>1. Replies \in Nat
  BY BoundsAssumption
<1>2. Replies * a \in Nat /\ Replies * (a + 1) = Replies * a + Replies
  BY <1>1
<1>3. ASSUME a <= b PROVE Replies * a <= Replies * b
  <2>1. b - a \in Nat /\ b = a + (b - a)
    BY <1>3
  <2>2. Replies * (b - a) \in Nat /\ Replies * b = Replies * a + Replies * (b - a)
    BY <1>1, <2>1
  <2> QED
    BY <1>2, <2>2
<1> QED
  BY <1>2, <1>3

\* The counts are natural numbers.
LEMMA CountTypes ==
  ASSUME TypeOK, NEW c \in Clients
  PROVE  /\ inbox[c] \in Nat /\ buf[c] \in Nat /\ nreqs \in Nat /\ nreqs <= MaxReqs
         /\ made[c] \in Nat /\ left \in Nat
         /\ Replies \in Nat /\ MaxReqs \in Nat
         /\ Unhandled(c) \in Nat /\ Due(c) \in Nat
<1>1. inbox[c] \in Nat /\ buf[c] \in Nat /\ nreqs \in Nat /\ nreqs <= MaxReqs
  BY BoundsAssumption DEF TypeOK
<1>2. made[c] \in Nat /\ left \in Nat /\ Replies \in Nat /\ MaxReqs \in Nat
  BY BoundsAssumption DEF TypeOK, Packages
<1> QED
  BY ONLY <1>1, <1>2 DEF Unhandled, Due

\* What has been made is among Packages, and if an answer is not complete the
\* next package is too.
LEMMA MadeBound ==
  ASSUME TypeOK, CountInv, NEW c \in Clients
  PROVE  /\ 1..made[c] \subseteq Packages
         /\ pc = "reply" /\ cur = c /\ left > 0 => made[c] + 1 \in Packages
<1>1. made[c] \in Nat /\ left \in Nat /\ Due(c) \in Nat /\ nreqs \in Nat /\ MaxReqs \in Nat
      /\ Unhandled(c) \in Nat /\ nreqs <= MaxReqs
  BY CountTypes
<1>2. /\ Replies * Unhandled(c) \in Nat /\ Replies * nreqs \in Nat /\ Replies * MaxReqs \in Nat
      /\ Replies * nreqs <= Replies * MaxReqs
  BY <1>1, Products
<1>3. made[c] + Due(c) <= Replies * MaxReqs
  BY <1>1, <1>2 DEF CountInv
<1> QED
  BY <1>1, <1>2, <1>3 DEF Packages, Due

-----------------------------------------------------------------------------
(* The initial state *)

\* The initial state satisfies the invariant.
LEMMA InitIInv == Init => IInv
<1> SUFFICES ASSUME Init PROVE IInv
  OBVIOUS
<1>1. Grown(2, EDelta) \in Nat /\ 2 <= Grown(2, EDelta)
  BY GrownFits, SizesAssumption
<1>2. Open = {}
  BY DEF Init, Open
<1>3. TypeOK
  <2>1. queue \in [Clients -> Seq(Packages)] /\ nospace \in [Clients -> BOOLEAN]
    BY DEF Init
  <2>2. got \in [Clients -> SUBSET Packages] /\ cut \in BOOLEAN
    BY DEF Init
  <2>3. inbox \in [Clients -> 0..MaxReqs] /\ buf \in [Clients -> 0..MaxReqs] /\ room \in [Clients -> 0..Room] /\ nreqs \in 0..MaxReqs
        /\ left \in 0..Replies /\ made \in [Clients -> {0} \cup Packages]
    BY BoundsAssumption, SizesAssumption DEF Init
  <2>4. size \in Nat /\ nevents \in Nat
    BY <1>1 DEF Init
  <2> QED
    BY <2>1, <2>2, <2>3, <2>4 DEF Init, TypeOK
<1>4. ArrayFits
  BY <1>1, <1>2, FS_EmptySet DEF Init, ArrayFits
<1>5. LoopInv
  BY DEF Init, LoopInv, Callbacks
<1>6. SendInv
  BY DEF Init, SendInv
<1>7. CountInv
  <2>1. Replies * 0 = 0
    BY BoundsAssumption
  <2> QED
    BY <2>1 DEF Init, CountInv, Due, Unhandled
<1> QED
  BY <1>3, <1>4, <1>5, <1>6, <1>7 DEF IInv

-----------------------------------------------------------------------------
(* The clients *)

\* A client connects: it is not open yet.
LEMMA ConnectToInv == ASSUME IInv, NEW c \in Clients, ConnectTo(c) PROVE IInv'
<1> USE DEF ConnectTo, IInv, netVars, sendVars, arrVars, loopVars
<1>1. Open' = Open
  BY DEF Open, TypeOK
<1>2. TypeOK'
  BY DEF TypeOK
<1>3. ArrayFits' /\ LoopInv'
  BY <1>1 DEF ArrayFits, LoopInv
<1>4. SendInv'
  BY DEF SendInv, TypeOK
<1>5. CountInv'
  BY DEF CountInv, Due, Unhandled
<1> QED
  BY <1>2, <1>3, <1>4, <1>5

\* A request adds one to the requests sent and to those not read.
LEMMA RequestInv == ASSUME IInv, NEW c \in Clients, Request(c) PROVE IInv'
<1> USE DEF Request, Wake, IInv, sendVars, arrVars, loopVars
<1>1. Open' = Open
  BY DEF Open
<1>2. TypeOK'
  <2>1. inbox[c] <= nreqs /\ nreqs < MaxReqs /\ inbox[c] \in Nat /\ nreqs \in Nat
    <3>1. Unhandled(c) <= nreqs /\ nreqs < MaxReqs
      BY DEF CountInv
    <3>2. inbox[c] \in Nat /\ buf[c] \in Nat /\ nreqs \in Nat
      BY CountTypes
    <3> QED
      BY ONLY <3>1, <3>2 DEF Unhandled
  <2>2. inbox' \in [Clients -> 0..MaxReqs] /\ nreqs' \in 0..MaxReqs
    BY <2>1, BoundsAssumption DEF TypeOK
  <2> QED
    BY <2>2 DEF TypeOK
<1>3. ArrayFits' /\ LoopInv'
  BY <1>1 DEF ArrayFits, LoopInv, Open
<1>4. SendInv'
  BY DEF SendInv
<1>5. CountInv'
  <2> SUFFICES ASSUME NEW d \in Clients
               PROVE  /\ Unhandled(d)' <= nreqs'
                      /\ made[d] + Due(d) + Replies * Unhandled(d)' <= Replies * nreqs'
    BY DEF CountInv, Due
  <2>1. Unhandled(d) \in Nat /\ nreqs \in Nat /\ made[d] \in Nat /\ Due(d) \in Nat /\ Replies \in Nat
    BY CountTypes
  <2>2. /\ Replies * Unhandled(d) \in Nat /\ Replies * nreqs \in Nat
        /\ Replies * (Unhandled(d) + 1) = Replies * Unhandled(d) + Replies
        /\ Replies * (nreqs + 1) = Replies * nreqs + Replies
    BY <2>1, Products
  <2>3. /\ Unhandled(d) <= nreqs
        /\ made[d] + Due(d) + Replies * Unhandled(d) <= Replies * nreqs
    BY DEF CountInv
  <2>4. nreqs' = nreqs + 1 /\ Unhandled(d)' \in {Unhandled(d), Unhandled(d) + 1}
    BY DEF TypeOK, Unhandled
  <2> QED
    BY <2>1, <2>2, <2>3, <2>4
<1> QED
  BY <1>2, <1>3, <1>4, <1>5

\* A client reads what was sent to it.
LEMMA ClientReadsInv == ASSUME IInv, NEW c \in Clients, ClientReads(c) PROVE IInv'
<1> USE DEF ClientReads, IInv, netVars, arrVars, loopVars
<1>1. Open' = Open /\ c \in Open
  BY DEF Open
<1>2. TypeOK'
  <2>1. room[c] + 1 \in 0..Room
    BY SizesAssumption DEF TypeOK
  <2>2. room' \in [Clients -> 0..Room]
    BY <2>1 DEF TypeOK
  <2>3. nospace' \in [Clients -> BOOLEAN] /\ edge' \subseteq Clients \cup {Listen}
    BY DEF TypeOK
  <2> QED
    BY <2>2, <2>3 DEF TypeOK
<1>3. ArrayFits' /\ LoopInv'
  BY <1>1 DEF ArrayFits, LoopInv
<1>4. SendInv' /\ CountInv'
  BY DEF SendInv, CountInv, Due, Unhandled
<1> QED
  BY <1>2, <1>3, <1>4

\* A client closes its end, or is reset.
LEMMA PeerClosesInv ==
  ASSUME IInv, NEW c \in Clients, NEW how \in {"shut", "reset"}, PeerCloses(c, how) PROVE IInv'
<1> USE DEF PeerCloses, Wake, IInv, sendVars, arrVars, loopVars
<1>1. Open' = Open
  BY DEF Open
<1>2. TypeOK'
  BY DEF TypeOK
<1>3. ArrayFits' /\ LoopInv'
  BY <1>1 DEF ArrayFits, LoopInv, Open
<1>4. SendInv' /\ CountInv'
  BY DEF SendInv, CountInv, Due, Unhandled
<1> QED
  BY <1>2, <1>3, <1>4

-----------------------------------------------------------------------------
(* The loop *)

\* epoll_wait reports each socket of the ready list once.
LEMMA EpollWaitInv == ASSUME IInv, EpollWait PROVE IInv'
<1> USE DEF EpollWait, At, IInv, netVars, arrVars
<1>1. PICK some \in SUBSET edge :
        /\ batch' = {e \in {Poll(f) : f \in some} : e.hup \/ e.in \/ e.out}
        /\ edge' = edge \ some
        /\ nospace' = [c \in Clients |-> nospace[c] \/ (c \in some /\ room[c] = 0)]
  OBVIOUS
<1>2. ASSUME NEW f \in edge
      PROVE  /\ Poll(f) \in [fd : Clients \cup {Listen}, hup : BOOLEAN, out : BOOLEAN, in : BOOLEAN]
             /\ Poll(f).fd = f /\ (f = Listen => ~Poll(f).hup)
  BY DEF Poll, TypeOK
<1>3. \A e \in batch' : \E f \in some : e = Poll(f)
  BY <1>1
<1>4. Open' = Open
  BY DEF Open
<1>5. TypeOK'
  <2>1. nospace' \in [Clients -> BOOLEAN]
    BY <1>1
  <2>2. batch' \subseteq [fd : Clients \cup {Listen}, hup : BOOLEAN, out : BOOLEAN, in : BOOLEAN]
    BY <1>2, <1>3
  <2>3. edge' \subseteq Clients \cup {Listen}
    BY <1>1 DEF TypeOK
  <2> QED
    BY <2>1, <2>2, <2>3 DEF TypeOK
<1>6. LoopInv'
  <2>1. \A e \in batch' : e.fd \in Open \cup {Listen} /\ (e.fd = Listen => ~e.hup)
    BY <1>2, <1>3 DEF LoopInv
  <2>2. \A e, f \in batch' : e.fd = f.fd => e = f
    BY <1>2, <1>3
  <2> QED
    BY <1>1, <1>4, <2>1, <2>2 DEF LoopInv, Callbacks
<1>7. ArrayFits' /\ SendInv'
  BY <1>4 DEF ArrayFits, SendInv
<1>8. CountInv'
  BY DEF CountInv, Due, Unhandled
<1> QED
  BY <1>5, <1>6, <1>7, <1>8

\* The loop is through with the events.
LEMMA WalkEndInv == ASSUME IInv, WalkEnd PROVE IInv'
<1> USE DEF WalkEnd, At, IInv, netVars, sendVars, arrVars
<1>1. Open' = Open
  BY DEF Open
<1>2. TypeOK'
  BY DEF TypeOK
<1>3. ArrayFits' /\ LoopInv' /\ SendInv' /\ CountInv'
  BY <1>1 DEF ArrayFits, LoopInv, SendInv, CountInv, Due, Unhandled, Callbacks
<1> QED
  BY <1>2, <1>3

\* All connections that are accepted get an event and room in the array.
LEMMA IncomingConnectionInv == ASSUME IInv, NEW e \in batch, IncomingConnection(e) PROVE IInv'
<1> USE DEF IncomingConnection, At, IInv, WalkOn, netVars, sendVars, loopVars
<1> DEFINE waiting == {c \in Clients : conn[c] = "backlog"}
<1>1. PICK acc \in Accepts(waiting) :
        /\ conn' = [c \in Clients |-> IF c \in acc.new THEN "open" ELSE conn[c]]
        /\ edge' = edge \cup acc.new
        /\ nevents' = nevents + Cardinality(acc.new)
        /\ size' = Grown(nevents', size)
        /\ starved' = (starved \/ acc.error)
  OBVIOUS
<1>2. acc.new \subseteq waiting
  BY DEF Accepts
<1>3. Open' = Open \cup acc.new /\ Open \cap acc.new = {}
  BY <1>1, <1>2 DEF Open
<1>4. IsFiniteSet(Open) /\ IsFiniteSet(acc.new)
  BY <1>2, FS_Subset, FiniteAssumption DEF Open
<1>5. /\ Cardinality(Open) \in Nat /\ Cardinality(acc.new) \in Nat
      /\ Cardinality(Open') = Cardinality(Open) + Cardinality(acc.new)
  <2>1. Cardinality(Open) \in Nat /\ Cardinality(acc.new) \in Nat
    BY <1>4, FS_CardinalityType
  <2>2. Cardinality(Open') = Cardinality(Open) + Cardinality(acc.new) - Cardinality({})
    BY <1>3, <1>4, FS_Union
  <2> QED
    BY <2>1, <2>2, FS_EmptySet
<1>6. nevents' \in Nat /\ size' \in Nat /\ nevents' <= size'
  <2>1. nevents \in Nat /\ size \in Nat
    BY DEF TypeOK
  <2>2. nevents' \in Nat
    BY <1>1, <1>5, <2>1
  <2> HIDE DEF IncomingConnection
  <2> QED
    BY <1>1, <2>1, <2>2, GrownFits
<1> HIDE DEF waiting
<1>7. TypeOK'
  <2>1. starved' \in BOOLEAN
    BY <1>1
  <2>2. conn' \in [Clients -> {"away", "backlog", "open", "closed"}]
    BY <1>1 DEF TypeOK
  <2>3. edge' \subseteq Clients \cup {Listen} /\ batch' \subseteq batch
    BY <1>1, <1>2 DEF TypeOK, waiting
  <2>4. fault' \in {"none", "wild_pointer", "terminate", "loop_left"}
    BY DEF TypeOK
  <2> QED
    BY <1>6, <2>1, <2>2, <2>3, <2>4 DEF TypeOK
<1>8. ArrayFits'
  BY <1>1, <1>5, <1>6 DEF ArrayFits
<1>9. LoopInv'
  BY <1>1, <1>3 DEF LoopInv, Callbacks
<1>10. SendInv'
  <2> SUFFICES ASSUME NEW c \in Clients
               PROVE  /\ conn'[c] \in {"away", "backlog"} => queue[c] = <<>> /\ got[c] = {} /\ made[c] = 0
                      /\ conn'[c] = "open" => Once(queue[c], got[c], made[c])
    BY DEF SendInv
  <2>1. CASE c \in acc.new
    BY <1>1, <1>2, <2>1, OnceEmpty DEF SendInv, waiting
  <2>2. CASE c \notin acc.new
    BY <1>1, <2>2 DEF SendInv
  <2> QED
    BY <2>1, <2>2
<1>11. CountInv'
  BY DEF CountInv, Due, Unhandled
<1> QED
  BY <1>7, <1>8, <1>9, <1>10, <1>11

\* An exception leaves the callback: nothing else changes.
LEMMA IncomingConnectionThrowsInv == ASSUME IInv, NEW e \in batch, IncomingConnectionThrows(e) PROVE IInv'
<1> USE DEF IncomingConnectionThrows, IInv, netVars, sendVars, arrVars, loopVars
<1>1. Open' = Open
  BY DEF Open
<1>2. TypeOK'
  BY DEF TypeOK
<1>3. ArrayFits' /\ LoopInv' /\ SendInv' /\ CountInv'
  BY <1>1 DEF ArrayFits, LoopInv, SendInv, CountInv, Due, Unhandled
<1> QED
  BY <1>2, <1>3

\* What closeConnection does: the connection is open no more, and the array
\* still fits.
LEMMA CloseFacts ==
  ASSUME IInv, NEW c \in Open, NEW rest \in SUBSET batch, CloseConnection(c, rest)
  PROVE  /\ Open' = Open \ {c} /\ c \in Clients
         /\ ArrayFits' /\ size' \in Nat /\ nevents' \in Nat
         /\ conn' \in [Clients -> {"away", "backlog", "open", "closed"}]
         /\ queue' \in [Clients -> Seq(Packages)]
         /\ SendInv'
         /\ edge' = edge \ {c} /\ batch' = rest
         /\ fault' \in {fault, "wild_pointer"}
         /\ UNCHANGED <<peer, inbox, nreqs, room, nospace, made, got, cut, left, starved>>
         /\ buf' \in [Clients -> 0..MaxReqs] /\ \A d \in Clients : buf'[d] <= buf[d]
<1> USE DEF CloseConnection, IInv
<1>1. Open' = Open \ {c} /\ c \in Clients
  BY DEF Open, TypeOK
<1>2. IsFiniteSet(Open)
  BY FS_Subset, FiniteAssumption DEF Open
<1>3. Cardinality(Open') = Cardinality(Open) - 1 /\ Cardinality(Open) \in Nat /\ Cardinality(Open') \in Nat
  BY <1>1, <1>2, FS_RemoveElement, FS_CardinalityType
<1>4. nevents' \in Nat /\ nevents' <= size /\ nevents' = 2 + Cardinality(Open')
  BY <1>3 DEF ArrayFits, TypeOK
<1>5. size' \in Nat /\ nevents' <= size'
  BY <1>4, ShrunkFits DEF TypeOK
<1>6. conn' \in [Clients -> {"away", "backlog", "open", "closed"}] /\ queue' \in [Clients -> Seq(Packages)]
  BY <1>1 DEF TypeOK
<1>7. SendInv'
  BY <1>1 DEF SendInv, TypeOK
<1>8. edge' = edge \ {c} /\ batch' = rest /\ fault' \in {fault, "wild_pointer"}
  BY DEF WalkOn
<1>9. buf' \in [Clients -> 0..MaxReqs] /\ \A d \in Clients : buf'[d] <= buf[d]
  BY <1>1, BoundsAssumption DEF TypeOK
<1> QED
  BY <1>1, <1>4, <1>5, <1>6, <1>7, <1>8, <1>9 DEF ArrayFits

\* With the packages and the requests sent unchanged and none of an answer
\* outstanding, a buffer may lose requests.
LEMMA CountFewer ==
  ASSUME TypeOK, CountInv, UNCHANGED <<made, inbox, nreqs>>,
         \A d \in Clients : buf'[d] \in Nat /\ buf'[d] <= buf[d],
         \A d \in Clients : Due(d)' = Due(d)
  PROVE  CountInv'
<1> SUFFICES ASSUME NEW d \in Clients
             PROVE  /\ Unhandled(d)' <= nreqs
                    /\ made[d] + Due(d) + Replies * Unhandled(d)' <= Replies * nreqs
  BY DEF CountInv
<1>1. /\ Unhandled(d) \in Nat /\ Unhandled(d)' \in Nat /\ Unhandled(d)' <= Unhandled(d)
      /\ nreqs \in Nat /\ made[d] \in Nat /\ Due(d) \in Nat
  <2>1. /\ inbox[d] \in Nat /\ buf[d] \in Nat /\ nreqs \in Nat /\ made[d] \in Nat
        /\ Due(d) \in Nat /\ Unhandled(d) \in Nat
    BY CountTypes
  <2>2. inbox'[d] = inbox[d] /\ buf'[d] \in Nat /\ buf'[d] <= buf[d]
    OBVIOUS
  <2> QED
    BY ONLY <2>1, <2>2 DEF Unhandled
<1>2. /\ Replies * Unhandled(d)' <= Replies * Unhandled(d) /\ Replies * nreqs \in Nat
      /\ Replies * Unhandled(d)' \in Nat /\ Replies * Unhandled(d) \in Nat
  BY <1>1, Products
<1>3. Unhandled(d) <= nreqs /\ made[d] + Due(d) + Replies * Unhandled(d) <= Replies * nreqs
  BY DEF CountInv
<1> QED
  BY <1>1, <1>2, <1>3

\* end_event_clbk closes the connection of the event; no other event is its.
LEMMA EndEventInv == ASSUME IInv, NEW e \in batch, EndEvent(e) PROVE IInv'
<1> USE DEF EndEvent, At, IInv
<1>1. e.fd \in Open /\ CloseConnection(e.fd, batch \ {e})
  BY DEF LoopInv
<1>2. /\ Open' = Open \ {e.fd} /\ e.fd \in Clients
      /\ ArrayFits' /\ size' \in Nat /\ nevents' \in Nat
      /\ conn' \in [Clients -> {"away", "backlog", "open", "closed"}]
      /\ queue' \in [Clients -> Seq(Packages)]
      /\ SendInv'
      /\ edge' = edge \ {e.fd} /\ batch' = batch \ {e}
      /\ fault' \in {fault, "wild_pointer"}
      /\ buf' \in [Clients -> 0..MaxReqs] /\ \A d \in Clients : buf'[d] <= buf[d]
  BY <1>1, CloseFacts
<1>3. UNCHANGED <<peer, inbox, nreqs, room, nospace, made, got, cut, left, starved, pc, cur, curIn>>
  BY <1>1, CloseFacts
<1>4. TypeOK'
  BY <1>2, <1>3 DEF TypeOK
<1>5. LoopInv'
  BY <1>2, <1>3 DEF LoopInv, Callbacks
<1>6. CountInv'
  <2>1. \A d \in Clients : buf'[d] \in Nat /\ buf'[d] <= buf[d]
    BY <1>2, BoundsAssumption
  <2>2. \A d \in Clients : Due(d)' = Due(d)
    BY <1>3 DEF Due
  <2> QED
    BY <1>3, <2>1, <2>2, CountFewer
<1> QED
  BY <1>2, <1>4, <1>5, <1>6

\* The callback for a client's socket begins.
LEMMA ClientSocketInv == ASSUME IInv, NEW e \in batch, ClientSocket(e) PROVE IInv'
<1> USE DEF ClientSocket, At, IInv, netVars, sendVars, arrVars
<1>1. Open' = Open
  BY DEF Open
<1>2. e.fd \in Open /\ e.in \in BOOLEAN /\ e.fd \in Clients
  BY NamesAssumption DEF LoopInv, TypeOK
<1>3. TypeOK'
  <2>1. curIn' \in BOOLEAN /\ cur' \in Clients /\ pc' \in {"flush", "recv"} /\ batch' \subseteq batch
    BY <1>2
  <2> QED
    BY <2>1 DEF TypeOK
<1>4. LoopInv'
  BY <1>1, <1>2 DEF LoopInv
<1>5. ArrayFits' /\ SendInv'
  BY <1>1 DEF ArrayFits, SendInv
<1>6. CountInv'
  BY DEF CountInv, Due, Unhandled
<1> QED
  BY <1>3, <1>4, <1>5, <1>6

-----------------------------------------------------------------------------
(* The callbacks of a client's socket *)

\* Send takes package p, or a part of it: the types it touches.
LEMMA TakesTypes ==
  ASSUME TypeOK, NEW c \in Clients, NEW p \in Packages, SendTakes(c, p)
  PROVE  /\ room' \in [Clients -> 0..Room] /\ nospace' \in [Clients -> BOOLEAN] /\ cut' \in BOOLEAN
         /\ got' \in [Clients -> SUBSET Packages]
         /\ got' = [got EXCEPT ![c] = @ \cup {p}]
<1>1. room' \in [Clients -> 0..Room]
  <2>1. room[c] \in 0..Room /\ room[c] > 0 /\ Room \in Nat
    BY SizesAssumption DEF SendTakes, TypeOK
  <2>2. room[c] - 1 \in 0..Room /\ 0 \in 0..Room
    BY <2>1
  <2>3. room' = [room EXCEPT ![c] = room[c] - 1] \/ room' = [room EXCEPT ![c] = 0]
    BY DEF SendTakes
  <2> QED
    BY <2>2, <2>3 DEF TypeOK
<1>2. nospace' \in [Clients -> BOOLEAN] /\ cut' \in BOOLEAN
  BY DEF SendTakes, TypeOK
<1>3. got' \in [Clients -> SUBSET Packages] /\ got' = [got EXCEPT ![c] = @ \cup {p}]
  BY DEF SendTakes, TypeOK
<1> QED
  BY <1>1, <1>2, <1>3

\* Send would block: only nospace changes.
LEMMA BlocksTypes ==
  ASSUME TypeOK, NEW c \in Clients, SendBlocks(c)
  PROVE  nospace' \in [Clients -> BOOLEAN] /\ UNCHANGED <<room, got, cut>>
  BY DEF SendBlocks, TypeOK

\* send(EpollEvent*) moves packages from the queue to the socket.
LEMMA FlushInv == ASSUME IInv, Flush PROVE IInv'
<1> USE DEF Flush, At, IInv
<1>1. /\ cur \in Open /\ cur \in Clients
      /\ UNCHANGED <<conn, peer, inbox, nreqs, buf, edge, batch, made, size, nevents, cur, curIn, left, starved, fault>>
      /\ pc = "flush" /\ pc' \in {"flush", "recv", "walk"}
  BY DEF LoopInv, Callbacks, Open, AfterFlush, netVars, arrVars
<1>2. Open' = Open
  BY <1>1 DEF Open
<1>3. ArrayFits' /\ LoopInv' /\ CountInv'
  BY <1>1, <1>2 DEF ArrayFits, LoopInv, CountInv, Due, Unhandled, Callbacks
<1>4. CASE UNCHANGED <<queue, got, room, cut>> /\ nospace' \in [Clients -> BOOLEAN]
  <2>1. TypeOK'
    BY <1>1, <1>4 DEF TypeOK
  <2>2. SendInv'
    BY <1>1, <1>4 DEF SendInv
  <2> QED
    BY <1>3, <2>1, <2>2
<1>5. CASE queue[cur] # <<>> /\ SendTakes(cur, Head(queue[cur])) /\ queue' = [queue EXCEPT ![cur] = Tail(@)]
  <2>1. queue[cur] \in Seq(Packages) /\ Head(queue[cur]) \in Packages /\ Tail(queue[cur]) \in Seq(Packages)
    BY <1>1, <1>5, HeadTailProperties DEF TypeOK
  <2>2. got' = [got EXCEPT ![cur] = @ \cup {Head(queue[cur])}]
    BY <1>1, <1>5, <2>1, TakesTypes
  <2>3. TypeOK'
    <3>1. /\ room' \in [Clients -> 0..Room] /\ nospace' \in [Clients -> BOOLEAN] /\ cut' \in BOOLEAN
          /\ got' \in [Clients -> SUBSET Packages]
      BY <1>1, <1>5, <2>1, TakesTypes
    <3>2. queue' \in [Clients -> Seq(Packages)]
      BY <1>1, <1>5, <2>1 DEF TypeOK
    <3> QED
      BY <1>1, <3>1, <3>2 DEF TypeOK
  <2>4. Once(Tail(queue[cur]), got[cur] \cup {Head(queue[cur])}, made[cur])
    <3>1. Once(queue[cur], got[cur], made[cur])
      BY <1>1 DEF SendInv, Open
    <3>2. queue[cur] \in Seq(Packages) /\ made[cur] \in Nat /\ queue[cur] # <<>>
      BY <1>1, <1>5 DEF TypeOK, Packages
    <3> QED
      BY <3>1, <3>2, OnceFlushed
  <2>5. SendInv'
    BY <1>1, <1>5, <2>2, <2>4 DEF SendInv, TypeOK, Open
  <2> QED
    BY <1>3, <2>3, <2>5
<1>6. CASE SendBlocks(cur) /\ UNCHANGED queue
  BY <1>1, <1>4, <1>6, BlocksTypes
<1>7. CASE UNCHANGED <<room, nospace, queue, got, cut>>
  BY <1>4, <1>7 DEF TypeOK
<1> QED
  BY <1>5, <1>6, <1>7

\* A Recv that yields requests: one is taken out of the buffer, and its answer
\* is still due.
LEMMA RecvRequestInv == ASSUME IInv, NEW k \in 1..MaxReqs, RecvRequest(k) PROVE IInv'
<1> USE DEF RecvRequest, At, IInv, sendVars, arrVars
<1>1. cur \in Open /\ cur \in Clients
  BY DEF LoopInv, Callbacks, Open
<1>2. Open' = Open
  BY DEF Open
<1>3. /\ inbox[cur] \in Nat /\ buf[cur] \in Nat /\ k \in Nat /\ 1 <= k /\ k <= inbox[cur]
      /\ inbox[cur] + buf[cur] <= MaxReqs /\ MaxReqs \in Nat
  <2>1. inbox[cur] \in Nat /\ buf[cur] \in Nat /\ nreqs \in Nat /\ nreqs <= MaxReqs /\ MaxReqs \in Nat
    BY <1>1, BoundsAssumption DEF TypeOK
  <2>2. inbox[cur] + buf[cur] <= nreqs
    BY <1>1 DEF CountInv, Unhandled
  <2> QED
    BY <2>1, <2>2
<1>4. TypeOK'
  <2>1. inbox[cur] - k \in 0..MaxReqs /\ buf[cur] + k - 1 \in 0..MaxReqs
    BY <1>3
  <2>2. inbox' \in [Clients -> 0..MaxReqs] /\ buf' \in [Clients -> 0..MaxReqs]
    BY <1>1, <2>1 DEF TypeOK
  <2>3. left' \in 0..Replies
    BY BoundsAssumption
  <2> QED
    BY <2>2, <2>3 DEF TypeOK
<1>5. ArrayFits' /\ LoopInv' /\ SendInv'
  BY <1>2 DEF ArrayFits, LoopInv, SendInv, Callbacks
<1>6. CountInv'
  <2> SUFFICES ASSUME NEW d \in Clients
               PROVE  /\ Unhandled(d)' <= nreqs
                      /\ made[d] + Due(d)' + Replies * Unhandled(d)' <= Replies * nreqs
    BY DEF CountInv
  <2>1. /\ Unhandled(d) \in Nat /\ nreqs \in Nat /\ made[d] \in Nat /\ Replies \in Nat
        /\ Unhandled(d) <= nreqs
        /\ made[d] + 0 + Replies * Unhandled(d) <= Replies * nreqs
    <3>1. Unhandled(d) \in Nat /\ nreqs \in Nat /\ made[d] \in Nat /\ Replies \in Nat
      BY CountTypes
    <3>2. Due(d) = 0
      BY DEF Due
    <3>3. Unhandled(d) <= nreqs /\ made[d] + Due(d) + Replies * Unhandled(d) <= Replies * nreqs
      BY DEF CountInv
    <3> QED
      BY <3>1, <3>2, <3>3
  <2>2. CASE d = cur
    <3>1. Unhandled(d) - 1 \in Nat /\ Unhandled(d)' = Unhandled(d) - 1 /\ Due(d)' = Replies
      <4>1. inbox'[d] = inbox[d] - k /\ buf'[d] = buf[d] + k - 1
        BY <1>1, <2>2 DEF TypeOK
      <4>2. Unhandled(d) - 1 \in Nat /\ Unhandled(d)' = Unhandled(d) - 1
        BY <1>3, <2>2, <4>1 DEF Unhandled
      <4> QED
        BY <2>2, <4>2 DEF Due
    <3>2. /\ Replies * ((Unhandled(d) - 1) + 1) = Replies * (Unhandled(d) - 1) + Replies
          /\ Replies * (Unhandled(d) - 1) \in Nat
      BY <3>1, Products
    <3>3. (Unhandled(d) - 1) + 1 = Unhandled(d)
      BY <2>1
    <3>4. Replies * nreqs \in Nat
      BY <2>1, Products
    <3> HIDE DEF RecvRequest, IInv
    <3> QED
      BY <2>1, <3>1, <3>2, <3>3, <3>4
  <2>3. CASE d # cur
    <3>1. Unhandled(d)' = Unhandled(d) /\ Due(d)' = 0
      BY <2>3 DEF TypeOK, Due, Unhandled
    <3> QED
      BY <2>1, <3>1
  <2> QED
    BY <2>2, <2>3
<1> QED
  BY <1>4, <1>5, <1>6

\* A Recv that fails ends the callback.
LEMMA RecvFailsInv == ASSUME IInv, RecvFails PROVE IInv'
<1> USE DEF RecvFails, At, IInv, netVars, sendVars, arrVars
<1>1. Open' = Open
  BY DEF Open
<1>2. TypeOK'
  BY DEF TypeOK
<1>3. ArrayFits' /\ LoopInv' /\ SendInv' /\ CountInv'
  BY <1>1 DEF ArrayFits, LoopInv, SendInv, CountInv, Due, Unhandled, Callbacks
<1> QED
  BY <1>2, <1>3

\* At an end of file the callback closes its own connection.
LEMMA RecvEndInv == ASSUME IInv, RecvEnd PROVE IInv'
<1> USE DEF RecvEnd, At, IInv
<1>1. cur \in Open /\ CloseConnection(cur, batch) /\ pc = "recv" /\ pc' = "walk"
  BY DEF LoopInv, Callbacks
<1>2. /\ Open' = Open \ {cur} /\ cur \in Clients
      /\ ArrayFits' /\ size' \in Nat /\ nevents' \in Nat
      /\ conn' \in [Clients -> {"away", "backlog", "open", "closed"}]
      /\ queue' \in [Clients -> Seq(Packages)]
      /\ SendInv'
      /\ edge' = edge \ {cur} /\ batch' = batch
      /\ fault' \in {fault, "wild_pointer"}
      /\ buf' \in [Clients -> 0..MaxReqs] /\ \A d \in Clients : buf'[d] <= buf[d]
  BY <1>1, CloseFacts
<1>3. UNCHANGED <<peer, inbox, nreqs, room, nospace, made, got, cut, left, starved, cur, curIn>>
  BY <1>1, CloseFacts
<1>4. TypeOK'
  BY <1>1, <1>2, <1>3 DEF TypeOK
<1>5. LoopInv'
  BY <1>1, <1>2, <1>3 DEF LoopInv, Callbacks
<1>6. CountInv'
  <2>1. \A d \in Clients : buf'[d] \in Nat /\ buf'[d] <= buf[d]
    BY <1>2, BoundsAssumption
  <2>2. \A d \in Clients : Due(d)' = Due(d)
    BY <1>1 DEF Due
  <2> QED
    BY <1>3, <2>1, <2>2, CountFewer
<1> QED
  BY <1>2, <1>4, <1>5, <1>6

\* send(Session*, CmdPkg*) makes a package, which is taken or queued.
LEMMA ReplyInv == ASSUME IInv, Reply PROVE IInv'
<1> DEFINE p == made[cur] + 1
<1>1. /\ cur \in Open /\ cur \in Clients /\ pc = "reply" /\ left > 0
      /\ UNCHANGED <<conn, peer, inbox, nreqs, buf, edge, batch, size, nevents, pc, cur, curIn, starved, fault>>
      /\ made' = [made EXCEPT ![cur] = p] /\ left' = left - 1
  BY DEF IInv, Reply, At, LoopInv, Callbacks, Open, netVars, arrVars
<1>2. Open' = Open
  BY <1>1 DEF Open
<1>3. p \in Packages /\ made[cur] \in Nat /\ left \in Nat /\ left' \in 0..Replies
  BY <1>1, MadeBound, BoundsAssumption, SMTT(30) DEF IInv, TypeOK, Packages
<1>4. ArrayFits' /\ LoopInv'
  BY <1>1, <1>2 DEF IInv, ArrayFits, LoopInv
<1>5. CountInv'
  <2> SUFFICES ASSUME NEW d \in Clients
               PROVE  made'[d] + Due(d)' + Replies * Unhandled(d) <= Replies * nreqs
    BY <1>1 DEF IInv, CountInv, Unhandled
  <2>1. made[d] + Due(d) + Replies * Unhandled(d) <= Replies * nreqs
    BY DEF IInv, CountInv
  <2>2. CASE d = cur
    <3>1. made'[d] = made[d] + 1 /\ Due(d)' = left - 1 /\ Due(d) = left
      BY <1>1, <2>2 DEF IInv, TypeOK, Due
    <3>2. made'[d] + Due(d)' = made[d] + Due(d)
      BY <1>3, <2>2, <3>1
    <3> QED
      BY <2>1, <3>2
  <2>3. CASE d # cur
    BY <1>1, <2>1, <2>3 DEF IInv, TypeOK, Due
  <2> QED
    BY <2>2, <2>3
<1>6. queue[cur] \in Seq(Packages) /\ Once(queue[cur], got[cur], made[cur])
  BY <1>1 DEF IInv, TypeOK, Packages, SendInv, Open
<1>7. CASE SendTakes(cur, p) /\ UNCHANGED queue
  <2>1. got' = [got EXCEPT ![cur] = @ \cup {p}]
    BY <1>1, <1>3, <1>7, TakesTypes DEF IInv
  <2>2. TypeOK'
    <3>1. /\ room' \in [Clients -> 0..Room] /\ nospace' \in [Clients -> BOOLEAN] /\ cut' \in BOOLEAN
          /\ got' \in [Clients -> SUBSET Packages]
      BY <1>1, <1>3, <1>7, TakesTypes DEF IInv
    <3>2. made' \in [Clients -> {0} \cup Packages]
      BY <1>1, <1>3 DEF IInv, TypeOK
    <3> QED
      BY <1>1, <1>3, <1>7, <3>1, <3>2 DEF IInv, TypeOK
  <2>3. Once(queue[cur], got[cur] \cup {p}, p)
    BY <1>3, <1>6, OnceTaken
  <2>4. SendInv'
    BY <1>1, <1>7, <2>1, <2>3 DEF IInv, SendInv, TypeOK, Open
  <2> QED
    BY <1>4, <1>5, <2>2, <2>4 DEF IInv
<1>8. CASE SendBlocks(cur) /\ queue' = [queue EXCEPT ![cur] = Append(@, p)]
  <2>1. Append(queue[cur], p) \in Seq(Packages)
    BY <1>3, <1>6
  <2>2. TypeOK'
    <3>1. nospace' \in [Clients -> BOOLEAN] /\ UNCHANGED <<room, got, cut>>
      BY <1>1, <1>8, BlocksTypes DEF IInv
    <3>2. made' \in [Clients -> {0} \cup Packages] /\ queue' \in [Clients -> Seq(Packages)]
      BY <1>1, <1>3, <1>8, <2>1 DEF IInv, TypeOK
    <3> QED
      BY <1>1, <1>3, <3>1, <3>2 DEF IInv, TypeOK
  <2>3. Once(Append(queue[cur], p), got[cur], p)
    BY <1>3, <1>6, OnceQueued
  <2>4. SendInv'
    BY <1>1, <1>8, <2>3 DEF IInv, SendInv, TypeOK, Open, SendBlocks
  <2> QED
    BY <1>4, <1>5, <2>2, <2>4 DEF IInv
<1> QED
  BY <1>7, <1>8 DEF Reply

\* The answer is complete.
LEMMA ReplyEndInv == ASSUME IInv, ReplyEnd PROVE IInv'
<1> USE DEF ReplyEnd, At, IInv, netVars, sendVars, arrVars
<1>1. Open' = Open
  BY DEF Open
<1>2. TypeOK'
  BY DEF TypeOK
<1>3. ArrayFits' /\ LoopInv' /\ SendInv' /\ CountInv'
  BY <1>1 DEF ArrayFits, LoopInv, SendInv, CountInv, Due, Unhandled, Callbacks
<1> QED
  BY <1>2, <1>3

\* The process ends: nothing else changes.
LEMMA SendThrowsInv == ASSUME IInv, SendThrows PROVE IInv'
<1> USE DEF SendThrows, IInv, netVars, sendVars, arrVars, loopVars
<1>1. Open' = Open
  BY DEF Open
<1>2. TypeOK'
  BY DEF TypeOK
<1>3. ArrayFits' /\ LoopInv' /\ SendInv' /\ CountInv'
  BY <1>1 DEF ArrayFits, LoopInv, SendInv, CountInv, Due, Unhandled
<1> QED
  BY <1>2, <1>3

\* Every step preserves the invariant.
LEMMA NextIInv == IInv /\ [Next]_vars => IInv'
<1> SUFFICES ASSUME IInv, [Next]_vars PROVE IInv'
  OBVIOUS
<1>1. ASSUME NEW c \in Clients, Client(c) PROVE IInv'
  BY <1>1, ConnectToInv, RequestInv, ClientReadsInv, PeerClosesInv DEF Client
<1>2. ASSUME Server PROVE IInv'
  BY <1>2, EpollWaitInv, WalkEndInv, IncomingConnectionInv, IncomingConnectionThrowsInv, EndEventInv, ClientSocketInv, FlushInv,
     RecvRequestInv, RecvFailsInv, RecvEndInv, ReplyInv, ReplyEndInv, SendThrowsInv DEF Server
<1>3. CASE UNCHANGED vars
  <2> USE <1>3 DEF vars, netVars, sendVars, arrVars, loopVars, IInv
  <2>1. Open' = Open
    BY DEF Open
  <2>2. TypeOK'
    BY DEF TypeOK
  <2>3. ArrayFits' /\ LoopInv' /\ SendInv' /\ CountInv'
    BY <2>1 DEF ArrayFits, LoopInv, SendInv, CountInv, Due, Unhandled
  <2> QED
    BY <2>2, <2>3
<1> QED
  BY <1>1, <1>2, <1>3 DEF Next

-----------------------------------------------------------------------------
(* The theorems *)

\* The invariant holds in every state.
LEMMA Invariance == Spec => []IInv
  BY InitIInv, NextIInv, PTL DEF Spec

\* The variables keep their types; in particular no more packages are made
\* than the requests ask for.
THEOREM TypeCorrect == Spec => []TypeOK
<1>1. IInv => TypeOK
  BY DEF IInv
<1> QED
  BY <1>1, Invariance, PTL

\* The array of Epoll has room for every watched socket, for any edelta and
\* however connections come and go.
THEOREM ArrayAlwaysFits == Spec => []ArrayFits
<1>1. IInv => ArrayFits
  BY DEF IInv
<1> QED
  BY <1>1, Invariance, PTL

\* Epoll::loop and the callbacks of CommandServer never work with a
\* connection that closeConnection has deleted.
THEOREM HandlersStayLive == Spec => []HandlersLive
<1>1. IInv => HandlersLive
  BY DEF IInv, LoopInv, HandlersLive, Callbacks
<1> QED
  BY <1>1, Invariance, PTL

\* Every package made for an open connection is on the send queue or given to
\* the socket, exactly once, however the socket blocks, takes parts and wakes.
THEOREM EachPackageOnce == Spec => []EachOnce
<1>1. IInv => EachOnce
  BY DEF IInv, SendInv, EachOnce, Open, Once, Elems
<1> QED
  BY <1>1, Invariance, PTL
=============================================================================
