------------------------- MODULE UdpHandshakeProofs -------------------------
(***************************************************************************)
(* Proofs about module UdpHandshake, for sockets of any size, any number   *)
(* of changes of the source port and of acks under way.                    *)
(*                                                                         *)
(* The argument: before setToken nobody outside the server has the token   *)
(* (TokenInv), so an init package that carries it is compared with it; and *)
(* only this client's datagrams carry it (DgramInv).  All addresses that   *)
(* are accepted have the ip address of the TCP connection, so setAddrUdp   *)
(* changes no more than the port of an address that broadcast threads may  *)
(* be reading (AddrInv).  An ack with status 1 is behind the address it    *)
(* tells of, wherever it waits (AckInv).                                   *)
(***************************************************************************)
EXTENDS UdpHandshake, SequenceTheorems, TLAPS

\* What is in a sequence.
Elems(q) == {q[i] : i \in 1..Len(q)}

\* Every datagram there is.
AllDgrams == net \cup Elems(inbox) \cup {dgram}

\* The addresses the client has had.
ClientAddrs == {Mine(p) : p \in 1..port}

\* The GPS thread is in setAddrUdp.
Setting == gpsPC \in {"set_ip", "set_port", "set_ready"}

\* Until the token is set it has been sent to nobody.
TokenInv == utoken # "new" =>
              /\ cmdPC <= 2
              /\ "init_udp" \notin Elems(down) /\ "init_udp" \notin Elems(sendQueue)
              /\ "init_udp" \notin Elems(pending)
              /\ ~token /\ sender = "off"
              /\ \A d \in AllDgrams : d.token # "new"

\* The socket is on the ready list only if there is something to read; only
\* the client knows its token.
DgramInv == /\ edge => inbox # <<>>
            /\ \A d \in AllDgrams : d.token = "new" => d.from \in ClientAddrs

\* Accepted addresses, the stored one and the copy of it.
AddrInv == /\ \A a \in accepted : a.ip = "mine"
           /\ Setting => dgram.from \in accepted
           /\ gpsPC = "set_port" => addr.ip = "mine"
           /\ gpsPC = "set_ready" => addr = dgram.from
           /\ udpReady => addr \in accepted
           /\ bPC # "ready" => udpReady
           /\ bPC = "port" => bAddr.ip = "mine"
           /\ bPC = "send" => bAddr \in accepted

\* Wherever an ack with status 1 is, an address has been stored; without the
\* accident of an unset token it is the client's.
AckInv == /\ "init_ack_1" \in Elems(down) => udpReady
          /\ "init_ack_1" \in Elems(pending) => udpReady
          /\ "init_ack_1" \notin Elems(sendQueue)
          /\ gpsPC = "ack" /\ status = 1 => udpReady
          /\ initialized => udpReady
          /\ ~byChance => accepted \subseteq ClientAddrs

IInv == TypeOK /\ TokenInv /\ DgramInv /\ AddrInv /\ AckInv /\ NeverRefused

-----------------------------------------------------------------------------
(* Sequences *)

\* What an append does.
LEMMA AppendElems ==
  ASSUME NEW S, NEW q \in Seq(S), NEW x \in S
  PROVE  /\ Append(q, x) \in Seq(S) /\ Len(Append(q, x)) = Len(q) + 1 /\ Len(q) \in Nat
         /\ Append(q, x) # <<>>
         /\ Elems(Append(q, x)) = Elems(q) \cup {x}
<1>1. /\ Append(q, x) \in Seq(S) /\ Len(Append(q, x)) = Len(q) + 1 /\ Len(q) \in Nat
      /\ \A i \in 1..Len(q) : Append(q, x)[i] = q[i]
      /\ Append(q, x)[Len(q) + 1] = x
  BY AppendProperties, LenProperties
<1>2. 1..(Len(q) + 1) = 1..Len(q) \cup {Len(q) + 1}
  BY <1>1
<1>3. Append(q, x) # <<>>
  BY <1>1, EmptySeq
<1>4. Elems(Append(q, x)) = Elems(q) \cup {x}
  BY <1>1, <1>2 DEF Elems
<1> QED
  BY <1>1, <1>3, <1>4

\* What taking the head does.
LEMMA TailElems ==
  ASSUME NEW S, NEW q \in Seq(S), q # <<>>
  PROVE  /\ Tail(q) \in Seq(S) /\ Len(Tail(q)) = Len(q) - 1 /\ Len(q) \in Nat
         /\ Head(q) \in S /\ Head(q) \in Elems(q)
         /\ Elems(Tail(q)) \subseteq Elems(q)
<1>1. /\ Head(q) = q[1] /\ Head(q) \in S /\ Tail(q) \in Seq(S)
      /\ Len(q) \in Nat /\ Len(q) > 0
      /\ Len(Tail(q)) = Len(q) - 1
      /\ \A i \in 1..Len(Tail(q)) : Tail(q)[i] = q[i + 1]
  BY HeadTailProperties, LenProperties, EmptySeq
<1>2. \A i \in 1..Len(Tail(q)) : i + 1 \in 1..Len(q)
  BY <1>1
<1>3. Head(q) \in Elems(q)
  BY <1>1 DEF Elems
<1>4. Elems(Tail(q)) \subseteq Elems(q)
  BY <1>1, <1>2 DEF Elems
<1> QED
  BY <1>1, <1>3, <1>4

\* What an erase from the middle does.
LEMMA RemoveAtElems ==
  ASSUME NEW S, NEW q \in Seq(S), NEW i \in 1..Len(q)
  PROVE  /\ RemoveAt(q, i) \in Seq(S) /\ Len(RemoveAt(q, i)) = Len(q) - 1 /\ Len(q) \in Nat
         /\ q[i] \in S /\ q[i] \in Elems(q)
         /\ Elems(RemoveAt(q, i)) \subseteq Elems(q)
<1> DEFINE a == SubSeq(q, 1, i - 1)
           b == SubSeq(q, i + 1, Len(q))
<1>1. Len(q) \in Nat /\ i \in Int /\ 1 <= i /\ i <= Len(q) /\ \A j \in 1..Len(q) : q[j] \in S
  BY LenProperties
<1>2. /\ a \in Seq(S) /\ Len(a) = i - 1
      /\ \A j \in 1..(i - 1) : a[j] = q[j]
  <2>1. \A j \in 1..(i - 1) : q[j] \in S
    BY <1>1
  <2>2. /\ a \in Seq(S) /\ Len(a) = IF 1 <= i - 1 THEN (i - 1) - 1 + 1 ELSE 0
        /\ \A j \in 1..((i - 1) - 1 + 1) : a[j] = q[1 + j - 1]
    BY <1>1, <2>1, SubSeqProperties
  <2> QED
    BY <1>1, <2>2
<1>3. /\ b \in Seq(S) /\ Len(b) = Len(q) - i
      /\ \A j \in 1..(Len(q) - i) : b[j] = q[i + j]
  <2>1. \A j \in (i + 1)..Len(q) : q[j] \in S
    BY <1>1
  <2>2. /\ b \in Seq(S) /\ Len(b) = IF i + 1 <= Len(q) THEN Len(q) - (i + 1) + 1 ELSE 0
        /\ \A j \in 1..(Len(q) - (i + 1) + 1) : b[j] = q[(i + 1) + j - 1]
    BY <1>1, <2>1, SubSeqProperties
  <2> QED
    BY <1>1, <2>2
<1> HIDE DEF a, b
<1>4. /\ a \o b \in Seq(S) /\ Len(a \o b) = Len(q) - 1
      /\ \A j \in 1..(Len(q) - 1) : (a \o b)[j] = IF j <= i - 1 THEN a[j] ELSE b[j - (i - 1)]
  <2>1. /\ a \o b \in Seq(S) /\ Len(a \o b) = Len(a) + Len(b)
        /\ \A j \in 1..(Len(a) + Len(b)) : (a \o b)[j] = IF j <= Len(a) THEN a[j] ELSE b[j - Len(a)]
    BY <1>2, <1>3, ConcatProperties
  <2>2. Len(a) + Len(b) = Len(q) - 1
    BY <1>1, <1>2, <1>3
  <2> QED
    BY <1>2, <2>1, <2>2
<1>5. ASSUME NEW j \in 1..(Len(q) - 1) PROVE \E k \in 1..Len(q) : (a \o b)[j] = q[k]
  <2>1. CASE j <= i - 1
    <3>1. j \in 1..(i - 1) /\ j \in 1..Len(q)
      BY <1>1, <2>1
    <3>2. (a \o b)[j] = q[j]
      BY <1>2, <1>4, <2>1, <3>1
    <3> QED
      BY <3>1, <3>2
  <2>2. CASE j > i - 1
    <3>1. j - (i - 1) \in 1..(Len(q) - i) /\ i + (j - (i - 1)) = j + 1 /\ j + 1 \in 1..Len(q)
      BY <1>1, <2>2
    <3>2. (a \o b)[j] = q[j + 1]
      BY <1>1, <1>3, <1>4, <2>2, <3>1
    <3> QED
      BY <3>1, <3>2
  <2>3. j <= i - 1 \/ j > i - 1
    BY <1>1
  <2> QED
    BY <2>1, <2>2, <2>3
<1>6. RemoveAt(q, i) = a \o b
  BY DEF RemoveAt, a, b
<1>7. Elems(a \o b) \subseteq Elems(q)
  BY <1>4, <1>5 DEF Elems
<1>8. q[i] \in Elems(q)
  BY DEF Elems
<1> QED
  BY <1>1, <1>4, <1>6, <1>7, <1>8

\* Nothing is in the empty sequence.
LEMMA EmptyElems == Elems(<<>>) = {}
  BY DEF Elems

-----------------------------------------------------------------------------
(* The initial state *)

\* The initial state satisfies the invariant.
LEMMA InitIInv == Init => IInv
<1> SUFFICES ASSUME Init PROVE IInv
  OBVIOUS
<1>1. PICK i \in Strays : net = {[token |-> "old", from |-> Stray(i)]}
  BY DEF Init
<1>2. Stray(i) \in Addrs /\ NoAddr \in Addrs /\ NoDgram \in Datagrams /\ NoDgram.token = "old"
  BY StraysAssumption, BoundsAssumption DEF Stray, NoAddr, Addrs, NoDgram, Datagrams
<1>3. TypeOK
  <2>1. net \subseteq Datagrams
    BY <1>1, <1>2 DEF Datagrams
  <2>2. /\ port \in 1..(MaxRebinds + 1) /\ Len(inbox) <= RcvBuf /\ Len(down) <= Room
        /\ cmdPC \in 0..(Len(RegisterSteps) + 1) /\ at \in 1..(Len(pending) + 1)
    BY SizesAssumption, BoundsAssumption DEF Init, RegisterSteps
  <2>3. inbox \in Seq(Datagrams) /\ down \in Seq(Packages) /\ sendQueue \in Seq(Packages) /\ pending \in Seq(Packages)
    BY DEF Init
  <2> QED
    BY <1>2, <2>1, <2>2, <2>3 DEF Init, TypeOK
<1>4. \A d \in AllDgrams : d.token = "old"
  BY <1>1, <1>2, EmptyElems DEF Init, AllDgrams
<1>5. TokenInv /\ DgramInv
  BY <1>4, EmptyElems DEF Init, TokenInv, DgramInv
<1>6. AddrInv /\ AckInv /\ NeverRefused
  BY EmptyElems DEF Init, AddrInv, Setting, AckInv, NeverRefused
<1> QED
  BY <1>3, <1>5, <1>6 DEF IInv

-----------------------------------------------------------------------------
(* The network *)

\* A datagram of the net comes to the socket.
LEMMA DeliverInv == ASSUME IInv, NEW d \in net, Deliver(d) PROVE IInv'
<1> USE DEF Deliver, IInv, clientVars, cmdVars, gpsVars, userVars, bVars, history
<1>1. d \in Datagrams /\ net' \subseteq net
  BY DEF TypeOK
<1>2. /\ inbox' \in Seq(Datagrams) /\ Len(inbox') = Len(inbox) + 1 /\ Len(inbox) \in Nat
      /\ inbox' # <<>> /\ Elems(inbox') = Elems(inbox) \cup {d}
  BY <1>1, AppendElems DEF TypeOK
<1>3. AllDgrams' \subseteq AllDgrams
  BY <1>1, <1>2 DEF AllDgrams
<1>4. TypeOK'
  BY <1>1, <1>2, SizesAssumption DEF TypeOK
<1>5. TokenInv' /\ DgramInv'
  BY <1>2, <1>3 DEF TokenInv, DgramInv, ClientAddrs
<1>6. AddrInv' /\ AckInv' /\ NeverRefused'
  BY DEF AddrInv, Setting, AckInv, ClientAddrs, NeverRefused
<1> QED
  BY <1>4, <1>5, <1>6

\* A datagram is lost.
LEMMA LoseInv == ASSUME IInv, NEW d \in net, Lose(d) PROVE IInv'
<1> USE DEF Lose, IInv, clientVars, cmdVars, gpsVars, userVars, bVars, history
<1>1. AllDgrams' \subseteq AllDgrams /\ net' \subseteq net
  BY DEF AllDgrams
<1>2. TypeOK'
  BY <1>1 DEF TypeOK
<1>3. TokenInv' /\ DgramInv'
  BY <1>1 DEF TokenInv, DgramInv, ClientAddrs
<1>4. AddrInv' /\ AckInv' /\ NeverRefused'
  BY DEF AddrInv, Setting, AckInv, ClientAddrs, NeverRefused
<1> QED
  BY <1>2, <1>3, <1>4

\* The source port changes: the client has had one more address.
LEMMA RebindInv == ASSUME IInv, Rebind PROVE IInv'
<1> USE DEF Rebind, IInv, clientVars, cmdVars, gpsVars, userVars, bVars, history
<1>1. port \in Nat /\ port' = port + 1 /\ port' \in 1..(MaxRebinds + 1)
  BY BoundsAssumption DEF TypeOK
<1>2. ClientAddrs \subseteq ClientAddrs'
  BY <1>1 DEF ClientAddrs, Mine
<1>3. TypeOK'
  BY <1>1 DEF TypeOK
<1>4. TokenInv' /\ DgramInv'
  BY <1>2 DEF TokenInv, DgramInv, AllDgrams
<1>5. AddrInv' /\ AckInv' /\ NeverRefused'
  BY <1>2 DEF AddrInv, Setting, AckInv, NeverRefused
<1> QED
  BY <1>3, <1>4, <1>5

-----------------------------------------------------------------------------
(* The client *)

\* connect's own steps change only where it is.
LEMMA MainInv == ASSUME IInv, Main PROVE IInv'
<1> USE DEF Main, Connect, Wait, IInv, udpVars, cmdVars, gpsVars, userVars, bVars, history
<1>1. TypeOK'
  BY DEF TypeOK
<1>2. TokenInv' /\ DgramInv' /\ AddrInv' /\ AckInv' /\ NeverRefused'
  BY DEF TokenInv, DgramInv, AllDgrams, ClientAddrs, AddrInv, Setting, AckInv, NeverRefused
<1> QED
  BY <1>1, <1>2

\* An init package has the client's token and its present address.
LEMMA InitializeUdpInv == ASSUME IInv, InitializeUdp PROVE IInv'
<1> USE DEF InitializeUdp, IInv, cmdVars, gpsVars, userVars, bVars, history
<1> DEFINE new == [token |-> "new", from |-> Mine(port)]
<1>1. new \in Datagrams /\ new.from \in ClientAddrs
  BY BoundsAssumption DEF TypeOK, Datagrams, Addrs, Mine, ClientAddrs
<1>2. utoken = "new"
  BY DEF TokenInv
<1>3. net' \subseteq net \cup {new} /\ AllDgrams' \subseteq AllDgrams \cup {new}
  BY DEF AllDgrams
<1>4. sender' \in {"on", "ended"}
  OBVIOUS
<1>5. UNCHANGED <<main, userid, token, initialized, port, inbox, edge, down, cmdPC, sendQueue, utoken, gpsPC,
        dgram, status, pending, at, addr, udpReady, bPC, bAddr, accepted, refused, byChance>>
  OBVIOUS
<1> HIDE DEF new, InitializeUdp
<1>6. TypeOK'
  BY <1>1, <1>3, <1>4, <1>5 DEF TypeOK
<1>7. TokenInv' /\ DgramInv'
  BY <1>1, <1>2, <1>3, <1>5 DEF TokenInv, DgramInv, ClientAddrs
<1>8. AddrInv' /\ AckInv' /\ NeverRefused'
  BY <1>5 DEF AddrInv, Setting, AckInv, ClientAddrs, NeverRefused
<1> QED
  BY <1>6, <1>7, <1>8

\* Handling a package: a token makes the sender start only after it was set,
\* an ack makes the channel initialized only if it is.
LEMMA HandleCmdPkgInv == ASSUME IInv, HandleCmdPkg PROVE IInv'
<1>1. /\ down' \in Seq(Packages) /\ Len(down') <= Room
      /\ Head(down) \in Packages /\ Head(down) \in Elems(down) /\ Elems(down') \subseteq Elems(down)
  BY TailElems, SizesAssumption DEF IInv, TypeOK, HandleCmdPkg
<1>2. UNCHANGED <<port, net, inbox, edge, cmdPC, sendQueue, utoken, gpsPC, dgram, status, pending, at, addr,
        udpReady, bPC, bAddr, accepted, refused, byChance>>
  BY DEF HandleCmdPkg, udpVars, cmdVars, gpsVars, userVars, bVars, history
<1>3. TypeOK'
  <2>1. /\ main' \in {"start", "registered", "waiting", "done"}
        /\ userid' \in BOOLEAN /\ token' \in BOOLEAN /\ initialized' \in BOOLEAN
        /\ sender' \in {"off", "on", "ended"}
    BY DEF IInv, TypeOK, HandleCmdPkg, InitAck, clientVars
  <2> QED
    BY <1>1, <1>2, <2>1 DEF IInv, TypeOK
<1>4. TokenInv'
  <2> SUFFICES ASSUME utoken # "new" PROVE TokenInv'
    BY <1>2 DEF TokenInv
  <2>1. Head(down) # "init_udp" /\ ~token /\ sender = "off"
    BY <1>1 DEF IInv, TokenInv
  <2>2. ~token' /\ sender' = "off"
    BY <2>1 DEF HandleCmdPkg, InitAck, clientVars
  <2> QED
    BY <1>1, <1>2, <2>2 DEF IInv, TokenInv, AllDgrams
<1>5. DgramInv' /\ AddrInv' /\ NeverRefused'
  BY <1>2 DEF IInv, DgramInv, AllDgrams, ClientAddrs, AddrInv, Setting, NeverRefused
<1>6. AckInv'
  <2>1. initialized' => initialized \/ Head(down) = "init_ack_1"
    BY DEF HandleCmdPkg, InitAck, clientVars
  <2>2. initialized' => udpReady
    BY <1>1, <2>1 DEF IInv, AckInv
  <2> QED
    BY <1>1, <1>2, <2>2 DEF IInv, AckInv, ClientAddrs
<1> QED
  BY <1>3, <1>4, <1>5, <1>6 DEF IInv

-----------------------------------------------------------------------------
(* The command thread *)

\* The user is on the maps.
LEMMA PutUserInv == ASSUME IInv, PutUser PROVE IInv'
<1> USE DEF PutUser, IInv, clientVars, udpVars, gpsVars, userVars, bVars, history
<1>1. TypeOK'
  BY DEF TypeOK, RegisterSteps
<1>2. TokenInv'
  BY DEF TokenInv, AllDgrams
<1>3. DgramInv' /\ AddrInv' /\ AckInv' /\ NeverRefused'
  BY DEF DgramInv, AllDgrams, ClientAddrs, AddrInv, Setting, AckInv, NeverRefused
<1> QED
  BY <1>1, <1>2, <1>3

\* A package goes to the connection or to the send queue.
LEMMA CmdSendElems ==
  ASSUME TypeOK, NEW p \in Packages, CmdSend(p)
  PROVE  /\ down' \in Seq(Packages) /\ Len(down') <= Room /\ Elems(down') \subseteq Elems(down) \cup {p}
         /\ sendQueue' \in Seq(Packages) /\ Elems(sendQueue') \subseteq Elems(sendQueue) \cup {p}
<1>1. down \in Seq(Packages) /\ sendQueue \in Seq(Packages) /\ Len(down) <= Room /\ Room \in Nat
  BY SizesAssumption DEF TypeOK
<1>2. CASE Len(down) < Room /\ down' = Append(down, p) /\ UNCHANGED sendQueue
  BY <1>1, <1>2, AppendElems
<1>3. CASE sendQueue' = Append(sendQueue, p) /\ UNCHANGED down
  BY <1>1, <1>3, AppendElems
<1> QED
  BY <1>2, <1>3 DEF CmdSend

\* registerNick sets the token before it sends it.
LEMMA RegisterNickInv == ASSUME IInv, RegisterNick PROVE IInv'
<1> DEFINE step == RegisterSteps[cmdPC]
<1>1. /\ cmdPC \in 1..3 /\ cmdPC' = cmdPC + 1 /\ Len(RegisterSteps) = 3
      /\ cmdPC = 1 => step = "nick_ack"
      /\ cmdPC = 2 => step = "set_token"
      /\ cmdPC = 3 => step = "init_udp"
  BY DEF RegisterNick, RegisterSteps
<1>2. UNCHANGED <<main, userid, token, initialized, sender, port, net, inbox, edge, gpsPC, dgram, status, pending,
        at, addr, udpReady, bPC, bAddr, accepted, refused, byChance>>
  BY DEF RegisterNick, clientVars, udpVars, gpsVars, userVars, bVars, history
<1>3. AllDgrams' = AllDgrams
  BY <1>2 DEF AllDgrams
<1>4. DgramInv' /\ AddrInv' /\ NeverRefused'
  BY <1>2, <1>3 DEF IInv, DgramInv, ClientAddrs, AddrInv, Setting, NeverRefused
<1>5. CASE cmdPC = 2
  <2>1. utoken' = "new" /\ UNCHANGED <<down, sendQueue>>
    BY <1>1, <1>5 DEF RegisterNick
  <2>2. TypeOK'
    BY <1>1, <1>2, <2>1 DEF IInv, TypeOK
  <2>3. TokenInv'
    BY <2>1 DEF TokenInv
  <2>4. AckInv'
    BY <1>2, <2>1 DEF IInv, AckInv, ClientAddrs
  <2> QED
    BY <1>4, <2>2, <2>3, <2>4 DEF IInv
<1>6. CASE cmdPC # 2
  <2>1. step \in {"nick_ack", "init_udp"} /\ CmdSend(step) /\ UNCHANGED utoken
    BY <1>1, <1>6 DEF RegisterNick
  <2>2. /\ down' \in Seq(Packages) /\ Len(down') <= Room /\ Elems(down') \subseteq Elems(down) \cup {step}
        /\ sendQueue' \in Seq(Packages) /\ Elems(sendQueue') \subseteq Elems(sendQueue) \cup {step}
    BY <2>1, CmdSendElems DEF IInv, Packages
  <2>3. TypeOK'
    BY <1>1, <1>2, <2>1, <2>2 DEF IInv, TypeOK
  <2>4. TokenInv'
    <3> SUFFICES ASSUME utoken # "new" PROVE TokenInv'
      BY <2>1 DEF TokenInv
    <3>1. cmdPC = 1 /\ step = "nick_ack"
      BY <1>1, <1>6 DEF IInv, TokenInv
    <3> QED
      BY <1>1, <1>2, <1>3, <2>1, <2>2, <3>1 DEF IInv, TokenInv
  <2>5. AckInv'
    BY <1>2, <2>1, <2>2 DEF IInv, AckInv, ClientAddrs
  <2> QED
    BY <1>4, <2>3, <2>4, <2>5 DEF IInv
<1> QED
  BY <1>5, <1>6

\* A package moves from the send queue to the connection.
LEMMA FlushInv == ASSUME IInv, Flush PROVE IInv'
<1>1. UNCHANGED <<main, userid, token, initialized, sender, port, net, inbox, edge, gpsPC, dgram, status, pending,
        at, addr, udpReady, bPC, bAddr, accepted, refused, byChance, cmdPC, utoken>>
  BY DEF Flush, clientVars, udpVars, gpsVars, userVars, bVars, history
<1>2. /\ Head(sendQueue) \in Packages /\ Head(sendQueue) \in Elems(sendQueue)
      /\ sendQueue' \in Seq(Packages) /\ Elems(sendQueue') \subseteq Elems(sendQueue)
  BY TailElems DEF IInv, TypeOK, Flush
<1>3. /\ down' \in Seq(Packages) /\ Len(down') <= Room
      /\ Elems(down') = Elems(down) \cup {Head(sendQueue)}
  BY <1>2, AppendElems, SizesAssumption DEF IInv, TypeOK, Flush
<1>4. TypeOK'
  BY <1>1, <1>2, <1>3 DEF IInv, TypeOK
<1>5. TokenInv' /\ AckInv'
  BY <1>1, <1>2, <1>3 DEF IInv, TokenInv, AllDgrams, AckInv, ClientAddrs
<1>6. DgramInv' /\ AddrInv' /\ NeverRefused'
  BY <1>1 DEF IInv, DgramInv, AllDgrams, ClientAddrs, AddrInv, Setting, NeverRefused
<1> QED
  BY <1>4, <1>5, <1>6 DEF IInv

-----------------------------------------------------------------------------
(* The GPS thread *)

\* Recvfrom takes the first datagram of the socket.
LEMMA GpsRecvInv == ASSUME IInv, GpsRecv PROVE IInv'
<1>1. UNCHANGED <<main, userid, token, initialized, sender, port, net, down, cmdPC, sendQueue, utoken, status,
        pending, at, addr, udpReady, bPC, bAddr, accepted, refused, byChance>>
  BY DEF GpsRecv, clientVars, cmdVars, userVars, bVars, history
<1>2. gpsPC = "wait" /\ gpsPC' = "check" /\ ~edge' /\ edge' \in BOOLEAN
  BY DEF GpsRecv
<1>3. inbox # <<>>
  BY DEF GpsRecv, IInv, DgramInv
<1>4. /\ dgram' \in Datagrams /\ dgram' \in Elems(inbox)
      /\ inbox' \in Seq(Datagrams) /\ Len(inbox') <= RcvBuf /\ Elems(inbox') \subseteq Elems(inbox)
  BY <1>3, TailElems, SizesAssumption DEF IInv, TypeOK, GpsRecv
<1>5. AllDgrams' \subseteq AllDgrams
  BY <1>1, <1>4 DEF AllDgrams
<1>6. TypeOK'
  BY <1>1, <1>2, <1>4 DEF IInv, TypeOK
<1>7. TokenInv' /\ DgramInv'
  BY <1>1, <1>2, <1>5 DEF IInv, TokenInv, DgramInv, ClientAddrs
<1>8. AddrInv' /\ AckInv' /\ NeverRefused'
  BY <1>1, <1>2 DEF IInv, AddrInv, Setting, AckInv, ClientAddrs, NeverRefused
<1> QED
  BY <1>6, <1>7, <1>8 DEF IInv

\* A timeout of epoll_wait.
LEMMA GpsTimeoutInv == ASSUME IInv, GpsTimeout PROVE IInv'
<1> USE DEF GpsTimeout, IInv, clientVars, udpVars, cmdVars, userVars, bVars, history
<1>1. TypeOK'
  BY DEF TypeOK
<1>2. TokenInv' /\ DgramInv' /\ AddrInv' /\ AckInv' /\ NeverRefused'
  BY DEF TokenInv, DgramInv, AllDgrams, ClientAddrs, AddrInv, Setting, AckInv, NeverRefused
<1> QED
  BY <1>1, <1>2

\* The decision about an init package: one with the client's token is not
\* refused, and what is accepted comes from the ip address of the client.
LEMMA InitAddrUdpInv == ASSUME IInv, InitAddrUdp PROVE IInv'
<1> DEFINE good == TokenOK(dgram) /\ ip_equals(Mine(port), dgram.from)
<1>1. /\ UNCHANGED <<main, userid, token, initialized, sender, port, net, inbox, edge, down, cmdPC, sendQueue,
           utoken, pending, at, addr, udpReady, bPC, bAddr>>
      /\ gpsPC = "check"
  BY DEF InitAddrUdp, clientVars, udpVars, cmdVars, userVars, bVars
<1>2. /\ dgram \in Datagrams /\ dgram \in AllDgrams /\ NoDgram \in Datagrams /\ NoDgram.token = "old"
      /\ dgram.from \in Addrs
  BY BoundsAssumption DEF IInv, TypeOK, AllDgrams, NoDgram, Datagrams, NoAddr, Addrs
<1>3. good <=> dgram.token = utoken /\ dgram.from.ip = "mine"
  BY DEF TokenOK, ip_equals, Mine
<1> HIDE DEF good
<1>4. ASSUME dgram' \in {dgram, NoDgram} PROVE TokenInv' /\ DgramInv'
  <2>1. \A d \in AllDgrams' : d \in AllDgrams \/ d = NoDgram
    BY <1>1, <1>4 DEF AllDgrams
  <2> QED
    BY <1>1, <1>2, <2>1 DEF IInv, TokenInv, DgramInv, ClientAddrs
<1>5. CASE cmdPC = 0 /\ gpsPC' = "pending" /\ dgram' = NoDgram /\ UNCHANGED <<status, history>>
  <2> USE <1>5 DEF history
  <2>1. TypeOK'
    BY <1>1, <1>2 DEF IInv, TypeOK
  <2>2. AddrInv' /\ AckInv' /\ NeverRefused'
    BY <1>1 DEF IInv, AddrInv, Setting, AckInv, ClientAddrs, NeverRefused
  <2> QED
    BY <1>4, <2>1, <2>2 DEF IInv
<1>6. CASE /\ good /\ gpsPC' = "set_ip" /\ status' = 1 /\ UNCHANGED <<dgram, refused>>
           /\ accepted' = accepted \cup {dgram.from} /\ byChance' = (byChance \/ utoken # "new")
  <2>1. TypeOK'
    <3>1. accepted' \subseteq Addrs
      BY <1>2, <1>6 DEF IInv, TypeOK
    <3>2. byChance' \in BOOLEAN
      BY <1>6
    <3> QED
      BY <1>1, <1>6, <3>1, <3>2 DEF IInv, TypeOK
  <2>2. AddrInv'
    BY <1>1, <1>3, <1>6 DEF IInv, AddrInv, Setting
  <2>3. AckInv'
    <3>1. ASSUME ~byChance' PROVE accepted' \subseteq ClientAddrs'
      <4>1. ~byChance /\ utoken = "new"
        BY <1>6, <3>1, Zenon
      <4>2. dgram.from \in ClientAddrs
        BY <1>2, <1>3, <1>6, <4>1 DEF IInv, DgramInv
      <4> QED
        BY <1>1, <1>6, <4>1, <4>2 DEF IInv, AckInv, ClientAddrs
    <3> QED
      BY <1>1, <1>6, <3>1 DEF IInv, AckInv
  <2>4. NeverRefused'
    BY <1>6 DEF IInv, NeverRefused
  <2> QED
    BY <1>4, <1>6, <2>1, <2>2, <2>3, <2>4 DEF IInv
<1>7. CASE /\ ~good /\ gpsPC' = "ack" /\ status' = 0 /\ dgram' = NoDgram /\ UNCHANGED <<accepted, byChance>>
           /\ refused' = (refused \/ (dgram.token = "new" /\ dgram.from.ip = "mine"))
  <2>1. NeverRefused'
    <3>1. ~(dgram.token = "new" /\ dgram.from.ip = "mine")
      BY <1>2, <1>3, <1>7 DEF IInv, TokenInv
    <3> QED
      BY <1>7, <3>1, Zenon DEF IInv, NeverRefused
  <2>2. TypeOK'
    <3>1. refused' \in BOOLEAN
      BY <1>7
    <3> QED
      BY <1>1, <1>2, <1>7, <3>1 DEF IInv, TypeOK
  <2>3. AddrInv' /\ AckInv'
    BY <1>1, <1>7 DEF IInv, AddrInv, Setting, AckInv, ClientAddrs
  <2> QED
    BY <1>4, <1>7, <2>1, <2>2, <2>3 DEF IInv
<1> QED
  BY <1>5, <1>6, <1>7 DEF InitAddrUdp, good

\* Storing the address changes no more than the port once an address is there.
LEMMA SetAddrUdpInv == ASSUME IInv, SetAddrUdp PROVE IInv'
<1>1. /\ UNCHANGED <<main, userid, token, initialized, sender, port, net, inbox, edge, down, cmdPC, sendQueue,
           utoken, status, pending, at, bPC, bAddr, accepted, refused, byChance>>
      /\ dgram' \in {dgram, NoDgram} /\ (gpsPC # "set_ready" => dgram' = dgram)
  BY DEF SetAddrUdp, clientVars, udpVars, cmdVars, bVars, history
<1>2. /\ dgram \in Datagrams /\ NoDgram \in Datagrams /\ NoDgram.token = "old"
      /\ dgram.from \in Addrs /\ addr \in Addrs
  BY BoundsAssumption DEF IInv, TypeOK, NoDgram, Datagrams, NoAddr, Addrs
<1>3. Setting /\ dgram.from \in accepted /\ dgram.from.ip = "mine"
  BY DEF SetAddrUdp, Setting, IInv, AddrInv
<1>4. TokenInv' /\ DgramInv'
  <2>1. \A d \in AllDgrams' : d \in AllDgrams \/ d = NoDgram
    BY <1>1 DEF AllDgrams
  <2> QED
    BY <1>1, <1>2, <2>1 DEF IInv, TokenInv, DgramInv, ClientAddrs
<1>5. \A a, b \in Addrs : a.ip = b.ip /\ a.port = b.port => a = b
  BY DEF Addrs
<1>6. CASE /\ gpsPC = "set_ip" /\ gpsPC' = "set_port"
           /\ addr' = [addr EXCEPT !.ip = dgram.from.ip] /\ UNCHANGED udpReady
  <2>1. addr' \in Addrs /\ addr'.ip = "mine" /\ addr'.port = addr.port
    BY <1>2, <1>3, <1>6 DEF Addrs
  <2>2. udpReady => addr' = addr
    BY <1>2, <1>5, <2>1 DEF IInv, AddrInv
  <2>3. TypeOK'
    BY <1>1, <1>2, <1>6, <2>1 DEF IInv, TypeOK
  <2>4. AddrInv'
    BY <1>1, <1>3, <1>6, <2>1, <2>2 DEF IInv, AddrInv, Setting
  <2>5. AckInv' /\ NeverRefused'
    BY <1>1, <1>6 DEF IInv, AckInv, ClientAddrs, NeverRefused
  <2> QED
    BY <1>4, <2>3, <2>4, <2>5 DEF IInv
<1>7. CASE /\ gpsPC = "set_port" /\ gpsPC' = "set_ready"
           /\ addr' = [addr EXCEPT !.port = dgram.from.port] /\ UNCHANGED udpReady
  <2>1. addr' \in Addrs /\ addr'.ip = "mine" /\ addr'.port = dgram.from.port
    BY <1>2, <1>7 DEF IInv, AddrInv, Addrs
  <2>2. addr' = dgram.from
    BY <1>2, <1>3, <1>5, <2>1
  <2>3. TypeOK'
    BY <1>1, <1>2, <1>7, <2>1 DEF IInv, TypeOK
  <2>4. AddrInv'
    BY <1>1, <1>3, <1>7, <2>2 DEF IInv, AddrInv, Setting
  <2>5. AckInv' /\ NeverRefused'
    BY <1>1, <1>7 DEF IInv, AckInv, ClientAddrs, NeverRefused
  <2> QED
    BY <1>4, <2>3, <2>4, <2>5 DEF IInv
<1>8. CASE gpsPC = "set_ready" /\ gpsPC' = "ack" /\ udpReady' = TRUE /\ UNCHANGED addr
  <2>1. TypeOK'
    BY <1>1, <1>2, <1>8 DEF IInv, TypeOK
  <2>2. AddrInv'
    BY <1>1, <1>3, <1>8 DEF IInv, AddrInv, Setting
  <2>3. AckInv' /\ NeverRefused'
    BY <1>1, <1>8 DEF IInv, AckInv, ClientAddrs, NeverRefused
  <2> QED
    BY <1>4, <2>1, <2>2, <2>3 DEF IInv
<1> QED
  BY <1>6, <1>7, <1>8 DEF SetAddrUdp

\* An ack goes to the connection or to the pending queue; one with status 1
\* only after setAddrUdp.
LEMMA SendUdpInitAckInv == ASSUME IInv, SendUdpInitAck PROVE IInv'
<1> DEFINE ack == IF status = 1 THEN "init_ack_1" ELSE "init_ack_0"
<1>1. /\ UNCHANGED <<main, userid, token, initialized, sender, port, net, inbox, edge, cmdPC, sendQueue, utoken,
           dgram, at, addr, udpReady, bPC, bAddr, accepted, refused, byChance>>
      /\ gpsPC = "ack" /\ gpsPC' = "pending" /\ status' = 0
  BY DEF SendUdpInitAck, clientVars, udpVars, cmdVars, userVars, bVars, history
<1>2. /\ ack \in Packages /\ ack # "init_udp" /\ (ack = "init_ack_1" => udpReady)
      /\ down \in Seq(Packages) /\ pending \in Seq(Packages) /\ Len(down) <= Room /\ Room \in Nat
      /\ at \in 1..(Len(pending) + 1)
  BY <1>1, SizesAssumption DEF IInv, AckInv, TypeOK, Packages
<1>3. \/ Len(down) < Room /\ down' = Append(down, ack) /\ UNCHANGED pending
      \/ Len(down) >= Room /\ pending' = Append(pending, ack) /\ UNCHANGED down
  BY DEF SendUdpInitAck
<1> HIDE DEF ack
<1>4. /\ down' \in Seq(Packages) /\ Len(down') <= Room /\ Elems(down') \subseteq Elems(down) \cup {ack}
      /\ pending' \in Seq(Packages) /\ at \in 1..(Len(pending') + 1)
      /\ Elems(pending') \subseteq Elems(pending) \cup {ack}
  <2>1. CASE Len(down) < Room /\ down' = Append(down, ack) /\ UNCHANGED pending
    BY <1>2, <2>1, AppendElems
  <2>2. CASE pending' = Append(pending, ack) /\ UNCHANGED down
    <3>1. /\ pending' \in Seq(Packages) /\ Len(pending') = Len(pending) + 1 /\ Len(pending) \in Nat
          /\ Elems(pending') = Elems(pending) \cup {ack}
      BY <1>2, <2>2, AppendElems
    <3> QED
      BY <1>2, <2>2, <3>1
  <2> QED
    BY <1>3, <2>1, <2>2
<1>5. TypeOK'
  BY <1>1, <1>4 DEF IInv, TypeOK
<1>6. TokenInv' /\ DgramInv'
  BY <1>1, <1>2, <1>4 DEF IInv, TokenInv, DgramInv, AllDgrams, ClientAddrs
<1>7. AddrInv' /\ NeverRefused'
  BY <1>1 DEF IInv, AddrInv, Setting, NeverRefused
<1>8. AckInv'
  BY <1>1, <1>2, <1>4 DEF IInv, AckInv, ClientAddrs
<1> QED
  BY <1>5, <1>6, <1>7, <1>8 DEF IInv

\* sendPendingCmd moves acks from the pending queue to the connection.
LEMMA SendPendingCmdInv == ASSUME IInv, SendPendingCmd PROVE IInv'
<1>1. /\ UNCHANGED <<main, userid, token, initialized, sender, port, net, inbox, edge, cmdPC, sendQueue, utoken,
           dgram, status, addr, udpReady, bPC, bAddr, accepted, refused, byChance>>
      /\ gpsPC = "pending" /\ gpsPC' \in {"pending", "wait"}
  BY DEF SendPendingCmd, clientVars, udpVars, cmdVars, userVars, bVars, history
<1>2. /\ down \in Seq(Packages) /\ pending \in Seq(Packages) /\ Len(down) <= Room /\ Room \in Nat
      /\ at \in 1..(Len(pending) + 1) /\ Len(pending) \in Nat
  BY SizesAssumption, LenProperties DEF IInv, TypeOK
<1>3. /\ down' \in Seq(Packages) /\ Len(down') <= Room /\ Elems(down') \subseteq Elems(down) \cup Elems(pending)
      /\ pending' \in Seq(Packages) /\ at' \in 1..(Len(pending') + 1)
      /\ Elems(pending') \subseteq Elems(pending)
  <2>1. CASE /\ at <= Len(pending) /\ Len(down) < Room
             /\ down' = Append(down, pending[at]) /\ pending' = RemoveAt(pending, at) /\ UNCHANGED at
    <3>1. at \in 1..Len(pending)
      BY <1>2, <2>1
    <3>2. /\ pending' \in Seq(Packages) /\ Len(pending') = Len(pending) - 1
          /\ pending[at] \in Packages /\ pending[at] \in Elems(pending)
          /\ Elems(pending') \subseteq Elems(pending)
      BY <1>2, <2>1, <3>1, RemoveAtElems
    <3>3. /\ down' \in Seq(Packages) /\ Len(down') <= Room
          /\ Elems(down') = Elems(down) \cup {pending[at]}
      BY <1>2, <2>1, <3>2, AppendElems
    <3>4. at' \in 1..(Len(pending') + 1)
      BY <1>2, <2>1, <3>1, <3>2
    <3> QED
      BY <3>2, <3>3, <3>4
  <2>2. CASE at <= Len(pending) /\ at' = at + 1 /\ UNCHANGED <<down, pending>>
    BY <1>2, <2>2
  <2>3. CASE at' = 1 /\ UNCHANGED <<down, pending>>
    BY <1>2, <2>3
  <2> QED
    BY <2>1, <2>2, <2>3 DEF SendPendingCmd
<1>4. TypeOK'
  BY <1>1, <1>3 DEF IInv, TypeOK
<1>6. TokenInv' /\ DgramInv'
  BY <1>1, <1>3 DEF IInv, TokenInv, DgramInv, AllDgrams, ClientAddrs
<1>7. AddrInv' /\ NeverRefused'
  BY <1>1 DEF IInv, AddrInv, Setting, NeverRefused
<1>8. AckInv'
  BY <1>1, <1>3 DEF IInv, AckInv, ClientAddrs
<1> QED
  BY <1>4, <1>6, <1>7, <1>8 DEF IInv

-----------------------------------------------------------------------------
(* The broadcast thread *)

\* The copy of the address a broadcast thread makes is one that was accepted:
\* its ip address is that of all of them, and its port is the port of the
\* address stored when it is read.
LEMMA BroadcastInv == ASSUME IInv, Broadcast PROVE IInv'
<1>1. UNCHANGED <<main, userid, token, initialized, sender, port, net, inbox, edge, down, cmdPC, sendQueue, utoken,
        gpsPC, dgram, status, pending, at, addr, udpReady, accepted, refused, byChance>>
  BY DEF Broadcast, clientVars, udpVars, cmdVars, gpsVars, userVars, history
<1>2. addr \in Addrs /\ bAddr \in Addrs /\ NoAddr \in Addrs
  BY BoundsAssumption DEF IInv, TypeOK, NoAddr, Addrs
<1>3. \A a, b \in Addrs : a.ip = b.ip /\ a.port = b.port => a = b
  BY DEF Addrs
<1>4. udpReady => addr \in accepted /\ addr.ip = "mine"
  BY DEF IInv, AddrInv
<1>5. TokenInv' /\ DgramInv' /\ AckInv' /\ NeverRefused'
  BY <1>1 DEF IInv, TokenInv, DgramInv, AllDgrams, AckInv, ClientAddrs, NeverRefused
<1>6. CASE bPC = "ready" /\ udpReady /\ bAddr' = [bAddr EXCEPT !.ip = addr.ip] /\ bPC' = "port"
  <2>1. bAddr' \in Addrs /\ bAddr'.ip = "mine"
    BY <1>2, <1>4, <1>6 DEF Addrs
  <2>2. TypeOK' /\ AddrInv'
    BY <1>1, <1>6, <2>1 DEF IInv, TypeOK, AddrInv, Setting
  <2> QED
    BY <1>5, <2>2 DEF IInv
<1>7. CASE bPC = "port" /\ bAddr' = [bAddr EXCEPT !.port = addr.port] /\ bPC' = "send"
  <2>1. udpReady /\ bAddr.ip = "mine"
    BY <1>7 DEF IInv, AddrInv
  <2>2. bAddr' \in Addrs /\ bAddr'.ip = "mine" /\ bAddr'.port = addr.port
    BY <1>2, <1>7, <2>1 DEF Addrs
  <2>3. bAddr' = addr /\ addr \in accepted
    BY <1>2, <1>3, <1>4, <2>1, <2>2
  <2>4. TypeOK'
    BY <1>1, <1>7, <2>2 DEF IInv, TypeOK
  <2>5. AddrInv'
    BY <1>1, <1>7, <2>1, <2>3 DEF IInv, AddrInv, Setting
  <2> QED
    BY <1>5, <2>4, <2>5 DEF IInv
<1>8. CASE bPC = "send" /\ bAddr' = NoAddr /\ bPC' = "ready"
  <2>1. TypeOK' /\ AddrInv'
    BY <1>1, <1>2, <1>8 DEF IInv, TypeOK, AddrInv, Setting
  <2> QED
    BY <1>5, <2>1 DEF IInv
<1> QED
  BY <1>6, <1>7, <1>8 DEF Broadcast

-----------------------------------------------------------------------------
(* The theorems *)

\* Every step keeps the invariant.
LEMMA NextIInv == IInv /\ [Next]_vars => IInv'
<1> SUFFICES ASSUME IInv, [Next]_vars PROVE IInv'
  OBVIOUS
<1>1. CASE UNCHANGED vars
  <2>1. UNCHANGED <<main, userid, token, initialized, sender, port, net, inbox, edge, down, cmdPC, sendQueue, utoken,
          gpsPC, dgram, status, pending, at, addr, udpReady, bPC, bAddr, accepted, refused, byChance>>
    BY <1>1 DEF vars, clientVars, udpVars, cmdVars, gpsVars, userVars, bVars, history
  <2>2. TypeOK'
    BY <2>1 DEF IInv, TypeOK
  <2>3. TokenInv' /\ DgramInv'
    BY <2>1 DEF IInv, TokenInv, DgramInv, AllDgrams, ClientAddrs
  <2>4. AddrInv' /\ AckInv' /\ NeverRefused'
    BY <2>1 DEF IInv, AddrInv, Setting, AckInv, ClientAddrs, NeverRefused
  <2> QED
    BY <2>2, <2>3, <2>4 DEF IInv
<1>2. CASE Network
  BY <1>2, RebindInv, DeliverInv, LoseInv DEF Network
<1>3. CASE Main
  BY <1>3, MainInv
<1>4. CASE InitializeUdp
  BY <1>4, InitializeUdpInv
<1>5. CASE HandleCmdPkg
  BY <1>5, HandleCmdPkgInv
<1>6. CASE Command
  BY <1>6, PutUserInv, RegisterNickInv, FlushInv DEF Command
<1>7. CASE Gps
  BY <1>7, GpsRecvInv, GpsTimeoutInv, InitAddrUdpInv, SetAddrUdpInv, SendUdpInitAckInv, SendPendingCmdInv DEF Gps
<1>8. CASE Broadcast
  BY <1>8, BroadcastInv
<1> QED
  BY <1>1, <1>2, <1>3, <1>4, <1>5, <1>6, <1>7, <1>8 DEF Next

\* The invariant holds in every reachable state.
LEMMA Invariance == Spec => []IInv
  BY InitIInv, NextIInv, PTL DEF Spec

\* The types hold in every reachable state; in particular the connection and
\* the UDP socket never hold more than they have room for, and the iterator of
\* sendPendingCmd never leaves the pending queue.
THEOREM TypeCorrect == Spec => []TypeOK
<1>1. IInv => TypeOK
  BY DEF IInv
<1> QED
  BY Invariance, <1>1, PTL

\* A client that was told by an ack that its UDP channel is initialized is
\* right, with any number of lost, repeated and late datagrams: setAddrUdp has
\* stored an address of this client before initAddrUdp sends the ack.
THEOREM AcksTruthful == Spec => []AckTruthful
<1>1. IInv => AckTruthful
  BY DEF IInv, AckInv, AddrInv, AckTruthful, ClientAddrs
<1> QED
  BY Invariance, <1>1, PTL

\* initAddrUdp never refuses an init package that carries the token the client
\* was given, since registerNick sets the token before it sends it.
THEOREM TokenNeverRefused == Spec => []NeverRefused
<1>1. IInv => NeverRefused
  BY DEF IInv
<1> QED
  BY Invariance, <1>1, PTL

\* The address a broadcast thread passes to Sendto, read without a lock while
\* setAddrUdp may be writing it, is one that an accepted init package came from.
THEOREM SentAddressSeen == Spec => []SendAddrSeen
<1>1. IInv => SendAddrSeen
  BY DEF IInv, AddrInv, SendAddrSeen
<1> QED
  BY Invariance, <1>1, PTL

=============================================================================
