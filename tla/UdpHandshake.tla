---------------------------- MODULE UdpHandshake ----------------------------
(***************************************************************************)
(* How a client and the servers set up the UDP channel after a login.      *)
(*                                                                         *)
(*   - the command thread (CommandHandler::registerNick) puts the user     *)
(*     into the maps, sends it its id, sets its token and sends that;      *)
(*   - the client (test/gpshub_pyclient/client.py) then sends id and token *)
(*     by UDP, again and again until an ack arrives by TCP;                *)
(*   - the GPS thread (GpsDataServer::incomingData, initAddrUdp) checks    *)
(*     token and ip address, stores where the datagram came from and acks; *)
(*   - a broadcast thread sends positions of others to the stored address, *)
(*     which it reads without a lock.                                      *)
(*                                                                         *)
(* UDP loses, duplicates, delays and reorders.  A datagram may be about    *)
(* of an earlier user of the id, at the same ip address or another.  A     *)
(* router may give the client's datagrams another source port at any time. *)
(* The UDP socket is edge triggered and read once per event.               *)
(*                                                                         *)
(* User::token has no value before setToken: it is what the memory held,   *)
(* perhaps the token of a deleted user.  byChance tells that an init was   *)
(* accepted because of that.                                               *)
(***************************************************************************)
EXTENDS Naturals, Sequences, SequencesExt

CONSTANTS Room,        \* packages the TCP connection to the client holds
          RcvBuf,      \* datagrams the server's UDP socket holds
          Strays,      \* ip addresses the earlier user of the id may have sent from
          MaxRebinds,  \* bound: how often the source port changes
          MaxAcks      \* bound: acks that wait for the client while more datagrams arrive

ASSUME SizesAssumption  == Room \in Nat \ {0} /\ RcvBuf \in Nat \ {0}
ASSUME StraysAssumption == Strays \subseteq {"mine", "other"} /\ Strays # {}
ASSUME BoundsAssumption == MaxRebinds \in Nat /\ MaxAcks \in Nat \ {0}

\* An address of the client, whose TCP connection comes from ip "mine", and of
\* an earlier user of the id.
Mine(p)  == [ip |-> "mine", port |-> p]
Stray(i) == [ip |-> i, port |-> 0]
NoAddr   == [ip |-> "none", port |-> 0]
Addrs    == [ip : {"mine", "other", "none"}, port : 0..(MaxRebinds + 1)]

\* Datagrams of 8 bytes: a token, and the address it comes from.
Datagrams == [token : {"old", "new"}, from : Addrs]
NoDgram   == [token |-> "old", from |-> NoAddr]
Packages  == {"nick_ack", "init_udp", "init_ack_0", "init_ack_1"}

VARIABLES
  main,      \* connect(): "start", "registered", "waiting" in cv.wait, "done"
  userid, token,  \* the client knows its id, its token
  initialized,    \* the client's udp_initialized
  sender,    \* the thread in _initialize_udp: "off", "on", "ended"
  port,      \* the source port of the client's datagrams
  net,       \* datagrams on their way to the server
  inbox, edge,    \* the server's UDP socket: received; on the ready list
  down,      \* the TCP connection: packages for the client
  cmdPC,     \* the command thread: the step of registerNick it is at, or 0
  sendQueue, \* Session::send_queue
  utoken,    \* User::token
  gpsPC, dgram,   \* the GPS thread: where it is, and buf with their_addr
  status,    \* the ack it is to send
  pending, at,    \* pending_cmd_queue, and the iterator in it
  addr, udpReady, \* User::addr_udp and udp_ready
  bPC, bAddr,     \* a broadcast thread in Sendto: what it has read of addr_udp
  accepted,  \* history: source addresses of the inits accepted
  refused,   \* history: an init of this client was refused
  byChance   \* history: an init was accepted before the token was set

clientVars == <<main, userid, token, initialized, sender>>
udpVars    == <<port, net, inbox, edge>>
cmdVars    == <<cmdPC, sendQueue>>
gpsVars    == <<gpsPC, dgram, status, pending, at>>
userVars   == <<addr, udpReady>>
bVars      == <<bPC, bAddr>>
history    == <<accepted, refused, byChance>>
vars == <<clientVars, udpVars, down, cmdVars, utoken, gpsVars, userVars, bVars, history>>

Init == /\ main = "start" /\ userid = FALSE /\ token = FALSE
        /\ initialized = FALSE /\ sender = "off"
        /\ port = 1 /\ net \in {{[token |-> "old", from |-> Stray(i)]} : i \in Strays}
        /\ inbox = <<>> /\ edge = FALSE
        /\ down = <<>>
        /\ cmdPC = 0 /\ sendQueue = <<>>
        /\ utoken \in {"old", "junk"}
        /\ gpsPC = "wait" /\ dgram = NoDgram
        /\ status = 0 /\ pending = <<>> /\ at = 1
        /\ addr = NoAddr /\ udpReady = FALSE
        /\ bPC = "ready" /\ bAddr = NoAddr
        /\ accepted = {} /\ refused = FALSE /\ byChance = FALSE

-----------------------------------------------------------------------------
(* The network *)

\* A datagram arrives, and one of this client may arrive again, as often as
\* may be.
Deliver(d) == /\ d \in net /\ Len(down) + Len(pending) < MaxAcks
              /\ \/ net' = net \ {d}
                 \/ d.token = "new" /\ net' = net
              /\ Len(inbox) < RcvBuf
              /\ inbox' = Append(inbox, d) /\ edge' = TRUE
              /\ UNCHANGED <<clientVars, port, down, cmdVars, utoken, gpsVars, userVars, bVars, history>>

\* A datagram is lost on its way, or the socket has no room for it.
Lose(d) == /\ d \in net
           /\ net' = net \ {d}
           /\ UNCHANGED <<clientVars, port, inbox, edge, down, cmdVars, utoken, gpsVars, userVars, bVars, history>>

\* The source port changes; before and after the client sends init packages
\* it does not matter.
Rebind == /\ port <= MaxRebinds /\ sender = "on"
          /\ port' = port + 1
          /\ UNCHANGED <<clientVars, net, inbox, edge, down, cmdVars, utoken, gpsVars, userVars, bVars, history>>

-----------------------------------------------------------------------------
(* The client *)

\* connect: _connect_cmd_channel ...
Connect == /\ main = "start" /\ main' = "registered"
           /\ UNCHANGED <<userid, token, initialized, sender, udpVars, down, cmdVars, utoken, gpsVars, userVars, bVars, history>>

\* ... then cv_gps_channel.wait().
Wait == /\ main = "registered" /\ main' = "waiting"
        /\ UNCHANGED <<userid, token, initialized, sender, udpVars, down, cmdVars, utoken, gpsVars, userVars, bVars, history>>

\* Mutation: the init package is sent only once.
InitializeUdpOnce ==
    /\ sender = "on"
    /\ IF initialized
       THEN sender' = "ended" /\ UNCHANGED net
       ELSE net' = net \cup {[token |-> "new", from |-> Mine(port)]} /\ sender' = "ended"
    /\ UNCHANGED <<main, userid, token, initialized, port, inbox, edge, down, cmdVars, utoken, gpsVars, userVars, bVars, history>>

\* _initialize_udp: one round of its loop.
InitializeUdp ==
    /\ sender = "on"
    /\ IF initialized
       THEN sender' = "ended" /\ UNCHANGED net
       ELSE net' = net \cup {[token |-> "new", from |-> Mine(port)]} /\ UNCHANGED sender
    /\ UNCHANGED <<main, userid, token, initialized, port, inbox, edge, down, cmdVars, utoken, gpsVars, userVars, bVars, history>>

\* INITIALIZE_UDP_ACK with status 1: a thread that waits is notified.
InitAck == /\ initialized' = TRUE
           /\ main' = IF main = "waiting" THEN "done" ELSE main
           /\ UNCHANGED <<userid, token, sender>>

\* _handle_cmd_pkg.  The second of id and token starts the thread.
HandleCmdPkg ==
    /\ down # <<>> /\ down' = Tail(down)
    /\ \/ /\ Head(down) = "nick_ack"
          /\ userid' = TRUE
          /\ sender' = IF token THEN "on" ELSE sender
          /\ UNCHANGED <<main, token, initialized>>
       \/ /\ Head(down) = "init_udp"
          /\ token' = TRUE
          /\ IF userid THEN sender' = "on" /\ initialized' = FALSE
                       ELSE UNCHANGED <<sender, initialized>>
          /\ UNCHANGED <<main, userid>>
       \/ Head(down) = "init_ack_0" /\ UNCHANGED clientVars
       \/ Head(down) = "init_ack_1" /\ InitAck
    /\ UNCHANGED <<udpVars, cmdVars, utoken, gpsVars, userVars, bVars, history>>

-----------------------------------------------------------------------------
(* The command thread *)

\* Mutation: the token is set after it has been sent.
RegisterStepsTokenLast == <<"nick_ack", "init_udp", "set_token">>

\* What registerNick does once the user is on the maps.
RegisterSteps == <<"nick_ack", "set_token", "init_udp">>

\* registerNick up to id_umap->put.
PutUser == /\ cmdPC = 0 /\ main # "start"
           /\ cmdPC' = 1
           /\ UNCHANGED <<clientVars, udpVars, down, sendQueue, utoken, gpsVars, userVars, bVars, history>>

\* CommandServer::send
CmdSend(p) == \/ Len(down) < Room /\ down' = Append(down, p) /\ UNCHANGED sendQueue
              \/ Len(down) >= Room /\ sendQueue' = Append(sendQueue, p) /\ UNCHANGED down

RegisterNick == /\ cmdPC \in 1..Len(RegisterSteps)
                /\ cmdPC' = cmdPC + 1
                /\ \/ /\ RegisterSteps[cmdPC] = "set_token"
                      /\ utoken' = "new" /\ UNCHANGED <<down, sendQueue>>
                   \/ /\ RegisterSteps[cmdPC] # "set_token"
                      /\ CmdSend(RegisterSteps[cmdPC]) /\ UNCHANGED utoken
                /\ UNCHANGED <<clientVars, udpVars, gpsVars, userVars, bVars, history>>

\* Back in the event loop: EPOLLOUT.
Flush == /\ cmdPC > Len(RegisterSteps) /\ sendQueue # <<>> /\ Len(down) < Room
         /\ down' = Append(down, Head(sendQueue)) /\ sendQueue' = Tail(sendQueue)
         /\ UNCHANGED <<clientVars, udpVars, cmdPC, utoken, gpsVars, userVars, bVars, history>>

-----------------------------------------------------------------------------
(* The GPS thread *)

\* epoll_wait reports the socket, and incomingData does one Recvfrom ...
GpsRecv == /\ gpsPC = "wait" /\ edge
           /\ edge' = FALSE
           /\ dgram' = Head(inbox) /\ inbox' = Tail(inbox)
           /\ gpsPC' = "check"
           /\ UNCHANGED <<clientVars, port, net, down, cmdVars, utoken, status, pending, at, userVars, bVars, history>>

\* ... or epoll_wait times out.
GpsTimeout == /\ gpsPC = "wait" /\ ~edge /\ pending # <<>>
              /\ gpsPC' = "pending"
              /\ UNCHANGED <<clientVars, udpVars, down, cmdVars, utoken, dgram, status, pending, at, userVars, bVars, history>>

\* Mutation: any token will do.
AnyToken(d) == TRUE

TokenOK(d) == d.token = utoken

\* Mutation: the ip address is not compared.
AnyIp(a, b) == TRUE

ip_equals(a, b) == a.ip = b.ip

\* initAddrUdp up to its decision.  (What is not looked at again is reset.)
InitAddrUdp ==
    LET good == TokenOK(dgram) /\ ip_equals(Mine(port), dgram.from)
    IN  /\ gpsPC = "check"
        /\ \/ /\ cmdPC = 0   \* unknown user
              /\ gpsPC' = "pending" /\ dgram' = NoDgram
              /\ UNCHANGED <<status, history>>
           \/ /\ cmdPC > 0 /\ good
              /\ gpsPC' = "set_ip" /\ status' = 1
              /\ UNCHANGED dgram
              /\ accepted' = accepted \cup {dgram.from}
              /\ byChance' = (byChance \/ utoken # "new")
              /\ UNCHANGED refused
           \/ /\ cmdPC > 0 /\ ~good
              /\ gpsPC' = "ack" /\ status' = 0 /\ dgram' = NoDgram
              /\ refused' = (refused \/ (dgram.token = "new" /\ dgram.from.ip = "mine"))
              /\ UNCHANGED <<accepted, byChance>>
        /\ UNCHANGED <<clientVars, udpVars, down, cmdVars, utoken, pending, at, userVars, bVars>>

\* setAddrUdp, field by field.
SetAddrUdp ==
    /\ \/ /\ gpsPC = "set_ip" /\ gpsPC' = "set_port"
          /\ addr' = [addr EXCEPT !.ip = dgram.from.ip] /\ UNCHANGED udpReady
       \/ /\ gpsPC = "set_port" /\ gpsPC' = "set_ready"
          /\ addr' = [addr EXCEPT !.port = dgram.from.port] /\ UNCHANGED udpReady
       \/ /\ gpsPC = "set_ready" /\ gpsPC' = "ack"
          /\ udpReady' = TRUE /\ UNCHANGED addr
    /\ dgram' = IF gpsPC = "set_ready" THEN NoDgram ELSE dgram
    /\ UNCHANGED <<clientVars, udpVars, down, cmdVars, utoken, status, pending, at, bVars, history>>

SendUdpInitAck ==
    LET ack == IF status = 1 THEN "init_ack_1" ELSE "init_ack_0"
    IN  /\ gpsPC = "ack" /\ gpsPC' = "pending" /\ status' = 0
        /\ \/ Len(down) < Room /\ down' = Append(down, ack) /\ UNCHANGED pending
           \/ Len(down) >= Room /\ pending' = Append(pending, ack) /\ UNCHANGED down
        /\ UNCHANGED <<clientVars, udpVars, cmdVars, utoken, dgram, at, userVars, bVars, history>>

\* Mutation: the iterator moves on after an erase too.
SendPendingCmdSkips ==
    /\ gpsPC = "pending"
    /\ \/ /\ at <= Len(pending) /\ Len(down) < Room
          /\ down' = Append(down, pending[at]) /\ pending' = RemoveAt(pending, at)
          /\ at' = at + 1 /\ UNCHANGED gpsPC
       \/ /\ at <= Len(pending) /\ Len(down) >= Room
          /\ at' = at + 1 /\ UNCHANGED <<down, pending, gpsPC>>
       \/ at > Len(pending) /\ gpsPC' = "wait" /\ at' = 1 /\ UNCHANGED <<down, pending>>
    /\ UNCHANGED <<clientVars, udpVars, cmdVars, utoken, dgram, status, userVars, bVars, history>>

\* sendPendingCmd: one round of its loop, or its end.
SendPendingCmd ==
    /\ gpsPC = "pending"
    /\ \/ /\ at <= Len(pending) /\ Len(down) < Room
          /\ down' = Append(down, pending[at]) /\ pending' = RemoveAt(pending, at)
          /\ UNCHANGED <<at, gpsPC>>
       \/ /\ at <= Len(pending) /\ Len(down) >= Room
          /\ at' = at + 1 /\ UNCHANGED <<down, pending, gpsPC>>
       \/ at > Len(pending) /\ gpsPC' = "wait" /\ at' = 1 /\ UNCHANGED <<down, pending>>
    /\ UNCHANGED <<clientVars, udpVars, cmdVars, utoken, dgram, status, userVars, bVars, history>>

-----------------------------------------------------------------------------
(* A broadcast thread: isUdpReady, and Sendto with getAddrUdpPtr. *)

Broadcast ==
    /\ \/ /\ bPC = "ready" /\ udpReady
          /\ bAddr' = [bAddr EXCEPT !.ip = addr.ip] /\ bPC' = "port"
       \/ bPC = "port" /\ bAddr' = [bAddr EXCEPT !.port = addr.port] /\ bPC' = "send"
       \/ bPC = "send" /\ bAddr' = NoAddr /\ bPC' = "ready"
    /\ UNCHANGED <<clientVars, udpVars, down, cmdVars, utoken, gpsVars, userVars, history>>

-----------------------------------------------------------------------------
Network == Rebind \/ \E d \in net : Deliver(d) \/ Lose(d)
Main    == Connect \/ Wait
Command == PutUser \/ RegisterNick \/ Flush
Gps     == GpsRecv \/ GpsTimeout \/ InitAddrUdp \/ SetAddrUdp \/ SendUdpInitAck \/ SendPendingCmd

Next == Network \/ Main \/ InitializeUdp \/ HandleCmdPkg \/ Command \/ Gps \/ Broadcast

Spec == Init /\ [][Next]_vars

\* Every thread runs.  Of the datagrams that are sent again and again one
\* reaches the socket in the end.
FairSpec == /\ Spec
            /\ WF_vars(Main) /\ WF_vars(InitializeUdp) /\ WF_vars(HandleCmdPkg)
            /\ WF_vars(Command) /\ WF_vars(Gps)
            /\ \A p \in 1..(MaxRebinds + 1) : SF_vars(Deliver([token |-> "new", from |-> Mine(p)]))

-----------------------------------------------------------------------------
(* Properties *)

\* Types of the variables.
TypeOK == /\ main \in {"start", "registered", "waiting", "done"}
          /\ userid \in BOOLEAN /\ token \in BOOLEAN /\ initialized \in BOOLEAN
          /\ sender \in {"off", "on", "ended"}
          /\ port \in 1..(MaxRebinds + 1) /\ net \subseteq Datagrams
          /\ inbox \in Seq(Datagrams) /\ Len(inbox) <= RcvBuf /\ edge \in BOOLEAN
          /\ down \in Seq(Packages) /\ Len(down) <= Room
          /\ cmdPC \in 0..(Len(RegisterSteps) + 1) /\ sendQueue \in Seq(Packages)
          /\ utoken \in {"old", "new", "junk"}
          /\ gpsPC \in {"wait", "check", "set_ip", "set_port", "set_ready", "ack", "pending"}
          /\ dgram \in Datagrams /\ status \in {0, 1}
          /\ pending \in Seq(Packages) /\ at \in 1..(Len(pending) + 1)
          /\ addr \in Addrs /\ udpReady \in BOOLEAN
          /\ bPC \in {"ready", "port", "send"} /\ bAddr \in Addrs
          /\ accepted \subseteq Addrs /\ refused \in BOOLEAN /\ byChance \in BOOLEAN

\* A client that takes its UDP channel for initialized is right: the server
\* has an address for it, and it is one the client has had, though datagrams
\* of an earlier user of the id are still about (unless one of them was
\* accepted in the moment before the token was set).
AckTruthful == initialized => /\ udpReady
                              /\ byChance \/ addr \in {Mine(p) : p \in 1..port}

\* An init package with the token the client was given is never refused, in
\* whatever order its id and token reached it: the token is set before it is
\* sent.
NeverRefused == ~refused

\* Positions are sent only to an address an accepted init package came from,
\* although addr_udp is rewritten without a lock while it is read: the ip
\* address, which is checked, does not change, so no mixture of two can come
\* about.
SendAddrSeen == bPC = "send" => bAddr \in accepted

\* However many datagrams are lost and whatever is left unread in the socket,
\* the client's retries get the UDP channel initialized for good, and a thread
\* that waits in connect before the ack comes is woken.
InitCompletes == /\ <>[]initialized
                 /\ main = "waiting" /\ ~initialized ~> main = "done"
=============================================================================
