----------------------------- MODULE CommandLoop -----------------------------
(***************************************************************************)
(* The event loop of the command server: Epoll::loop, addEvent and         *)
(* removeEvent (src/socket/Epoll.cpp) with the callbacks of                *)
(* src/server/CommandServer.cpp that accept connections, read requests,    *)
(* send packages through a session's send queue and close connections.     *)
(*                                                                         *)
(* Sockets are watched edge triggered: the kernel puts a socket on its     *)
(* ready list (edge) when something happens to it, and epoll_wait takes it *)
(* off again, whether or not the callback then does all there is to do.    *)
(* What epoll_wait reports is the state of the socket at that moment.      *)
(*                                                                         *)
(* A request is one package; it arrives as a whole (CommandStream has      *)
(* packages that arrive in pieces).  A Recv takes one or more of them into *)
(* the session's buffer, and one is handled then: its handler sends        *)
(* Replies packages, numbered per connection.  The send buffer of a socket *)
(* has room for Room packages.                                             *)
(*                                                                         *)
(* fault records how the loop ended: it went on over an array of events    *)
(* that had been replaced ("wild_pointer"); an exception that is no        *)
(* EpollException left Epoll::loop, declared throw(EpollException)         *)
(* ("terminate"; a SIGPIPE ends the process just so); or an EpollException *)
(* did, and CommandServer::loop logs it and returns ("loop_left").         *)
(***************************************************************************)
EXTENDS Naturals, Sequences, FiniteSets

CONSTANTS Clients,
          Listen,    \* the listening socket
          NoClient,
          EDelta,    \* Epoll::edelta
          Room,      \* packages the send buffer of a socket holds
          Replies,   \* packages sent in answer to one request
          Held,      \* requests a session's buffer holds: a client has no more open
          MaxReqs    \* bound: number of requests altogether

ASSUME NamesAssumption  == Listen \notin Clients /\ NoClient \notin Clients
ASSUME FiniteAssumption == IsFiniteSet(Clients)
ASSUME SizesAssumption  == EDelta \in Nat \ {0} /\ Room \in Nat \ {0}
ASSUME BoundsAssumption == Replies \in Nat /\ MaxReqs \in Nat /\ Held \in Nat

VARIABLES
  conn,     \* conn[c]: "away", "backlog" (to be accepted), "open", or "closed":
            \* closeConnection has deleted session, socket and EpollEvent
  peer,     \* peer[c]: "up", "shut" (it closed its end), "reset"
  inbox, nreqs,   \* requests of c not yet read; number of all requests sent
  buf,      \* buf[c]: requests in Session::buf, read and not yet handled
  room,     \* room[c]: packages the send buffer has room for
  nospace,  \* nospace[c]: the socket was found to have no room
  edge,     \* the kernel's ready list
  batch,    \* the events of the array the loop has not come to yet
  size, nevents,  \* Epoll::events_size and nevents
  pc,       \* the loop: "wait", "walk"; a callback: "flush", "recv", "reply"
  cur, curIn,     \* the client the callback is for; EPOLLIN is set
  left,     \* packages of the answer still to be sent
  queue,    \* queue[c]: Session::send_queue
  made,     \* made[c]: number of packages made for c
  got,      \* history: got[c], packages of which Send took all or a part
  cut,      \* history: Send took a part only
  starved,  \* history: an accept failed while connections waited
  fault

netVars  == <<peer, inbox, nreqs, buf>>
sendVars == <<room, nospace, queue, made, got, cut>>
arrVars  == <<size, nevents>>
loopVars == <<pc, cur, curIn, left>>
vars     == <<conn, netVars, edge, batch, sendVars, arrVars, loopVars, starved, fault>>

Open == {c \in Clients : conn[c] = "open"}

\* Mutation: nevents > events_size is tested in place of nevents + 1.
GrownLate(n, sz) == IF n <= sz + 1 THEN sz ELSE sz + EDelta * ((n - sz + EDelta - 2) \div EDelta)

\* addEvent, called until there are n events: events_size afterwards.
Grown(n, sz) == IF n <= sz THEN sz ELSE sz + EDelta * ((n - sz + EDelta - 1) \div EDelta)

\* removeEvent, which leaves n events: events_size afterwards.
Shrunk(n, sz) == IF n + 2 * EDelta <= sz THEN sz - EDelta ELSE sz

\* The stop pipe and the listening socket are added before the loop.
Init == /\ conn = [c \in Clients |-> "away"]
        /\ peer = [c \in Clients |-> "up"]
        /\ inbox = [c \in Clients |-> 0] /\ nreqs = 0
        /\ buf = [c \in Clients |-> 0]
        /\ room = [c \in Clients |-> Room]
        /\ nospace = [c \in Clients |-> FALSE]
        /\ edge = {} /\ batch = {}
        /\ size = Grown(2, EDelta) /\ nevents = 2
        /\ pc = "wait" /\ cur = NoClient /\ curIn = FALSE /\ left = 0
        /\ queue = [c \in Clients |-> <<>>]
        /\ made = [c \in Clients |-> 0]
        /\ got = [c \in Clients |-> {}] /\ cut = FALSE
        /\ starved = FALSE
        /\ fault = "none"

-----------------------------------------------------------------------------
(* The clients and the kernel *)

\* Something happened to the socket of c: it is put on the ready list.
Wake(c) == edge' = IF conn[c] = "open" THEN edge \cup {c} ELSE edge

ConnectTo(c) == /\ conn[c] = "away"
                /\ conn' = [conn EXCEPT ![c] = "backlog"]
                /\ edge' = edge \cup {Listen}
                /\ UNCHANGED <<netVars, batch, sendVars, arrVars, loopVars, starved, fault>>

Request(c) == /\ conn[c] \in {"backlog", "open"} /\ peer[c] = "up" /\ nreqs < MaxReqs
              /\ inbox[c] + buf[c] < Held
              /\ inbox' = [inbox EXCEPT ![c] = @ + 1]
              /\ nreqs' = nreqs + 1
              /\ Wake(c)
              /\ UNCHANGED <<conn, peer, buf, batch, sendVars, arrVars, loopVars, starved, fault>>

\* The client takes a package; one who waits for room is woken.
ClientReads(c) == /\ conn[c] = "open" /\ peer[c] = "up" /\ room[c] < Room
                  /\ room' = [room EXCEPT ![c] = @ + 1]
                  /\ nospace' = [nospace EXCEPT ![c] = FALSE]
                  /\ edge' = IF nospace[c] THEN edge \cup {c} ELSE edge
                  /\ UNCHANGED <<conn, netVars, batch, queue, made, got, cut, arrVars, loopVars, starved, fault>>

\* The client closes its end, or the connection is reset.
PeerCloses(c, how) == /\ conn[c] \in {"backlog", "open"}
                      /\ how = "shut" => peer[c] = "up"
                      /\ how = "reset" => peer[c] # "reset"
                      /\ peer' = [peer EXCEPT ![c] = how]
                      /\ Wake(c)
                      /\ UNCHANGED <<conn, inbox, nreqs, buf, batch, sendVars, arrVars, loopVars, starved, fault>>

-----------------------------------------------------------------------------
(* Epoll *)

At(p) == fault = "none" /\ pc = p

\* The events epoll_wait reports of socket f.
Poll(f) == IF f = Listen
           THEN [fd |-> f, hup |-> FALSE, out |-> FALSE, in |-> \E c \in Clients : conn[c] = "backlog"]
           ELSE [fd |-> f, hup |-> peer[f] # "up", out |-> room[f] > 0,
                 in |-> inbox[f] > 0 \/ peer[f] # "up"]

\* epoll_wait(efd, events, events_size, timeout).  A socket that is polled and
\* has no room is marked like one whose send would block.
EpollWait == /\ At("wait") /\ edge # {}
             /\ \E some \in SUBSET edge :
                  /\ Cardinality(some) = IF Cardinality(edge) <= size THEN Cardinality(edge) ELSE size
                  /\ batch' = {e \in {Poll(f) : f \in some} : e.hup \/ e.in \/ e.out}
                  /\ edge' = edge \ some
                  /\ nospace' = [c \in Clients |-> nospace[c] \/ (c \in some /\ room[c] = 0)]
             /\ pc' = "walk"
             /\ UNCHANGED <<conn, netVars, room, queue, made, got, cut, arrVars, cur, curIn, left, starved, fault>>

WalkEnd == /\ At("walk") /\ batch = {}
           /\ pc' = "wait" /\ cur' = NoClient /\ curIn' = FALSE
           /\ UNCHANGED <<conn, netVars, edge, batch, sendVars, arrVars, left, starved, fault>>

\* The array has been replaced by another one if its size has changed.  The
\* loop goes on with what malloc left in the new one: the old events, if it is
\* the same memory, or a wild pointer.
WalkOn(rest) == /\ batch' = rest
                /\ \/ UNCHANGED fault
                   \/ size' # size /\ rest # {} /\ fault' = "wild_pointer"

-----------------------------------------------------------------------------
(* incomingConnection *)

\* Mutation: one connection is accepted per event.
AcceptsOne(waiting) == {[new |-> {c}, error |-> FALSE] : c \in waiting}

\* Accept is called until it fails: nobody is waiting (EAGAIN), or an error,
\* such as a want of descriptors, which is only logged.
Accepts(waiting) == {[new |-> some, error |-> some # waiting] : some \in SUBSET waiting}

\* addEvent puts a new socket on the ready list, since one can write to it.
IncomingConnection(e) ==
    LET waiting == {c \in Clients : conn[c] = "backlog"}
    IN  /\ At("walk") /\ e \in batch /\ e.fd = Listen
        /\ \E acc \in Accepts(waiting) :
             /\ conn' = [c \in Clients |-> IF c \in acc.new THEN "open" ELSE conn[c]]
             /\ edge' = edge \cup acc.new
             /\ nevents' = nevents + Cardinality(acc.new)
             /\ size' = Grown(nevents', size)
             /\ starved' = (starved \/ acc.error)
        /\ WalkOn(batch \ {e})
        /\ UNCHANGED <<netVars, sendVars, loopVars>>

\* For a connection just accepted addFlags fails with a SocketException, or
\* addEvent with an EpollException.
IncomingConnectionThrows(e) ==
    /\ At("walk") /\ e \in batch /\ e.fd = Listen
    /\ \E c \in Clients : conn[c] = "backlog"
    /\ fault' \in {"terminate", "loop_left"}
    /\ UNCHANGED <<conn, netVars, edge, batch, sendVars, arrVars, loopVars, starved>>

-----------------------------------------------------------------------------
(* closeConnection *)

CloseConnection(c, rest) ==
    /\ conn' = [conn EXCEPT ![c] = "closed"]
    /\ edge' = edge \ {c}
    /\ nevents' = nevents - 1 /\ size' = Shrunk(nevents', size)
    /\ buf' = [buf EXCEPT ![c] = 0]
    /\ queue' = [queue EXCEPT ![c] = <<>>]
    /\ WalkOn(rest)
    /\ UNCHANGED <<peer, inbox, nreqs, room, nospace, made, got, cut, left, starved>>

\* Mutation: the loop does not continue behind end_event_clbk.
EndEventAndCallback(e) ==
    /\ At("walk") /\ e \in batch /\ e.hup
    /\ CloseConnection(e.fd, batch \ {e})
    /\ pc' = "flush" /\ cur' = e.fd /\ curIn' = e.in

\* Mutation: no end_event_clbk is set.
EndEventIgnored(e) == /\ At("walk") /\ e \in batch /\ e.hup
                      /\ batch' = batch \ {e}
                      /\ UNCHANGED <<conn, netVars, edge, sendVars, arrVars, loopVars, starved, fault>>

\* EPOLLERR, EPOLLHUP or EPOLLRDHUP: end_event_clbk
EndEvent(e) == /\ At("walk") /\ e \in batch /\ e.hup
               /\ CloseConnection(e.fd, batch \ {e})
               /\ UNCHANGED <<pc, cur, curIn>>

-----------------------------------------------------------------------------
(* clientSocketClbk *)

ClientSocket(e) == /\ At("walk") /\ e \in batch /\ e.fd \in Clients /\ ~e.hup
                   /\ batch' = batch \ {e}
                   /\ cur' = e.fd /\ curIn' = e.in
                   /\ pc' = IF e.out THEN "flush" ELSE "recv"
                   /\ UNCHANGED <<conn, netVars, edge, sendVars, arrVars, left, starved, fault>>

\* Socket::Send: the kernel takes package p, or what of it there is room for:
\* Send returns how much, and the callers do not look ...
SendTakes(c, p) == /\ peer[c] # "reset" /\ room[c] > 0
                   /\ got' = [got EXCEPT ![c] = @ \cup {p}]
                   /\ \/ /\ room' = [room EXCEPT ![c] = @ - 1]
                         /\ UNCHANGED <<nospace, cut>>
                      \/ /\ room' = [room EXCEPT ![c] = 0]
                         /\ nospace' = [nospace EXCEPT ![c] = TRUE]
                         /\ cut' = TRUE

\* ... or would block ...
SendBlocks(c) == /\ peer[c] # "reset" /\ room[c] = 0
                 /\ nospace' = [nospace EXCEPT ![c] = TRUE]
                 /\ UNCHANGED <<room, got, cut>>

\* ... or the connection is reset and the exception is thrown on.
SendThrows == /\ \/ At("flush") /\ queue[cur] # <<>>
                 \/ At("reply") /\ left > 0
              /\ peer[cur] = "reset"
              /\ fault' = "terminate"
              /\ UNCHANGED <<conn, netVars, edge, batch, sendVars, arrVars, loopVars, starved>>

AfterFlush == pc' = IF curIn THEN "recv" ELSE "walk"

\* Mutation: send takes the package off the queue before it sends it.
FlushPopsFirst ==
    /\ At("flush")
    /\ \/ queue[cur] = <<>> /\ AfterFlush /\ UNCHANGED <<room, nospace, queue, got, cut>>
       \/ /\ queue[cur] # <<>>
          /\ SendTakes(cur, Head(queue[cur]))
          /\ queue' = [queue EXCEPT ![cur] = Tail(@)] /\ UNCHANGED pc
       \/ /\ queue[cur] # <<>>
          /\ SendBlocks(cur) /\ AfterFlush
          /\ queue' = [queue EXCEPT ![cur] = Tail(@)]
    /\ UNCHANGED <<conn, netVars, edge, batch, made, arrVars, cur, curIn, left, starved, fault>>

\* Mutation: send returns after one package.
FlushOne == /\ At("flush")
            /\ \/ queue[cur] = <<>> /\ AfterFlush /\ UNCHANGED <<room, nospace, queue, got, cut>>
               \/ /\ queue[cur] # <<>>
                  /\ SendTakes(cur, Head(queue[cur])) /\ AfterFlush
                  /\ queue' = [queue EXCEPT ![cur] = Tail(@)]
               \/ queue[cur] # <<>> /\ SendBlocks(cur) /\ AfterFlush /\ UNCHANGED queue
            /\ UNCHANGED <<conn, netVars, edge, batch, made, arrVars, cur, curIn, left, starved, fault>>

\* send(EpollEvent*): the queue is sent up to the package that would block.
Flush == /\ At("flush")
         /\ \/ queue[cur] = <<>> /\ AfterFlush /\ UNCHANGED <<room, nospace, queue, got, cut>>
            \/ /\ queue[cur] # <<>>
               /\ SendTakes(cur, Head(queue[cur]))
               /\ queue' = [queue EXCEPT ![cur] = Tail(@)] /\ UNCHANGED pc
            \/ queue[cur] # <<>> /\ SendBlocks(cur) /\ AfterFlush /\ UNCHANGED queue
         /\ UNCHANGED <<conn, netVars, edge, batch, made, arrVars, cur, curIn, left, starved, fault>>

-----------------------------------------------------------------------------
(* incomingData *)

\* Mutation: an end of file is taken for a request.
RecvEndAsRequest(k) ==
    /\ At("recv") /\ (k <= inbox[cur] \/ peer[cur] = "shut") /\ peer[cur] # "reset"
    /\ inbox' = [inbox EXCEPT ![cur] = @ - k]
    /\ buf' = [buf EXCEPT ![cur] = @ + k - 1]
    /\ left' = Replies /\ pc' = "reply"
    /\ UNCHANGED <<conn, peer, nreqs, edge, batch, sendVars, arrVars, cur, curIn, starved, fault>>

\* Recv takes k requests, as many as CMDPKG_MAX bytes hold; the first in the
\* buffer is handled, and the others stay there until a Recv takes more.
RecvRequest(k) == /\ At("recv") /\ k <= inbox[cur] /\ peer[cur] # "reset"
                  /\ inbox' = [inbox EXCEPT ![cur] = @ - k]
                  /\ buf' = [buf EXCEPT ![cur] = @ + k - 1]
                  /\ left' = Replies /\ pc' = "reply"
                  /\ UNCHANGED <<conn, peer, nreqs, edge, batch, sendVars, arrVars, cur, curIn, starved, fault>>

\* EAGAIN, or ECONNRESET, which is only logged.
RecvFails == /\ At("recv")
             /\ (peer[cur] = "up" /\ inbox[cur] = 0) \/ peer[cur] = "reset"
             /\ pc' = "walk"
             /\ UNCHANGED <<conn, netVars, edge, batch, sendVars, arrVars, cur, curIn, left, starved, fault>>

\* End of file.
RecvEnd == /\ At("recv") /\ inbox[cur] = 0 /\ peer[cur] = "shut"
           /\ CloseConnection(cur, batch)
           /\ pc' = "walk" /\ UNCHANGED <<cur, curIn>>

\* send(Session*, CmdPkg*): the socket is tried first; what would block is
\* queued.
Reply == /\ At("reply") /\ left > 0
         /\ LET p == made[cur] + 1
            IN  /\ made' = [made EXCEPT ![cur] = p]
                /\ \/ SendTakes(cur, p) /\ UNCHANGED queue
                   \/ SendBlocks(cur) /\ queue' = [queue EXCEPT ![cur] = Append(@, p)]
         /\ left' = left - 1
         /\ UNCHANGED <<conn, netVars, edge, batch, arrVars, pc, cur, curIn, starved, fault>>

\* The request is done: on to the next Recv.
ReplyEnd == /\ At("reply") /\ left = 0
            /\ pc' = "recv"
            /\ UNCHANGED <<conn, netVars, edge, batch, sendVars, arrVars, cur, curIn, left, starved, fault>>

-----------------------------------------------------------------------------
Client(c) == ConnectTo(c) \/ Request(c) \/ ClientReads(c) \/ \E how \in {"shut", "reset"} : PeerCloses(c, how)

Server == \/ EpollWait \/ WalkEnd
          \/ \E e \in batch : \/ IncomingConnection(e) \/ IncomingConnectionThrows(e)
                             \/ EndEvent(e) \/ ClientSocket(e)
          \/ \E k \in 1..MaxReqs : RecvRequest(k)
          \/ Flush \/ RecvFails \/ RecvEnd \/ Reply \/ ReplyEnd \/ SendThrows

Next == (fault = "none" /\ \E c \in Clients : Client(c)) \/ Server

Spec == Init /\ [][Next]_vars

\* The server's thread runs, and a client takes what has been sent to it.
FairSpec == Spec /\ WF_vars(Server) /\ \A c \in Clients : WF_vars(fault = "none" /\ ClientReads(c))

-----------------------------------------------------------------------------
(* Properties *)

Packages == 1..(Replies * MaxReqs)

\* Types of the variables.
TypeOK == /\ conn \in [Clients -> {"away", "backlog", "open", "closed"}]
          /\ peer \in [Clients -> {"up", "shut", "reset"}]
          /\ inbox \in [Clients -> 0..MaxReqs] /\ nreqs \in 0..MaxReqs
          /\ buf \in [Clients -> 0..MaxReqs]
          /\ room \in [Clients -> 0..Room] /\ nospace \in [Clients -> BOOLEAN]
          /\ edge \subseteq Clients \cup {Listen}
          /\ batch \subseteq [fd : Clients \cup {Listen}, hup : BOOLEAN, out : BOOLEAN, in : BOOLEAN]
          /\ size \in Nat /\ nevents \in Nat
          /\ pc \in {"wait", "walk", "flush", "recv", "reply"}
          /\ cur \in Clients \cup {NoClient} /\ curIn \in BOOLEAN /\ left \in 0..Replies
          /\ queue \in [Clients -> Seq(Packages)] /\ made \in [Clients -> {0} \cup Packages]
          /\ got \in [Clients -> SUBSET Packages] /\ cut \in BOOLEAN
          /\ starved \in BOOLEAN
          /\ fault \in {"none", "wild_pointer", "terminate", "loop_left"}

\* However connections come and go, the array of events has room for an event
\* of each watched socket, so epoll_wait leaves none behind, and it is never
\* of size 0, which epoll_wait refuses.
ArrayFits == nevents = 2 + Cardinality(Open) /\ nevents <= size

\* The loop and the callbacks work only with connections that are open: an
\* EpollEvent or a session is not used after closeConnection has deleted it.
HandlersLive == /\ \A e \in batch : e.fd = Listen \/ e.fd \in Open
                /\ pc \in {"flush", "recv", "reply"} => cur \in Open

\* Every package made for an open connection is on the send queue or has been
\* given to the socket, never both and never twice, whichever way the socket
\* blocks and wakes and sends overtake the queue.  (Of a package the socket
\* took it may have taken a part only: see SentWhole.)
EachOnce ==
    \A c \in Open :
        /\ Cardinality(got[c]) + Len(queue[c]) = made[c]
        /\ got[c] \cup {queue[c][j] : j \in 1..Len(queue[c])} = 1..made[c]

\* A waiting connection is accepted, although the listening socket is edge
\* triggered, unless Accept fails.
Accepted == \A c \in Clients : conn[c] = "backlog" ~> conn[c] = "open" \/ starved \/ fault # "none"

\* What has arrived at an edge triggered socket is read to the end.
RequestsRead == \A c \in Clients :
    conn[c] = "open" /\ inbox[c] > 0 ~> inbox[c] = 0 \/ conn[c] = "closed" \/ fault # "none"

\* What an edge announced is dealt with to the end: every waiting connection
\* is accepted and a client's socket is read empty.  No callback returns early
\* and then waits for an edge that does not come.  (A request read together
\* with an earlier one may stay in the session's buffer: see
\* WholePackageProcessed.)
EdgesServed == Accepted /\ RequestsRead

\* A queued package does not stay on the queue: a socket that would block
\* reports EPOLLOUT once it has room, and then the queue is sent.
QueueDrains == \A c \in Clients :
    queue[c] # <<>> ~> queue[c] = <<>> \/ fault # "none"

\* A connection the client closes or that is reset is closed by the server
\* too, whatever it was doing, so that its user is logged out.
DisconnectClosed == \A c \in Clients :
    conn[c] = "open" /\ peer[c] # "up" ~> conn[c] = "closed" \/ fault # "none"

-----------------------------------------------------------------------------
(* What the documentation says and the code does not keep *)

\* "handle incomming connection", "handle disconnects" (README): connecting
\* and disconnecting clients do not end the server.  But addEvent and
\* removeEvent replace the array the loop is walking over.
LoopSurvives == fault # "wild_pointer"

\* "if still here, sending succeeded so clean up" (send): a package that Send
\* took is at the kernel as a whole.  But Send may take a part; the rest is
\* deleted with the package and the client's stream is out of step.
SentWhole == ~cut

\* "we have whole package - process it" (incomingData): a whole package in a
\* session's buffer is processed.  But one package is processed per Recv: the
\* second of two that one Recv took waits for the client to send more.
WholePackageProcessed == \A c \in Clients : buf[c] > 0 ~> buf[c] = 0 \/ fault # "none"
=============================================================================
