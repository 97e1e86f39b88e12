------------------------------ MODULE Shutdown ------------------------------
(***************************************************************************)
(* How gpshub starts and stops: start_gpshub and handle_stop of            *)
(* src/main.cpp, the stop methods of the two servers and of the broadcast  *)
(* threads, and the loop and stop of Epoll.                                *)
(*                                                                         *)
(* The stop handler runs on the main thread (Linux delivers a signal for   *)
(* the process there) and suspends it; it interleaves with the GPS data    *)
(* server thread and with the broadcast threads 1..N.  One step is one     *)
(* access to state another thread shares.  Of a broadcast only whether it  *)
(* sends is kept, of a queued id only whether it is 0 (STOP) or a user's.  *)
(* The stop pipe is edge triggered and never read: a byte written to it is *)
(* reported by one epoll_wait.                                             *)
(*                                                                         *)
(* fault says how the process ended otherwise than by returning from       *)
(* start_gpshub: an uninitialized Epoll pointer was used ("wild_pointer"), *)
(* a deleted one ("use_after_free"), an exception left a thread or the     *)
(* handler ("terminate"), or the command port could not be bound ("exit"). *)
(***************************************************************************)
EXTENDS Naturals, Sequences

CONSTANTS N,          \* number of broadcast threads, option -n
          MaxIds,     \* bound: user ids queued by the GPS thread
          MaxSignals  \* bound: stop signals received

ASSUME NAssumption      == N \in Nat \ {0}
ASSUME BoundsAssumption == MaxIds \in Nat /\ MaxSignals \in Nat

BThreads == 1..N
STOP     == 0  \* what CoordsBroadcastThread::stop queues
UserId   == 1  \* any user's id

VARIABLES
  mainPC,    \* main thread: where it is in start_gpshub and Epoll::loop
  cmdEpl, gpsEpl,    \* the servers' epl: "none" (uninitialized), "live", "deleted"
  cmdLoop, gpsLoop,  \* Epoll::_loop of each
  cmdPipe, gpsPipe,  \* a stop byte epoll_wait has not reported yet
  tcpClosed, udpClosed,  \* the server sockets are closed
  gpsPC,     \* where the GPS thread is
  bPC,       \* bPC[t]: where broadcast thread t is
  loop,      \* loop[t]: CoordsBroadcastThread::loop
  queue,     \* the blocking queue of ids
  hPC, hI,   \* stop handler: where it is ("none": not running), loop index i
  nsig, nids,  \* signals received, user ids queued
  fault      \* how the process ended, "none" while it runs

cmdVars  == <<mainPC, cmdEpl>>
stopVars == <<cmdLoop, gpsLoop, cmdPipe, gpsPipe, tcpClosed, udpClosed, loop>>
gpsVars  == <<gpsPC, gpsEpl, nids>>
hVars    == <<hPC, hI, nsig>>
vars     == <<cmdVars, stopVars, gpsVars, bPC, queue, hVars, fault>>

Init == /\ mainPC = "start"
        /\ cmdEpl = "none" /\ gpsEpl = "none"
        /\ cmdLoop = TRUE /\ gpsLoop = TRUE
        /\ cmdPipe = FALSE /\ gpsPipe = FALSE
        /\ tcpClosed = FALSE /\ udpClosed = FALSE
        /\ gpsPC = "new"
        /\ bPC = [t \in BThreads |-> "new"]
        /\ loop = [t \in BThreads |-> TRUE]
        /\ queue = <<>>
        /\ hPC = "none" /\ hI = 1 /\ nsig = 0 /\ nids = 0
        /\ fault = "none"

Running == fault = "none" /\ mainPC # "done"

Fail(f) == fault' = f /\ UNCHANGED <<cmdVars, stopVars, gpsVars, bPC, queue, hVars>>

-----------------------------------------------------------------------------
(* Main thread; it makes no step while the handler runs on it *)

MainAt(pc) == Running /\ hPC = "none" /\ mainPC = pc

\* Start the broadcast threads and the GPS data server thread.
StartThreads == /\ MainAt("start")
                /\ bPC' = [t \in BThreads |-> "test"]
                /\ gpsPC' = "bind"
                /\ mainPC' = "bind"
                /\ UNCHANGED <<cmdEpl, stopVars, gpsEpl, nids, queue, hVars, fault>>

\* CommandServer::loop: Bind and Listen, epl = new Epoll().
CmdBind == /\ MainAt("bind")
           /\ cmdEpl' = "live"
           /\ mainPC' = "test"
           /\ UNCHANGED <<stopVars, gpsVars, bPC, queue, hVars, fault>>

CmdBindFails == MainAt("bind") /\ Fail("exit")

\* while(_loop); after it delete epl
CmdLoopTest == /\ MainAt("test")
               /\ IF cmdLoop
                  THEN mainPC' = "enter" /\ UNCHANGED cmdEpl
                  ELSE mainPC' = "join_gps" /\ cmdEpl' = "deleted"
               /\ UNCHANGED <<stopVars, gpsVars, bPC, queue, hVars, fault>>

EnterEpollWait == /\ MainAt("enter")
                  /\ mainPC' = "wait"
                  /\ UNCHANGED <<cmdEpl, stopVars, gpsVars, bPC, queue, hVars, fault>>

\* epoll_wait returns the stop pipe's event (no callback is set for it).
CmdStopEvent == /\ MainAt("wait") /\ cmdPipe
                /\ cmdPipe' = FALSE
                /\ mainPC' = "test"
                /\ UNCHANGED <<cmdEpl, cmdLoop, gpsLoop, gpsPipe, tcpClosed, udpClosed, loop>>
                /\ UNCHANGED <<gpsVars, bPC, queue, hVars, fault>>

\* epoll_wait returns a client's event, which is handled.
CmdClientEvent == /\ MainAt("wait")
                  /\ mainPC' = "test"
                  /\ UNCHANGED <<cmdEpl, stopVars, gpsVars, bPC, queue, hVars, fault>>

JoinGps == /\ MainAt("join_gps") /\ gpsPC = "ended"
           /\ mainPC' = "join_b"
           /\ UNCHANGED <<cmdEpl, stopVars, gpsVars, bPC, queue, hVars, fault>>

\* Mutation: the broadcast threads are not waited for.
JoinGpsOnly == /\ MainAt("join_b")
               /\ mainPC' = "done"
               /\ UNCHANGED <<cmdEpl, stopVars, gpsVars, bPC, queue, hVars, fault>>

JoinBroadcast == /\ MainAt("join_b") /\ \A t \in BThreads : bPC[t] = "ended"
                 /\ mainPC' = "done"
                 /\ UNCHANGED <<cmdEpl, stopVars, gpsVars, bPC, queue, hVars, fault>>

MainStep == \/ StartThreads \/ CmdBind \/ CmdBindFails \/ CmdLoopTest \/ EnterEpollWait
            \/ CmdStopEvent \/ JoinGps \/ JoinBroadcast

-----------------------------------------------------------------------------
(* GPS data server thread *)

GpsAt(pc) == Running /\ gpsPC = pc

GpsGoto(pc) == gpsPC' = pc /\ UNCHANGED <<cmdVars, gpsEpl, nids, bPC, hVars, fault>>

\* GpsDataServer::loop: Bind, epl = new Epoll(1).
GpsBind == /\ GpsAt("bind")
           /\ gpsEpl' = "live"
           /\ gpsPC' = "test"
           /\ UNCHANGED <<cmdVars, stopVars, nids, bPC, queue, hVars, fault>>

\* Bind throws; ServerThread::run catches it and the thread ends.
GpsBindFails == GpsAt("bind") /\ GpsGoto("ended") /\ UNCHANGED <<stopVars, queue>>

\* while(_loop)
GpsLoopTest == /\ GpsAt("test")
               /\ GpsGoto(IF gpsLoop THEN "wait" ELSE "delete")
               /\ UNCHANGED <<stopVars, queue>>

\* epoll_wait returns the stop pipe's event ...
GpsStopEvent == /\ GpsAt("wait") /\ gpsPipe
                /\ gpsPipe' = FALSE
                /\ GpsGoto("test")
                /\ UNCHANGED <<cmdLoop, gpsLoop, cmdPipe, tcpClosed, udpClosed, loop, queue>>

\* ... or nothing for 5 seconds ...
GpsTimeout == GpsAt("wait") /\ GpsGoto("test") /\ UNCHANGED <<stopVars, queue>>

\* ... or a datagram's; a closed socket has no more events.
GpsDataEvent == /\ GpsAt("wait") /\ ~udpClosed
                /\ GpsGoto("recv")
                /\ UNCHANGED <<stopVars, queue>>

\* incomingData: Recvfrom, and perhaps a user id is queued.
GpsRecv == /\ GpsAt("recv") /\ ~udpClosed
           /\ \/ UNCHANGED <<queue, nids>>
              \/ nids < MaxIds /\ queue' = Append(queue, UserId) /\ nids' = nids + 1
           /\ gpsPC' = "test"
           /\ UNCHANGED <<cmdVars, stopVars, gpsEpl, bPC, hVars, fault>>

\* The socket was closed after the event: Recvfrom throws through Epoll::loop.
GpsRecvThrows == GpsAt("recv") /\ udpClosed /\ Fail("terminate")

\* delete epl, and the end of the thread
GpsEnd == /\ GpsAt("delete")
          /\ gpsEpl' = "deleted"
          /\ gpsPC' = "ended"
          /\ UNCHANGED <<cmdVars, stopVars, nids, bPC, queue, hVars, fault>>

GpsStep == \/ GpsBind \/ GpsBindFails \/ GpsLoopTest \/ GpsStopEvent \/ GpsTimeout
           \/ GpsRecv \/ GpsRecvThrows \/ GpsEnd

-----------------------------------------------------------------------------
(* Broadcast thread t *)

BAt(t, pc) == Running /\ bPC[t] = pc

BGoto(t, pc) == /\ bPC' = [bPC EXCEPT ![t] = pc]
                /\ UNCHANGED <<cmdVars, stopVars, gpsVars, hVars, fault>>

\* while(loop)
BLoopTest(t) == /\ BAt(t, "test")
                /\ BGoto(t, IF loop[t] THEN "pull" ELSE "ended")
                /\ UNCHANGED queue

\* uqueue->pull(); of the id 0 there is no user: continue
BPull(t) == /\ BAt(t, "pull") /\ queue # <<>>
            /\ BGoto(t, IF Head(queue) = STOP THEN "test" ELSE "broadcast")
            /\ queue' = Tail(queue)

\* The user's position is sent, or nobody is there to get it.
BBroadcast(t) == BAt(t, "broadcast") /\ BGoto(t, "test") /\ UNCHANGED queue

\* Sendto on the socket the handler closed throws, and nothing catches it.
BSendThrows(t) == BAt(t, "broadcast") /\ udpClosed /\ Fail("terminate")

BStep(t) == BLoopTest(t) \/ BPull(t) \/ BBroadcast(t) \/ BSendThrows(t)

-----------------------------------------------------------------------------
(* The stop handler *)

HAt(pc) == Running /\ hPC = pc

HGoto(pc) == hPC' = pc /\ UNCHANGED <<cmdVars, gpsVars, bPC, hI, nsig, fault>>

\* SIGINT, SIGUSR1 or SIGTERM
Signal == /\ HAt("none") /\ nsig < MaxSignals
          /\ hPC' = "cmd_flag" /\ nsig' = nsig + 1 /\ hI' = 1
          /\ UNCHANGED <<cmdVars, stopVars, gpsVars, bPC, queue, fault>>

\* CommandServer::stop: epl->stop() sets _loop ...
CmdStopFlag == /\ HAt("cmd_flag") /\ cmdEpl = "live"
               /\ cmdLoop' = FALSE
               /\ HGoto("cmd_pipe")
               /\ UNCHANGED <<gpsLoop, cmdPipe, gpsPipe, tcpClosed, udpClosed, loop, queue>>

\* Mutation: the byte is not written.
CmdStopNoWrite == HAt("cmd_pipe") /\ HGoto("cmd_close") /\ UNCHANGED <<stopVars, queue>>

\* ... and writes the byte; then tcpSocket->Close().
CmdStopWrite == /\ HAt("cmd_pipe")
                /\ cmdPipe' = TRUE
                /\ HGoto("cmd_close")
                /\ UNCHANGED <<cmdLoop, gpsLoop, gpsPipe, tcpClosed, udpClosed, loop, queue>>

CmdClose == /\ HAt("cmd_close") /\ ~tcpClosed
            /\ tcpClosed' = TRUE
            /\ HGoto("gps_flag")
            /\ UNCHANGED <<cmdLoop, gpsLoop, cmdPipe, gpsPipe, udpClosed, loop, queue>>

\* A second signal: the socket is closed already and Close throws.
CmdCloseThrows == HAt("cmd_close") /\ tcpClosed /\ Fail("terminate")

\* GpsDataServer::stop: epl->stop(), udpSocket->Close()
GpsStopFlag == /\ HAt("gps_flag") /\ gpsEpl = "live"
               /\ gpsLoop' = FALSE
               /\ HGoto("gps_pipe")
               /\ UNCHANGED <<cmdLoop, cmdPipe, gpsPipe, tcpClosed, udpClosed, loop, queue>>

GpsStopWrite == /\ HAt("gps_pipe") /\ gpsEpl = "live"
                /\ gpsPipe' = TRUE
                /\ HGoto("gps_close")
                /\ UNCHANGED <<cmdLoop, gpsLoop, cmdPipe, tcpClosed, udpClosed, loop, queue>>

GpsClose == /\ HAt("gps_close")
            /\ udpClosed' = TRUE
            /\ HGoto("b_flag")
            /\ UNCHANGED <<cmdLoop, gpsLoop, cmdPipe, gpsPipe, tcpClosed, loop, queue>>

BadEpoll(epl) == IF epl = "none" THEN "wild_pointer" ELSE "use_after_free"

\* epl->stop() on a pointer not yet set, or on an Epoll its thread deleted.
StopBadEpoll == /\ \/ HAt("cmd_flag") /\ cmdEpl # "live" /\ fault' = BadEpoll(cmdEpl)
                   \/ (HAt("gps_flag") \/ HAt("gps_pipe")) /\ gpsEpl # "live" /\ fault' = BadEpoll(gpsEpl)
                /\ UNCHANGED <<cmdVars, stopVars, gpsVars, bPC, queue, hVars>>

\* CoordsBroadcastThread::stop of thread i: loop = false ...
BStopFlag == /\ HAt("b_flag")
             /\ loop' = [loop EXCEPT ![hI] = FALSE]
             /\ HGoto("b_put")
             /\ UNCHANGED <<cmdLoop, gpsLoop, cmdPipe, gpsPipe, tcpClosed, udpClosed, queue>>

\* Mutation: the loop over the threads goes one too far.
BStopPutPastEnd == /\ HAt("b_put")
                   /\ queue' = Append(queue, STOP)
                   /\ IF hI <= N
                      THEN hPC' = "b_flag" /\ hI' = hI + 1
                      ELSE hPC' = "none" /\ hI' = 1
                   /\ UNCHANGED <<cmdVars, stopVars, gpsVars, bPC, nsig, fault>>

\* Mutation: the token is left out.
BStopNoPut == /\ HAt("b_put")
              /\ IF hI < N
                 THEN hPC' = "b_flag" /\ hI' = hI + 1 /\ UNCHANGED mainPC
                 ELSE /\ hPC' = "none" /\ hI' = 1
                      /\ mainPC' = IF mainPC = "wait" THEN "test" ELSE mainPC
              /\ UNCHANGED <<cmdEpl, stopVars, gpsVars, bPC, queue, nsig, fault>>

\* ... then uqueue->put(0).  After the last thread the handler returns, and
\* an epoll_wait it interrupted ends with EINTR.
BStopPut == /\ HAt("b_put")
            /\ queue' = Append(queue, STOP)
            /\ IF hI < N
               THEN hPC' = "b_flag" /\ hI' = hI + 1 /\ UNCHANGED mainPC
               ELSE /\ hPC' = "none" /\ hI' = 1
                    /\ mainPC' = IF mainPC = "wait" THEN "test" ELSE mainPC
            /\ UNCHANGED <<cmdEpl, stopVars, gpsVars, bPC, nsig, fault>>

HandlerStep == \/ CmdStopFlag \/ CmdStopWrite \/ CmdClose \/ CmdCloseThrows
               \/ GpsStopFlag \/ GpsStopWrite \/ GpsClose \/ StopBadEpoll
               \/ BStopFlag \/ BStopPut

-----------------------------------------------------------------------------
Next == \/ MainStep \/ CmdClientEvent
        \/ GpsStep \/ GpsDataEvent
        \/ \E t \in BThreads : BStep(t)
        \/ Signal \/ HandlerStep

Spec == Init /\ [][Next]_vars

\* Every runnable thread is run, and the GPS epoll_wait has a timeout.  No
\* signal, datagram or client event is bound to come.
Fairness == /\ WF_vars(MainStep) /\ WF_vars(GpsStep) /\ WF_vars(HandlerStep)
            /\ \A t \in BThreads : WF_vars(BStep(t))

FairSpec == Spec /\ Fairness

-----------------------------------------------------------------------------
(* Properties *)

\* Types of the variables.
TypeOK ==
    /\ mainPC \in {"start", "bind", "test", "enter", "wait", "join_gps", "join_b", "done"}
    /\ cmdEpl \in {"none", "live", "deleted"} /\ gpsEpl \in {"none", "live", "deleted"}
    /\ {cmdLoop, gpsLoop, cmdPipe, gpsPipe, tcpClosed, udpClosed} \subseteq BOOLEAN
    /\ gpsPC \in {"new", "bind", "test", "wait", "recv", "delete", "ended"}
    /\ bPC \in [BThreads -> {"new", "test", "pull", "broadcast", "ended"}]
    /\ loop \in [BThreads -> BOOLEAN]
    /\ queue \in Seq({STOP, UserId})
    /\ hPC \in {"none", "cmd_flag", "cmd_pipe", "cmd_close", "gps_flag", "gps_pipe",
                "gps_close", "b_flag", "b_put"}
    /\ hI \in BThreads /\ nsig \in 0..MaxSignals /\ nids \in 0..MaxIds
    /\ fault \in {"none", "wild_pointer", "use_after_free", "terminate", "exit"}

\* The stop of a broadcast thread is not missed: once stop() is over, the
\* thread does not sit in pull with nothing left on the queue.
StopNotMissed == \A t \in BThreads :
    ~loop[t] /\ bPC[t] = "pull" /\ ~(hPC = "b_put" /\ hI = t) => queue # <<>>

\* When start_gpshub returns, and the servers, the maps and the queue on its
\* stack are gone, no thread that uses them is left, and each one ended
\* because it was told to.
NoOrphans == mainPC = "done" =>
    /\ gpsPC = "ended" /\ ~gpsLoop
    /\ \A t \in BThreads : bPC[t] = "ended" /\ ~loop[t]

\* "wait for background threads to terminate" (start_gpshub): after a stop
\* signal start_gpshub returns, or the process dies of a fault.
StopTerminates == nsig > 0 ~> mainPC = "done" \/ fault # "none"
=============================================================================
