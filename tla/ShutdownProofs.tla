--------------------------- MODULE ShutdownProofs ---------------------------
(***************************************************************************)
(* Type correctness of Shutdown and NoOrphans, for any number of broadcast *)
(* threads, queued ids and stop signals.                                   *)
(*                                                                         *)
(* NoOrphans needs to know how far the stop handler is.  It works through  *)
(* the command server, the GPS data server and the broadcast threads in    *)
(* that order (HandlerOrder), and the main thread, suspended meanwhile,    *)
(* sees the command server's flag only when all others are set too         *)
(* (StopComplete).                                                         *)
(***************************************************************************)
EXTENDS Shutdown, TLAPS

\* What the handler has reached so far stays stopped.
HandlerOrder ==
    /\ hPC \notin {"b_flag", "b_put"} => hI = 1
    /\ hPC \in {"gps_pipe", "gps_close", "b_flag", "b_put"} => ~gpsLoop
    /\ hPC = "b_flag" => \A t \in BThreads : t < hI => ~loop[t]
    /\ hPC = "b_put"  => \A t \in BThreads : t <= hI => ~loop[t]

\* When no handler runs, the command server's flag goes with all the others.
StopComplete == hPC = "none" /\ ~cmdLoop => ~gpsLoop /\ \A t \in BThreads : ~loop[t]

\* The main thread leaves its loop on the flag and joins the threads in order.
MainOrder ==
    /\ mainPC \in {"join_gps", "join_b", "done"} => ~cmdLoop
    /\ mainPC \in {"join_b", "done"} => gpsPC = "ended"
    /\ mainPC = "done" => hPC = "none" /\ \A t \in BThreads : bPC[t] = "ended"

IInv == TypeOK /\ HandlerOrder /\ StopComplete /\ MainOrder

-----------------------------------------------------------------------------
(* The initial states *)

\* Before main starts its threads nothing has been stopped.
LEMMA InitIInv == Init => IInv
<1> SUFFICES ASSUME Init PROVE IInv
  OBVIOUS
<1>1. bPC \in [BThreads -> {"new", "test", "pull", "broadcast", "ended"}] /\ loop \in [BThreads -> BOOLEAN]
  BY Zenon DEF Init
<1>2. queue \in Seq({STOP, UserId})
  BY DEF Init
<1>3. hI \in BThreads /\ nsig \in 0..MaxSignals /\ nids \in 0..MaxIds
  BY NAssumption, BoundsAssumption DEF Init, BThreads
<1>4. {cmdLoop, gpsLoop, cmdPipe, gpsPipe, tcpClosed, udpClosed} \subseteq BOOLEAN
  BY DEF Init
<1>5. TypeOK
  BY <1>1, <1>2, <1>3, <1>4 DEF Init, TypeOK
<1>6. HandlerOrder /\ StopComplete /\ MainOrder
  BY DEF Init, HandlerOrder, StopComplete, MainOrder
<1> QED
  BY <1>5, <1>6 DEF IInv

-----------------------------------------------------------------------------
(* The steps: first the types, then the order of the stop *)

\* The main thread keeps the types.
LEMMA MainTypes ==
  ASSUME TypeOK, MainStep \/ CmdClientEvent
  PROVE  TypeOK'
<1>1. CASE StartThreads
  BY NAssumption, BoundsAssumption, <1>1 DEF StartThreads, MainAt, Running, cmdVars, stopVars, gpsVars, hVars, TypeOK, BThreads, STOP, UserId
<1>2. CASE CmdBind
  BY NAssumption, BoundsAssumption, <1>2 DEF CmdBind, MainAt, Running, cmdVars, stopVars, gpsVars, hVars, TypeOK, BThreads, STOP, UserId
<1>3. CASE CmdBindFails
  BY NAssumption, BoundsAssumption, <1>3 DEF CmdBindFails, MainAt, Running, Fail, cmdVars, stopVars, gpsVars, hVars, TypeOK, BThreads, STOP, UserId
<1>4. CASE CmdLoopTest
  BY NAssumption, BoundsAssumption, <1>4 DEF CmdLoopTest, MainAt, Running, cmdVars, stopVars, gpsVars, hVars, TypeOK, BThreads, STOP, UserId
<1>5. CASE EnterEpollWait
  BY NAssumption, BoundsAssumption, <1>5 DEF EnterEpollWait, MainAt, Running, cmdVars, stopVars, gpsVars, hVars, TypeOK, BThreads, STOP, UserId
<1>6. CASE CmdStopEvent
  BY NAssumption, BoundsAssumption, <1>6 DEF CmdStopEvent, MainAt, Running, cmdVars, stopVars, gpsVars, hVars, TypeOK, BThreads, STOP, UserId
<1>7. CASE JoinGps
  BY NAssumption, BoundsAssumption, <1>7 DEF JoinGps, MainAt, Running, cmdVars, stopVars, gpsVars, hVars, TypeOK, BThreads, STOP, UserId
<1>8. CASE JoinBroadcast
  BY NAssumption, BoundsAssumption, <1>8 DEF JoinBroadcast, MainAt, Running, cmdVars, stopVars, gpsVars, hVars, TypeOK, BThreads, STOP, UserId
<1>9. CASE CmdClientEvent
  BY NAssumption, BoundsAssumption, <1>9 DEF CmdClientEvent, MainAt, Running, cmdVars, stopVars, gpsVars, hVars, TypeOK, BThreads, STOP, UserId
<1> QED
  BY <1>1, <1>2, <1>3, <1>4, <1>5, <1>6, <1>7, <1>8, <1>9 DEF MainStep

\* The GPS thread keeps the types.
LEMMA GpsTypes ==
  ASSUME TypeOK, GpsStep \/ GpsDataEvent
  PROVE  TypeOK'
<1>1. CASE GpsBind
  BY NAssumption, BoundsAssumption, <1>1 DEF GpsBind, GpsAt, Running, cmdVars, stopVars, gpsVars, hVars, TypeOK, BThreads, STOP, UserId
<1>2. CASE GpsBindFails
  BY NAssumption, BoundsAssumption, <1>2 DEF GpsBindFails, GpsAt, Running, GpsGoto, cmdVars, stopVars, gpsVars, hVars, TypeOK, BThreads, STOP, UserId
<1>3. CASE GpsLoopTest
  BY NAssumption, BoundsAssumption, <1>3 DEF GpsLoopTest, GpsAt, Running, GpsGoto, cmdVars, stopVars, gpsVars, hVars, TypeOK, BThreads, STOP, UserId
<1>4. CASE GpsStopEvent
  BY NAssumption, BoundsAssumption, <1>4, ZenonT(30) DEF GpsStopEvent, GpsAt, Running, GpsGoto, cmdVars, stopVars, gpsVars, hVars, TypeOK, BThreads, STOP, UserId
<1>5. CASE GpsTimeout
  BY NAssumption, BoundsAssumption, <1>5 DEF GpsTimeout, GpsAt, Running, GpsGoto, cmdVars, stopVars, gpsVars, hVars, TypeOK, BThreads, STOP, UserId
<1>6. CASE GpsRecv
  <2>1. queue' \in Seq({STOP, UserId}) /\ nids' \in 0..MaxIds
    BY BoundsAssumption, <1>6, SMTT(30) DEF GpsRecv, TypeOK
  <2> QED
    BY <1>6, <2>1 DEF GpsRecv, GpsAt, Running, cmdVars, stopVars, hVars, TypeOK
<1>7. CASE GpsRecvThrows
  BY NAssumption, BoundsAssumption, <1>7 DEF GpsRecvThrows, GpsAt, Running, Fail, cmdVars, stopVars, gpsVars, hVars, TypeOK, BThreads, STOP, UserId
<1>8. CASE GpsEnd
  BY NAssumption, BoundsAssumption, <1>8 DEF GpsEnd, GpsAt, Running, cmdVars, stopVars, gpsVars, hVars, TypeOK, BThreads, STOP, UserId
<1>9. CASE GpsDataEvent
  BY NAssumption, BoundsAssumption, <1>9 DEF GpsDataEvent, GpsAt, Running, GpsGoto, cmdVars, stopVars, gpsVars, hVars, TypeOK, BThreads, STOP, UserId
<1> QED
  BY <1>1, <1>2, <1>3, <1>4, <1>5, <1>6, <1>7, <1>8, <1>9 DEF GpsStep

\* A broadcast thread keeps the types.
LEMMA BroadcastTypes ==
  ASSUME NEW t \in BThreads, TypeOK, BStep(t)
  PROVE  TypeOK'
<1>1. CASE BLoopTest(t)
  BY NAssumption, BoundsAssumption, <1>1 DEF BLoopTest, BAt, Running, BGoto, cmdVars, stopVars, gpsVars, hVars, TypeOK, BThreads, STOP, UserId
<1>2. CASE BPull(t)
  BY NAssumption, BoundsAssumption, <1>2 DEF BPull, BAt, Running, BGoto, cmdVars, stopVars, gpsVars, hVars, TypeOK, BThreads, STOP, UserId
<1>3. CASE BBroadcast(t)
  BY NAssumption, BoundsAssumption, <1>3 DEF BBroadcast, BAt, Running, BGoto, cmdVars, stopVars, gpsVars, hVars, TypeOK, BThreads, STOP, UserId
<1>4. CASE BSendThrows(t)
  BY NAssumption, BoundsAssumption, <1>4 DEF BSendThrows, BAt, Running, Fail, cmdVars, stopVars, gpsVars, hVars, TypeOK, BThreads, STOP, UserId
<1> QED
  BY <1>1, <1>2, <1>3, <1>4 DEF BStep

\* The stop handler keeps the types.
LEMMA HandlerTypes ==
  ASSUME TypeOK, Signal \/ HandlerStep
  PROVE  TypeOK'
<1>1. CASE Signal
  BY NAssumption, BoundsAssumption, <1>1 DEF Signal, HAt, Running, cmdVars, stopVars, gpsVars, hVars, TypeOK, BThreads, STOP, UserId
<1>2. CASE CmdStopFlag
  BY NAssumption, BoundsAssumption, <1>2 DEF CmdStopFlag, HAt, Running, HGoto, cmdVars, stopVars, gpsVars, hVars, TypeOK, BThreads, STOP, UserId
<1>3. CASE CmdStopWrite
  BY NAssumption, BoundsAssumption, <1>3 DEF CmdStopWrite, HAt, Running, HGoto, cmdVars, stopVars, gpsVars, hVars, TypeOK, BThreads, STOP, UserId
<1>4. CASE CmdClose
  BY NAssumption, BoundsAssumption, <1>4 DEF CmdClose, HAt, Running, HGoto, cmdVars, stopVars, gpsVars, hVars, TypeOK, BThreads, STOP, UserId
<1>5. CASE CmdCloseThrows
  BY NAssumption, BoundsAssumption, <1>5 DEF CmdCloseThrows, HAt, Running, Fail, cmdVars, stopVars, gpsVars, hVars, TypeOK, BThreads, STOP, UserId
<1>6. CASE GpsStopFlag
  BY NAssumption, BoundsAssumption, <1>6 DEF GpsStopFlag, HAt, Running, HGoto, cmdVars, stopVars, gpsVars, hVars, TypeOK, BThreads, STOP, UserId
<1>7. CASE GpsStopWrite
  BY NAssumption, BoundsAssumption, <1>7 DEF GpsStopWrite, HAt, Running, HGoto, cmdVars, stopVars, gpsVars, hVars, TypeOK, BThreads, STOP, UserId
<1>8. CASE GpsClose
  BY NAssumption, BoundsAssumption, <1>8 DEF GpsClose, HAt, Running, HGoto, cmdVars, stopVars, gpsVars, hVars, TypeOK, BThreads, STOP, UserId
<1>9. CASE StopBadEpoll
  BY NAssumption, BoundsAssumption, <1>9 DEF StopBadEpoll, HAt, Running, BadEpoll, cmdVars, stopVars, gpsVars, hVars, TypeOK, BThreads, STOP, UserId
<1>10. CASE BStopFlag
  BY NAssumption, BoundsAssumption, <1>10 DEF BStopFlag, HAt, Running, HGoto, cmdVars, stopVars, gpsVars, hVars, TypeOK, BThreads, STOP, UserId
<1>11. CASE BStopPut
  BY NAssumption, BoundsAssumption, <1>11 DEF BStopPut, HAt, Running, cmdVars, stopVars, gpsVars, hVars, TypeOK, BThreads, STOP, UserId
<1> QED
  BY <1>1, <1>2, <1>3, <1>4, <1>5, <1>6, <1>7, <1>8, <1>9, <1>10, <1>11 DEF HandlerStep

\* The main thread joins only what has been stopped.
LEMMA MainKeepsOrder ==
  ASSUME IInv, MainStep \/ CmdClientEvent
  PROVE  HandlerOrder' /\ StopComplete' /\ MainOrder'
<1>1. CASE StartThreads
  BY NAssumption, <1>1 DEF StartThreads, MainAt, Running, cmdVars, stopVars, gpsVars, hVars, IInv, TypeOK, HandlerOrder, StopComplete, MainOrder, BThreads
<1>2. CASE CmdBind
  BY NAssumption, <1>2 DEF CmdBind, MainAt, Running, cmdVars, stopVars, gpsVars, hVars, IInv, TypeOK, HandlerOrder, StopComplete, MainOrder, BThreads
<1>3. CASE CmdBindFails
  BY NAssumption, <1>3 DEF CmdBindFails, MainAt, Running, Fail, cmdVars, stopVars, gpsVars, hVars, IInv, TypeOK, HandlerOrder, StopComplete, MainOrder, BThreads
<1>4. CASE CmdLoopTest
  BY NAssumption, <1>4 DEF CmdLoopTest, MainAt, Running, cmdVars, stopVars, gpsVars, hVars, IInv, TypeOK, HandlerOrder, StopComplete, MainOrder, BThreads
<1>5. CASE EnterEpollWait
  BY NAssumption, <1>5 DEF EnterEpollWait, MainAt, Running, cmdVars, stopVars, gpsVars, hVars, IInv, TypeOK, HandlerOrder, StopComplete, MainOrder, BThreads
<1>6. CASE CmdStopEvent
  BY NAssumption, <1>6 DEF CmdStopEvent, MainAt, Running, cmdVars, stopVars, gpsVars, hVars, IInv, TypeOK, HandlerOrder, StopComplete, MainOrder, BThreads
<1>7. CASE JoinGps
  BY NAssumption, <1>7 DEF JoinGps, MainAt, Running, cmdVars, stopVars, gpsVars, hVars, IInv, TypeOK, HandlerOrder, StopComplete, MainOrder, BThreads
<1>8. CASE JoinBroadcast
  BY NAssumption, <1>8 DEF JoinBroadcast, MainAt, Running, cmdVars, stopVars, gpsVars, hVars, IInv, TypeOK, HandlerOrder, StopComplete, MainOrder, BThreads
<1>9. CASE CmdClientEvent
  BY NAssumption, <1>9 DEF CmdClientEvent, MainAt, Running, cmdVars, stopVars, gpsVars, hVars, IInv, TypeOK, HandlerOrder, StopComplete, MainOrder, BThreads
<1> QED
  BY <1>1, <1>2, <1>3, <1>4, <1>5, <1>6, <1>7, <1>8, <1>9 DEF MainStep

\* The GPS thread changes no flag, and once ended stays so.
LEMMA GpsKeepsOrder ==
  ASSUME IInv, GpsStep \/ GpsDataEvent
  PROVE  HandlerOrder' /\ StopComplete' /\ MainOrder'
<1>1. CASE GpsBind
  BY NAssumption, <1>1 DEF GpsBind, GpsAt, Running, cmdVars, stopVars, gpsVars, hVars, IInv, TypeOK, HandlerOrder, StopComplete, MainOrder, BThreads
<1>2. CASE GpsBindFails
  BY NAssumption, <1>2 DEF GpsBindFails, GpsAt, Running, GpsGoto, cmdVars, stopVars, gpsVars, hVars, IInv, TypeOK, HandlerOrder, StopComplete, MainOrder, BThreads
<1>3. CASE GpsLoopTest
  BY NAssumption, <1>3 DEF GpsLoopTest, GpsAt, Running, GpsGoto, cmdVars, stopVars, gpsVars, hVars, IInv, TypeOK, HandlerOrder, StopComplete, MainOrder, BThreads
<1>4. CASE GpsStopEvent
  BY NAssumption, <1>4 DEF GpsStopEvent, GpsAt, Running, GpsGoto, cmdVars, stopVars, gpsVars, hVars, IInv, TypeOK, HandlerOrder, StopComplete, MainOrder, BThreads
<1>5. CASE GpsTimeout
  BY NAssumption, <1>5 DEF GpsTimeout, GpsAt, Running, GpsGoto, cmdVars, stopVars, gpsVars, hVars, IInv, TypeOK, HandlerOrder, StopComplete, MainOrder, BThreads
<1>6. CASE GpsRecv
  BY NAssumption, <1>6 DEF GpsRecv, GpsAt, Running, cmdVars, stopVars, gpsVars, hVars, IInv, TypeOK, HandlerOrder, StopComplete, MainOrder, BThreads
<1>7. CASE GpsRecvThrows
  BY NAssumption, <1>7 DEF GpsRecvThrows, GpsAt, Running, Fail, cmdVars, stopVars, gpsVars, hVars, IInv, TypeOK, HandlerOrder, StopComplete, MainOrder, BThreads
<1>8. CASE GpsEnd
  BY NAssumption, <1>8 DEF GpsEnd, GpsAt, Running, cmdVars, stopVars, gpsVars, hVars, IInv, TypeOK, HandlerOrder, StopComplete, MainOrder, BThreads
<1>9. CASE GpsDataEvent
  BY NAssumption, <1>9 DEF GpsDataEvent, GpsAt, Running, GpsGoto, cmdVars, stopVars, gpsVars, hVars, IInv, TypeOK, HandlerOrder, StopComplete, MainOrder, BThreads
<1> QED
  BY <1>1, <1>2, <1>3, <1>4, <1>5, <1>6, <1>7, <1>8, <1>9 DEF GpsStep

\* So does a broadcast thread.
LEMMA BroadcastKeepsOrder ==
  ASSUME NEW t \in BThreads, IInv, BStep(t)
  PROVE  HandlerOrder' /\ StopComplete' /\ MainOrder'
<1>1. CASE BLoopTest(t)
  BY NAssumption, <1>1 DEF BLoopTest, BAt, Running, BGoto, cmdVars, stopVars, gpsVars, hVars, IInv, TypeOK, HandlerOrder, StopComplete, MainOrder, BThreads
<1>2. CASE BPull(t)
  BY NAssumption, <1>2 DEF BPull, BAt, Running, BGoto, cmdVars, stopVars, gpsVars, hVars, IInv, TypeOK, HandlerOrder, StopComplete, MainOrder, BThreads
<1>3. CASE BBroadcast(t)
  BY NAssumption, <1>3 DEF BBroadcast, BAt, Running, BGoto, cmdVars, stopVars, gpsVars, hVars, IInv, TypeOK, HandlerOrder, StopComplete, MainOrder, BThreads
<1>4. CASE BSendThrows(t)
  BY NAssumption, <1>4 DEF BSendThrows, BAt, Running, Fail, cmdVars, stopVars, gpsVars, hVars, IInv, TypeOK, HandlerOrder, StopComplete, MainOrder, BThreads
<1> QED
  BY <1>1, <1>2, <1>3, <1>4 DEF BStep

\* The handler sets every flag before it returns.
LEMMA HandlerKeepsOrder ==
  ASSUME IInv, Signal \/ HandlerStep
  PROVE  HandlerOrder' /\ StopComplete' /\ MainOrder'
<1>1. CASE Signal
  BY NAssumption, <1>1 DEF Signal, HAt, Running, cmdVars, stopVars, gpsVars, hVars, IInv, TypeOK, HandlerOrder, StopComplete, MainOrder, BThreads
<1>2. CASE CmdStopFlag
  BY NAssumption, <1>2 DEF CmdStopFlag, HAt, Running, HGoto, cmdVars, stopVars, gpsVars, hVars, IInv, TypeOK, HandlerOrder, StopComplete, MainOrder, BThreads
<1>3. CASE CmdStopWrite
  BY NAssumption, <1>3 DEF CmdStopWrite, HAt, Running, HGoto, cmdVars, stopVars, gpsVars, hVars, IInv, TypeOK, HandlerOrder, StopComplete, MainOrder, BThreads
<1>4. CASE CmdClose
  BY NAssumption, <1>4 DEF CmdClose, HAt, Running, HGoto, cmdVars, stopVars, gpsVars, hVars, IInv, TypeOK, HandlerOrder, StopComplete, MainOrder, BThreads
<1>5. CASE CmdCloseThrows
  BY NAssumption, <1>5 DEF CmdCloseThrows, HAt, Running, Fail, cmdVars, stopVars, gpsVars, hVars, IInv, TypeOK, HandlerOrder, StopComplete, MainOrder, BThreads
<1>6. CASE GpsStopFlag
  BY NAssumption, <1>6 DEF GpsStopFlag, HAt, Running, HGoto, cmdVars, stopVars, gpsVars, hVars, IInv, TypeOK, HandlerOrder, StopComplete, MainOrder, BThreads
<1>7. CASE GpsStopWrite
  BY NAssumption, <1>7 DEF GpsStopWrite, HAt, Running, HGoto, cmdVars, stopVars, gpsVars, hVars, IInv, TypeOK, HandlerOrder, StopComplete, MainOrder, BThreads
<1>8. CASE GpsClose
  BY NAssumption, <1>8 DEF GpsClose, HAt, Running, HGoto, cmdVars, stopVars, gpsVars, hVars, IInv, TypeOK, HandlerOrder, StopComplete, MainOrder, BThreads
<1>9. CASE StopBadEpoll
  BY NAssumption, <1>9 DEF StopBadEpoll, HAt, Running, BadEpoll, cmdVars, stopVars, gpsVars, hVars, IInv, TypeOK, HandlerOrder, StopComplete, MainOrder, BThreads
<1>10. CASE BStopFlag
  BY NAssumption, <1>10 DEF BStopFlag, HAt, Running, HGoto, cmdVars, stopVars, gpsVars, hVars, IInv, TypeOK, HandlerOrder, StopComplete, MainOrder, BThreads
<1>11. CASE BStopPut
  BY NAssumption, <1>11 DEF BStopPut, HAt, Running, cmdVars, stopVars, gpsVars, hVars, IInv, TypeOK, HandlerOrder, StopComplete, MainOrder, BThreads
<1> QED
  BY <1>1, <1>2, <1>3, <1>4, <1>5, <1>6, <1>7, <1>8, <1>9, <1>10, <1>11 DEF HandlerStep

-----------------------------------------------------------------------------
(* The theorems *)

\* IInv is inductive.
LEMMA NextIInv == IInv /\ [Next]_vars => IInv'
<1> SUFFICES ASSUME IInv, [Next]_vars PROVE IInv'
  OBVIOUS
<1>0. TypeOK
  BY DEF IInv
<1>1. CASE MainStep \/ CmdClientEvent
  BY <1>0, <1>1, MainTypes, MainKeepsOrder DEF IInv
<1>2. CASE GpsStep \/ GpsDataEvent
  BY <1>0, <1>2, GpsTypes, GpsKeepsOrder DEF IInv
<1>3. CASE \E t \in BThreads : BStep(t)
  BY <1>0, <1>3, BroadcastTypes, BroadcastKeepsOrder DEF IInv
<1>4. CASE Signal \/ HandlerStep
  BY <1>0, <1>4, HandlerTypes, HandlerKeepsOrder DEF IInv
<1>5. CASE UNCHANGED vars
  BY <1>5 DEF IInv, TypeOK, HandlerOrder, StopComplete, MainOrder, vars, cmdVars, stopVars, gpsVars, hVars
<1> QED
  BY <1>1, <1>2, <1>3, <1>4, <1>5 DEF Next

\* The invariant holds in every reachable state.
LEMMA Invariance == Spec => []IInv
  BY InitIInv, NextIInv, PTL DEF Spec

\* Type correctness of the startup and the stop.
THEOREM TypeCorrect == Spec => []TypeOK
<1>1. IInv => TypeOK
  BY DEF IInv
<1> QED
  BY <1>1, Invariance, PTL

\* start_gpshub returns only after it has told every thread to stop and every
\* one has ended, for any number of broadcast threads.
THEOREM NoThreadLeft == Spec => []NoOrphans
<1>1. IInv => NoOrphans
  BY DEF IInv, MainOrder, StopComplete, NoOrphans
<1> QED
  BY <1>1, Invariance, PTL

-----------------------------------------------------------------------------
(* The stop of the only broadcast thread *)

\* Under -n 1, the default, StopNotMissed is inductive: the thread tests its
\* flag before it pulls, and the id 0 is queued after the flag is cleared.
LEMMA NextStopNotMissed ==
  ASSUME N = 1, TypeOK, StopNotMissed, [Next]_vars
  PROVE  StopNotMissed'
<1>1. BThreads = {1} /\ hI = 1
  BY DEF TypeOK, BThreads
<1> SUFFICES ASSUME ~loop'[1], bPC'[1] = "pull", hPC' # "b_put" \/ hI' # 1
             PROVE  queue' # <<>>
  BY <1>1 DEF StopNotMissed
<1>2. ~loop[1] /\ bPC[1] = "pull" /\ hPC # "b_put" => queue # <<>>
  BY <1>1 DEF StopNotMissed
<1> USE DEF cmdVars, stopVars, gpsVars, hVars, Fail
<1>3. ASSUME UNCHANGED <<loop, bPC, queue>>, hPC # "b_put" PROVE queue' # <<>>
  BY <1>2, <1>3
<1>4. ASSUME UNCHANGED <<loop, bPC, queue, hPC, hI>> PROVE queue' # <<>>
  BY <1>1, <1>2, <1>4
<1>5. CASE StartThreads
  BY <1>1, <1>5 DEF StartThreads
<1>6. CASE CmdBind \/ CmdBindFails \/ CmdLoopTest \/ EnterEpollWait \/ CmdStopEvent
           \/ JoinGps \/ JoinBroadcast \/ CmdClientEvent
  BY <1>4, <1>6 DEF CmdBind, CmdBindFails, CmdLoopTest, EnterEpollWait, CmdStopEvent,
                    JoinGps, JoinBroadcast, CmdClientEvent
<1>7. CASE GpsBind \/ GpsBindFails \/ GpsLoopTest \/ GpsStopEvent \/ GpsTimeout
           \/ GpsRecvThrows \/ GpsEnd \/ GpsDataEvent
  BY <1>4, <1>7 DEF GpsBind, GpsBindFails, GpsLoopTest, GpsStopEvent, GpsTimeout,
                    GpsRecvThrows, GpsEnd, GpsDataEvent, GpsGoto
<1>8. CASE GpsRecv
  <2>1. CASE UNCHANGED queue
    BY <1>4, <1>8, <2>1 DEF GpsRecv
  <2>2. CASE queue' = Append(queue, UserId)
    BY <2>2 DEF TypeOK, STOP, UserId
  <2> QED
    BY <1>8, <2>1, <2>2 DEF GpsRecv
<1>9. ASSUME NEW t \in BThreads, BStep(t) PROVE queue' # <<>>
  <2>1. t = 1 /\ loop' = loop /\ UNCHANGED <<hPC, hI>>
    BY <1>1, <1>9 DEF BStep, BLoopTest, BPull, BBroadcast, BSendThrows, BGoto
  <2>2. CASE BSendThrows(t)
    BY <1>4, <2>2 DEF BSendThrows
  <2>3. bPC'[1] # "pull" \/ BSendThrows(t)
    BY <1>9, <2>1 DEF BStep, BLoopTest, BPull, BBroadcast, BGoto, TypeOK, BThreads
  <2> QED
    BY <2>2, <2>3
<1>10. CASE Signal \/ CmdStopFlag \/ CmdStopWrite \/ CmdClose \/ GpsStopFlag
            \/ GpsStopWrite \/ GpsClose
  BY <1>3, <1>10 DEF Signal, CmdStopFlag, CmdStopWrite, CmdClose, GpsStopFlag, GpsStopWrite,
                     GpsClose, HAt, HGoto
<1>11. CASE CmdCloseThrows \/ StopBadEpoll
  BY <1>4, <1>11 DEF CmdCloseThrows, StopBadEpoll
<1>12. CASE BStopFlag
  BY <1>1, <1>12 DEF BStopFlag, HGoto
<1>13. CASE BStopPut
  BY <1>13 DEF BStopPut, TypeOK, STOP, UserId
<1>14. CASE UNCHANGED vars
  BY <1>4, <1>14 DEF vars
<1> QED
  BY <1>5, <1>6, <1>7, <1>8, <1>9, <1>10, <1>11, <1>12, <1>13, <1>14
     DEF Next, MainStep, GpsStep, HandlerStep

\* With one broadcast thread its stop is never missed: after
\* CoordsBroadcastThread::stop it does not sit in pull on an empty queue.  With
\* more threads one may take the id 0 meant for another.
THEOREM StopReachesThread == N = 1 => (Spec => []StopNotMissed)
<1> SUFFICES ASSUME N = 1 PROVE Spec => []StopNotMissed
  OBVIOUS
<1>1. Init => StopNotMissed
  BY DEF Init, StopNotMissed
<1>2. TypeOK /\ StopNotMissed /\ [Next]_vars => StopNotMissed'
  BY NextStopNotMissed
<1> QED
  BY <1>1, <1>2, TypeCorrect, PTL DEF Spec
=============================================================================
