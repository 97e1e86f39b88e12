--------------------------- MODULE CoordsPipeline ---------------------------
(***************************************************************************)
(* How a position travels from a client to the buddies of its user, while  *)
(* users log in, change their buddies and disconnect.  Three kinds of      *)
(* threads share the id map, the nick map and the User objects in them:    *)
(*                                                                         *)
(*   - the GPS data server thread (src/server/GpsDataServer.cpp) writes a  *)
(*     received position into the user's empty slot, makes that slot the   *)
(*     ready one if no slot is, swaps the slots and queues the user's id;  *)
(*   - the broadcast threads (src/hubthread/CoordsBroadcastThread.cpp)     *)
(*     pull an id, copy the ready slot, send it to the user's buddies and  *)
(*     set ready back to NULL;                                             *)
(*   - the command server thread (src/server/CommandHandler.cpp) puts      *)
(*     users into the maps, changes buddies and, on disconnect, erases the *)
(*     user from the maps and deletes it.                                  *)
(*                                                                         *)
(* One step is one operation on shared state: one call on a synchronized   *)
(* map, one access to a field of a User, one put or pull of the blocking   *)
(* queue (atomic by module BlockingQueue).  A thread keeps the User*       *)
(* it got from a map across later steps, as the code does, so the user may *)
(* be deleted under it.                                                    *)
(*                                                                         *)
(* Ids and nicks are both modelled by the user itself: the id generator    *)
(* gives no id twice (module UserIdGenerator) and no second user gets a    *)
(* nick in use.  A position is the number of the datagram that carried it; *)
(* its longitude and latitude are kept apart so that a torn one shows.     *)
(*                                                                         *)
(* fault records how the process ended: a thread used a deleted user       *)
(* ("use_after_free") or a NULL one ("null_deref"), two threads were in a  *)
(* buddies set at once, one of them writing ("data_race"), or an exception *)
(* left a thread ("terminate").  After the first fault nothing more is     *)
(* claimed: the behaviour is undefined or the process is gone.             *)
(***************************************************************************)
EXTENDS Naturals, Sequences, FiniteSets

CONSTANTS Users,     \* users that log in, by id
          BThreads,  \* broadcast threads
          NoUser,    \* "no user"
          MaxPos,    \* bound: number of position datagrams received
          MaxInits,  \* bound: number of init datagrams received
          MaxCmds    \* bound: number of buddy commands and disconnects

ASSUME UsersAssumption  == NoUser \notin Users
ASSUME BoundsAssumption == MaxPos \in Nat /\ MaxInits \in Nat /\ MaxCmds \in Nat

NULL  == 0       \* the NULL value of User::ready
Slots == {1, 2}  \* User::slot1 and User::slot2

Faults == {"none", "use_after_free", "null_deref", "data_race", "terminate"}

VARIABLES
  heap,      \* heap[u]: "none" before new User, "live", "deleted" after delete,
             \* "closed" when the user's TCP socket is deleted too
  idMap,     \* users in IdUserMap
  nickMap,   \* users in NickUserMap
  buddies,   \* buddies[u]: User::buddies, the nicks u shares its position with
  udpReady,  \* udpReady[u]: User::udp_ready
  empty,     \* empty[u]: the slot User::empty points to
  ready,     \* ready[u]: the slot User::ready points to, or NULL
  lon, lat,  \* lon[u][s], lat[u][s]: contents of slot s of u
  queue,     \* the blocking queue of user ids
  pending,   \* users whose init ack is on GpsDataServer::pending_cmd_queue
  npos, ninits, ncmds,  \* how many inputs of each bounded kind there were
  cmdPC, cmdUser,  \* command thread: where it is, and the user it works on
  gpsPC, gpsUser,  \* GPS thread: where it is, and its local variable u
  gpsPos,          \* GPS thread: the position in buf
  bPC,       \* bPC[t]: where broadcast thread t is
  bUser,     \* bUser[t]: its local variables id and u
  bSlot,     \* bSlot[t]: its local variable coords
  copyLon, copyLat,  \* its local variable coordsCopy
  todo,      \* todo[t]: nicks of its copy of the buddies not yet handled
  bBuddy,    \* bBuddy[t]: its local variables *nick and buddy
  relayed,   \* history: relayed[u][b], the last position of u sent to b
  fault      \* how the process ended, "none" while it runs

shared   == <<heap, idMap, nickMap>>
cmdVars  == <<cmdPC, cmdUser, ncmds>>
gpsVars  == <<gpsPC, gpsUser, gpsPos, npos, ninits, pending>>
slotVars == <<empty, lon, lat>>
bVars    == <<bPC, bUser, bSlot, copyLon, copyLat, todo, bBuddy, relayed>>
vars     == <<shared, buddies, udpReady, slotVars, ready, queue, cmdVars, gpsVars, bVars, fault>>

Live(u) == heap[u] = "live"

Init == /\ heap = [u \in Users |-> "none"]
        /\ idMap = {} /\ nickMap = {}
        /\ buddies = [u \in Users |-> {}]
        /\ udpReady = [u \in Users |-> FALSE]
        /\ empty = [u \in Users |-> 1]
        /\ ready = [u \in Users |-> NULL]
        /\ lon = [u \in Users |-> [s \in Slots |-> 0]]
        /\ lat = [u \in Users |-> [s \in Slots |-> 0]]
        /\ queue = <<>>
        /\ npos = 0 /\ ninits = 0 /\ ncmds = 0
        /\ pending = {}
        /\ cmdPC = "idle" /\ cmdUser = NoUser
        /\ gpsPC = "idle" /\ gpsUser = NoUser /\ gpsPos = 0
        /\ bPC = [t \in BThreads |-> "pull"]
        /\ bUser = [t \in BThreads |-> NoUser]
        /\ bSlot = [t \in BThreads |-> NULL]
        /\ copyLon = [t \in BThreads |-> 0]
        /\ copyLat = [t \in BThreads |-> 0]
        /\ todo = [t \in BThreads |-> {}]
        /\ bBuddy = [t \in BThreads |-> NoUser]
        /\ relayed = [u \in Users |-> [b \in Users |-> 0]]
        /\ fault = "none"

-----------------------------------------------------------------------------
(* Command server thread *)

CmdAt(pc) == fault = "none" /\ cmdPC = pc

\* registerNick: new User (empty buddies, slot1 empty, nothing ready, as in
\* Init), then nick_umap->put ...
RegisterNick(u) == /\ CmdAt("idle") /\ heap[u] = "none"
                   /\ heap' = [heap EXCEPT ![u] = "live"]
                   /\ nickMap' = nickMap \cup {u}
                   /\ cmdPC' = "put_id" /\ cmdUser' = u /\ UNCHANGED ncmds
                   /\ UNCHANGED <<idMap, buddies, udpReady, slotVars, ready, queue, gpsVars, bVars, fault>>

\* ... then id_umap->put.
RegisterId == /\ CmdAt("put_id")
              /\ idMap' = idMap \cup {cmdUser}
              /\ cmdPC' = "idle" /\ cmdUser' = NoUser /\ UNCHANGED ncmds
              /\ UNCHANGED <<heap, nickMap, buddies, udpReady, slotVars, ready, queue, gpsVars, bVars, fault>>

\* addBuddies / removeBuddies: the write lock of the buddies set is taken,
\* the set changed, the lock released.
AddBuddy(u, b) == /\ CmdAt("idle") /\ u \in idMap /\ ncmds < MaxCmds
                  /\ cmdPC' = "buddies" /\ cmdUser' = u /\ ncmds' = ncmds + 1
                  /\ buddies' = [buddies EXCEPT ![u] = @ \cup {b}]
                  /\ UNCHANGED <<shared, udpReady, slotVars, ready, queue, gpsVars, bVars, fault>>

RemoveBuddy(u, b) == /\ CmdAt("idle") /\ u \in idMap /\ ncmds < MaxCmds
                     /\ cmdPC' = "buddies" /\ cmdUser' = u /\ ncmds' = ncmds + 1
                     /\ buddies' = [buddies EXCEPT ![u] = @ \ {b}]
                     /\ UNCHANGED <<shared, udpReady, slotVars, ready, queue, gpsVars, bVars, fault>>

BuddiesUnlock == /\ CmdAt("buddies")
                 /\ cmdPC' = "idle" /\ cmdUser' = NoUser /\ UNCHANGED ncmds
                 /\ UNCHANGED <<shared, buddies, udpReady, slotVars, ready, queue, gpsVars, bVars, fault>>

\* closeConnection calls quit: id_umap->erase, nick_umap->erase, delete u.
QuitId(u) == /\ CmdAt("idle") /\ u \in idMap /\ ncmds < MaxCmds
             /\ idMap' = idMap \ {u}
             /\ cmdPC' = "erase_nick" /\ cmdUser' = u /\ ncmds' = ncmds + 1
             /\ UNCHANGED <<heap, nickMap, buddies, udpReady, slotVars, ready, queue, gpsVars, bVars, fault>>

QuitNick == /\ CmdAt("erase_nick")
            /\ nickMap' = nickMap \ {cmdUser}
            /\ cmdPC' = "delete"
            /\ UNCHANGED <<heap, idMap, cmdUser, ncmds, buddies, udpReady, slotVars, ready, queue, gpsVars, bVars, fault>>

QuitDelete == /\ CmdAt("delete")
              /\ heap' = [heap EXCEPT ![cmdUser] = "deleted"]
              /\ cmdPC' = "close"
              /\ UNCHANGED <<idMap, nickMap, cmdUser, ncmds, buddies, udpReady, slotVars, ready, queue, gpsVars, bVars, fault>>

\* closeConnection goes on after quit: the socket is closed and deleted.
CloseSocket == /\ CmdAt("close")
               /\ heap' = [heap EXCEPT ![cmdUser] = "closed"]
               /\ cmdPC' = "idle" /\ cmdUser' = NoUser /\ UNCHANGED ncmds
               /\ UNCHANGED <<idMap, nickMap, buddies, udpReady, slotVars, ready, queue, gpsVars, bVars, fault>>

\* The steps that finish a command the thread has begun.
CommandStep == RegisterId \/ BuddiesUnlock \/ QuitNick \/ QuitDelete \/ CloseSocket

Command == \/ \E u \in Users : RegisterNick(u) \/ QuitId(u)
           \/ \E u, b \in Users : AddBuddy(u, b) \/ RemoveBuddy(u, b)
           \/ CommandStep

-----------------------------------------------------------------------------
(* GPS data server thread *)

GpsAt(pc) == fault = "none" /\ gpsPC = pc

GpsGoto(pc) == gpsPC' = pc /\ UNCHANGED <<gpsUser, gpsPos, npos, ninits>>

\* The handler is done with the datagram and forgets its locals; incomingData
\* then calls sendPendingCmd, which does nothing if no ack is pending.
GpsDone == /\ gpsPC' = IF pending = {} THEN "idle" ELSE "pending"
           /\ gpsUser' = NoUser /\ gpsPos' = 0
           /\ UNCHANGED <<npos, ninits>>

\* An 8-byte init datagram: umap->get(id).  (Of an unknown id, or a datagram
\* of any other length, only sendPendingCmd is left: see GpsTimeout.)
RecvInit(u) == /\ GpsAt("idle") /\ u \in idMap /\ ninits < MaxInits
               /\ ninits' = ninits + 1
               /\ gpsPC' = "init" /\ gpsUser' = u
               /\ UNCHANGED <<gpsPos, npos, pending>>
               /\ UNCHANGED <<shared, buddies, udpReady, slotVars, ready, queue, cmdVars, bVars, fault>>

\* initAddrUdp: the token and the ip match, and the UDP address is set, or
\* they do not and it is left alone.
InitAddrUdp == /\ GpsAt("init") /\ Live(gpsUser)
               /\ \E matches \in BOOLEAN :
                    udpReady' = [udpReady EXCEPT ![gpsUser] = @ \/ matches]
               /\ GpsGoto("ack")
               /\ UNCHANGED <<shared, buddies, slotVars, ready, queue, pending, cmdVars, bVars, fault>>

\* sendUdpInitAck: sent, or kept for later when the socket would block.
SendUdpInitAck == /\ GpsAt("ack") /\ Live(gpsUser)
                  /\ pending' \in {pending, pending \cup {gpsUser}}
                  /\ gpsPC' = IF pending' = {} THEN "idle" ELSE "pending"
                  /\ gpsUser' = NoUser /\ UNCHANGED <<gpsPos, npos, ninits>>
                  /\ UNCHANGED <<shared, buddies, udpReady, slotVars, ready, queue, cmdVars, bVars, fault>>

\* timeoutClbk, or a datagram that changes nothing: sendPendingCmd.
GpsTimeout == /\ GpsAt("idle") /\ pending # {}
              /\ GpsGoto("pending")
              /\ UNCHANGED <<shared, buddies, udpReady, slotVars, ready, queue, pending, cmdVars, bVars, fault>>

\* sendPendingCmd: the acks whose socket would still block are kept.
SendPendingCmd == /\ GpsAt("pending")
                  /\ \A u \in pending : heap[u] # "closed"
                  /\ pending' \in SUBSET pending
                  /\ GpsGoto("idle")
                  /\ UNCHANGED <<shared, buddies, udpReady, slotVars, ready, queue, cmdVars, bVars, fault>>

\* Send fails otherwise than with EWOULDBLOCK: the exception may not leave
\* Epoll::loop, which is declared throw(EpollException).
GpsSendThrows == /\ \/ GpsAt("ack") /\ Live(gpsUser)
                    \/ GpsAt("pending") /\ \E u \in pending : heap[u] # "closed"
                 /\ fault' = "terminate"
                 /\ UNCHANGED <<shared, buddies, udpReady, slotVars, ready, queue, cmdVars, gpsVars, bVars>>

\* A position datagram: umap->get(id); an unknown id is dropped.
RecvCoordinates(u) ==
    /\ GpsAt("idle") /\ npos < MaxPos
    /\ npos' = npos + 1
    /\ IF u \in idMap
       THEN gpsPC' = "addr" /\ gpsUser' = u /\ gpsPos' = npos + 1
       ELSE /\ gpsPC' = IF pending = {} THEN "idle" ELSE "pending"
            /\ UNCHANGED <<gpsUser, gpsPos>>
    /\ UNCHANGED <<shared, buddies, udpReady, slotVars, ready, queue, pending, ninits, cmdVars, bVars, fault>>

\* socket_equals(&their_addr, u->getAddrUdpPtr()): the datagram's source may
\* or may not be the user's address; addr_udp is uninitialized until
\* initAddrUdp, and then both outcomes are possible too.
CheckAddr == /\ GpsAt("addr") /\ Live(gpsUser)
             /\ \/ GpsGoto("lon")
                \/ GpsDone
             /\ UNCHANGED <<shared, buddies, udpReady, slotVars, ready, queue, pending, cmdVars, bVars, fault>>

WriteLon == /\ GpsAt("lon") /\ Live(gpsUser)
            /\ lon' = [lon EXCEPT ![gpsUser][empty[gpsUser]] = gpsPos]
            /\ GpsGoto("lat")
            /\ UNCHANGED <<shared, buddies, udpReady, empty, lat, ready, queue, pending, cmdVars, bVars, fault>>

WriteLat == /\ GpsAt("lat") /\ Live(gpsUser)
            /\ lat' = [lat EXCEPT ![gpsUser][empty[gpsUser]] = gpsPos]
            /\ GpsGoto("test")
            /\ UNCHANGED <<shared, buddies, udpReady, empty, lon, ready, queue, pending, cmdVars, bVars, fault>>

\* Mutation: the id is queued whether or not a slot is already ready.
TestReadySkipped == /\ GpsAt("test") /\ Live(gpsUser)
                    /\ GpsGoto("set_ready")
                    /\ UNCHANGED <<shared, buddies, udpReady, slotVars, ready, queue, pending, cmdVars, bVars, fault>>

\* if (u->getReady() == NULL)
TestReady == /\ GpsAt("test") /\ Live(gpsUser)
             /\ IF ready[gpsUser] = NULL THEN GpsGoto("set_ready") ELSE GpsDone
             /\ UNCHANGED <<shared, buddies, udpReady, slotVars, ready, queue, pending, cmdVars, bVars, fault>>

SetReady == /\ GpsAt("set_ready") /\ Live(gpsUser)
            /\ ready' = [ready EXCEPT ![gpsUser] = empty[gpsUser]]
            /\ GpsGoto("swap")
            /\ UNCHANGED <<shared, buddies, udpReady, slotVars, queue, pending, cmdVars, bVars, fault>>

\* Mutation: the slot after the empty one is taken, also after slot2.
SwapPastEnd == /\ GpsAt("swap") /\ Live(gpsUser)
               /\ empty' = [empty EXCEPT ![gpsUser] = @ + 1]
               /\ GpsGoto("put")
               /\ UNCHANGED <<shared, buddies, udpReady, lon, lat, ready, queue, pending, cmdVars, bVars, fault>>

\* Mutation: the slots are not swapped.
SwapForgotten == /\ GpsAt("swap") /\ Live(gpsUser)
                 /\ GpsGoto("put")
                 /\ UNCHANGED <<shared, buddies, udpReady, slotVars, ready, queue, pending, cmdVars, bVars, fault>>

SwapEmpty == /\ GpsAt("swap") /\ Live(gpsUser)
             /\ empty' = [empty EXCEPT ![gpsUser] = IF @ = 1 THEN 2 ELSE 1]
             /\ GpsGoto("put")
             /\ UNCHANGED <<shared, buddies, udpReady, lon, lat, ready, queue, pending, cmdVars, bVars, fault>>

\* Mutation: the id is not queued when another one already is.
PutIdIfEmpty == /\ GpsAt("put")
                /\ queue' = IF queue = <<>> THEN <<gpsUser>> ELSE queue
                /\ GpsDone
                /\ UNCHANGED <<shared, buddies, udpReady, slotVars, ready, pending, cmdVars, bVars, fault>>

\* uqueue->put(id)
PutId == /\ GpsAt("put")
         /\ queue' = Append(queue, gpsUser)
         /\ GpsDone
         /\ UNCHANGED <<shared, buddies, udpReady, slotVars, ready, pending, cmdVars, bVars, fault>>

\* The handler touches a user that quit has deleted, or the socket of a
\* closed connection whose ack is still pending.
GpsUseAfterFree == /\ fault = "none"
                   /\ \/ /\ gpsPC \in {"init", "ack", "addr", "lon", "lat", "test", "set_ready", "swap"}
                         /\ ~Live(gpsUser)
                      \/ gpsPC = "pending" /\ \E u \in pending : heap[u] = "closed"
                   /\ fault' = "use_after_free"
                   /\ UNCHANGED <<shared, buddies, udpReady, slotVars, ready, queue, cmdVars, gpsVars, bVars>>

GpsStep == \/ InitAddrUdp \/ SendUdpInitAck \/ SendPendingCmd \/ GpsSendThrows
           \/ CheckAddr \/ WriteLon \/ WriteLat \/ TestReady
           \/ SetReady \/ SwapEmpty \/ PutId \/ GpsUseAfterFree

Gps == \/ \E u \in Users : RecvInit(u) \/ RecvCoordinates(u)
       \/ GpsTimeout
       \/ GpsStep

-----------------------------------------------------------------------------
(* Broadcast thread t *)

BAt(t, pc) == fault = "none" /\ bPC[t] = pc

BGoto(t, pc) == bPC' = [bPC EXCEPT ![t] = pc]

\* Back to the loop of run(), its locals out of use.
BDone(t) == /\ BGoto(t, "pull")
            /\ bUser' = [bUser EXCEPT ![t] = NoUser]
            /\ bSlot' = [bSlot EXCEPT ![t] = NULL]
            /\ copyLon' = [copyLon EXCEPT ![t] = 0]
            /\ copyLat' = [copyLat EXCEPT ![t] = 0]
            /\ UNCHANGED <<todo, bBuddy, relayed>>

\* uqueue->pull()
PullId(t) == /\ BAt(t, "pull") /\ queue # <<>>
             /\ bUser' = [bUser EXCEPT ![t] = Head(queue)]
             /\ queue' = Tail(queue)
             /\ BGoto(t, "get")
             /\ UNCHANGED <<bSlot, copyLon, copyLat, todo, bBuddy, relayed>>
             /\ UNCHANGED <<shared, buddies, udpReady, slotVars, ready, cmdVars, gpsVars, fault>>

\* id_umap->get(id); NULL: continue
GetUser(t) == /\ BAt(t, "get")
              /\ IF bUser[t] \in idMap
                 THEN BGoto(t, "load") /\ UNCHANGED <<bUser, bSlot, copyLon, copyLat, todo, bBuddy, relayed>>
                 ELSE BDone(t)
              /\ UNCHANGED <<shared, buddies, udpReady, slotVars, ready, queue, cmdVars, gpsVars, fault>>

\* Mutation: ready is set to NULL before the broadcast, not after it.
GetReadyAndClear(t) == /\ BAt(t, "load") /\ Live(bUser[t])
                       /\ IF ready[bUser[t]] = NULL
                          THEN BDone(t) /\ UNCHANGED ready
                          ELSE /\ bSlot' = [bSlot EXCEPT ![t] = ready[bUser[t]]]
                               /\ ready' = [ready EXCEPT ![bUser[t]] = NULL]
                               /\ BGoto(t, "lon")
                               /\ UNCHANGED <<bUser, copyLon, copyLat, todo, bBuddy, relayed>>
                       /\ UNCHANGED <<shared, buddies, udpReady, slotVars, queue, cmdVars, gpsVars, fault>>

\* coords = u->getReady(); NULL: nothing to do
GetReady(t) == /\ BAt(t, "load") /\ Live(bUser[t])
               /\ IF ready[bUser[t]] = NULL
                  THEN BDone(t)
                  ELSE /\ bSlot' = [bSlot EXCEPT ![t] = ready[bUser[t]]]
                       /\ BGoto(t, "lon")
                       /\ UNCHANGED <<bUser, copyLon, copyLat, todo, bBuddy, relayed>>
               /\ UNCHANGED <<shared, buddies, udpReady, slotVars, ready, queue, cmdVars, gpsVars, fault>>

\* Coordinates coordsCopy = *coords, field by field
CopyLon(t) == /\ BAt(t, "lon") /\ Live(bUser[t])
              /\ copyLon' = [copyLon EXCEPT ![t] = lon[bUser[t]][bSlot[t]]]
              /\ BGoto(t, "lat")
              /\ UNCHANGED <<bUser, bSlot, copyLat, todo, bBuddy, relayed>>
              /\ UNCHANGED <<shared, buddies, udpReady, slotVars, ready, queue, cmdVars, gpsVars, fault>>

CopyLat(t) == /\ BAt(t, "lat") /\ Live(bUser[t])
              /\ copyLat' = [copyLat EXCEPT ![t] = lat[bUser[t]][bSlot[t]]]
              /\ BGoto(t, "buddies")
              /\ UNCHANGED <<bUser, bSlot, copyLon, todo, bBuddy, relayed>>
              /\ UNCHANGED <<shared, buddies, udpReady, slotVars, ready, queue, cmdVars, gpsVars, fault>>

\* The command thread holds the write lock of u's buddies set.
BuddiesLocked(u) == cmdPC = "buddies" /\ cmdUser = u

\* BuddiesSet buddies = u->getBuddies() copies the set and its RwLock without
\* taking the lock; then the read lock of the copy is taken.
CopyBuddies(t) == /\ BAt(t, "buddies") /\ Live(bUser[t])
                  /\ ~BuddiesLocked(bUser[t])
                  /\ todo' = [todo EXCEPT ![t] = buddies[bUser[t]]]
                  /\ BGoto(t, "loop")
                  /\ UNCHANGED <<bUser, bSlot, copyLon, copyLat, bBuddy, relayed>>
                  /\ UNCHANGED <<shared, buddies, udpReady, slotVars, ready, queue, cmdVars, gpsVars, fault>>

\* A copy made while the command thread is inside the set: the copied lock is
\* a held one that nobody will release, so rdlock blocks for ever, or the set
\* is read while it changes.
CopyHeldBuddies(t) == /\ BAt(t, "buddies") /\ Live(bUser[t])
                      /\ BuddiesLocked(bUser[t])
                      /\ \/ BGoto(t, "blocked") /\ UNCHANGED fault
                         \/ fault' = "data_race" /\ UNCHANGED bPC
                      /\ UNCHANGED <<bUser, bSlot, copyLon, copyLat, todo, bBuddy, relayed>>
                      /\ UNCHANGED <<shared, buddies, udpReady, slotVars, ready, queue, cmdVars, gpsVars>>

\* The next nick of the copied set is taken, its count in nick_umap tested.
CountNick(t, b) == /\ BAt(t, "loop") /\ b \in todo[t]
                   /\ todo' = [todo EXCEPT ![t] = @ \ {b}]
                   /\ IF b \in nickMap
                      THEN bBuddy' = [bBuddy EXCEPT ![t] = b] /\ BGoto(t, "get_nick")
                      ELSE UNCHANGED <<bBuddy, bPC>>
                   /\ UNCHANGED <<bUser, bSlot, copyLon, copyLat, relayed>>
                   /\ UNCHANGED <<shared, buddies, udpReady, slotVars, ready, queue, cmdVars, gpsVars, fault>>

\* nick_umap->get(*nick): NULL if the buddy quit after count; the next
\* statement calls a method on it.
GetNick(t) == /\ BAt(t, "get_nick")
              /\ IF bBuddy[t] \in nickMap
                 THEN BGoto(t, "send") /\ UNCHANGED fault
                 ELSE fault' = "null_deref" /\ UNCHANGED bPC
              /\ UNCHANGED <<bUser, bSlot, copyLon, copyLat, todo, bBuddy, relayed>>
              /\ UNCHANGED <<shared, buddies, udpReady, slotVars, ready, queue, cmdVars, gpsVars>>

NextNick(t) == BGoto(t, "loop") /\ bBuddy' = [bBuddy EXCEPT ![t] = NoUser]

\* A buddy whose UDP channel is not initialized is skipped.
SkipBuddy(t) == /\ BAt(t, "send") /\ Live(bBuddy[t]) /\ ~udpReady[bBuddy[t]]
                /\ NextNick(t)
                /\ UNCHANGED <<bUser, bSlot, copyLon, copyLat, todo, relayed>>
                /\ UNCHANGED <<shared, buddies, udpReady, slotVars, ready, queue, cmdVars, gpsVars, fault>>

CanSend(t) == /\ BAt(t, "send") /\ Live(bBuddy[t]) /\ udpReady[bBuddy[t]]
              /\ Live(bUser[t])

\* To the others the copied position is sent under the user's id.
SendPosition(t) == /\ CanSend(t)
                   /\ relayed' = [relayed EXCEPT ![bUser[t]][bBuddy[t]] = copyLon[t]]
                   /\ NextNick(t)
                   /\ UNCHANGED <<bUser, bSlot, copyLon, copyLat, todo>>
                   /\ UNCHANGED <<shared, buddies, udpReady, slotVars, ready, queue, cmdVars, gpsVars, fault>>

\* udpSocket->Sendto throws; nothing in the thread catches it.
SendThrows(t) == /\ CanSend(t)
                 /\ fault' = "terminate"
                 /\ UNCHANGED <<shared, buddies, udpReady, slotVars, ready, queue, cmdVars, gpsVars, bVars>>

\* Mutation: a user without buddies is left without setReady(NULL).
ClearReadyIfSent(t) == /\ BAt(t, "loop") /\ todo[t] = {} /\ Live(bUser[t])
                       /\ ready' = IF buddies[bUser[t]] = {} THEN ready
                                   ELSE [ready EXCEPT ![bUser[t]] = NULL]
                       /\ BDone(t)
                       /\ UNCHANGED <<shared, buddies, udpReady, slotVars, queue, cmdVars, gpsVars, fault>>

\* u->setReady(NULL) after the last buddy
ClearReady(t) == /\ BAt(t, "loop") /\ todo[t] = {} /\ Live(bUser[t])
                 /\ ready' = [ready EXCEPT ![bUser[t]] = NULL]
                 /\ BDone(t)
                 /\ UNCHANGED <<shared, buddies, udpReady, slotVars, queue, cmdVars, gpsVars, fault>>

\* The thread touches its user, or the buddy it sends to, after quit() has
\* deleted it.
BroadcastUseAfterFree(t) ==
    /\ fault = "none"
    /\ \/ bPC[t] \in {"load", "lon", "lat", "buddies"} /\ ~Live(bUser[t])
       \/ bPC[t] = "loop" /\ todo[t] = {} /\ ~Live(bUser[t])
       \/ bPC[t] = "send" /\ ~Live(bBuddy[t])
       \/ bPC[t] = "send" /\ udpReady[bBuddy[t]] /\ ~Live(bUser[t])
    /\ fault' = "use_after_free"
    /\ UNCHANGED <<shared, buddies, udpReady, slotVars, ready, queue, cmdVars, gpsVars, bVars>>

Broadcast(t) == \/ PullId(t) \/ GetUser(t) \/ GetReady(t)
                \/ CopyLon(t) \/ CopyLat(t) \/ CopyBuddies(t) \/ CopyHeldBuddies(t)
                \/ \E b \in Users : CountNick(t, b)
                \/ GetNick(t) \/ SkipBuddy(t) \/ SendPosition(t) \/ SendThrows(t)
                \/ ClearReady(t) \/ BroadcastUseAfterFree(t)

-----------------------------------------------------------------------------
Next == Command \/ Gps \/ \E t \in BThreads : Broadcast(t)

Spec == Init /\ [][Next]_vars

\* Every thread that has something to do is run by the operating system: a
\* handler that was entered is finished and a broadcast thread never rests.
\* No client is obliged to send a command or a datagram.
Fairness == /\ WF_vars(CommandStep)
            /\ WF_vars(GpsStep)
            /\ \A t \in BThreads : WF_vars(Broadcast(t))

FairSpec == Spec /\ Fairness

-----------------------------------------------------------------------------
(* Properties *)

CmdPCs == {"idle", "put_id", "buddies", "erase_nick", "delete", "close"}
GpsPCs == {"idle", "init", "ack", "pending", "addr", "lon", "lat", "test", "set_ready", "swap", "put"}
BPCs   == {"pull", "get", "load", "lon", "lat", "buddies", "blocked", "loop", "get_nick", "send"}

UserType == /\ heap \in [Users -> {"none", "live", "deleted", "closed"}]
            /\ idMap \subseteq Users /\ nickMap \subseteq Users
            /\ buddies \in [Users -> SUBSET Users]
            /\ udpReady \in [Users -> BOOLEAN]

SlotType == /\ empty \in [Users -> Slots]
            /\ ready \in [Users -> Slots \cup {NULL}]
            /\ lon \in [Users -> [Slots -> 0..MaxPos]]
            /\ lat \in [Users -> [Slots -> 0..MaxPos]]
            /\ queue \in Seq(Users)

CmdType == /\ cmdPC \in CmdPCs /\ cmdUser \in Users \cup {NoUser}
           /\ cmdPC # "idle" => cmdUser \in Users
           /\ ncmds \in 0..MaxCmds

GpsType == /\ gpsPC \in GpsPCs /\ gpsUser \in Users \cup {NoUser}
           /\ gpsPC \notin {"idle", "pending"} => gpsUser \in Users
           /\ gpsPos \in 0..MaxPos /\ npos \in 0..MaxPos
           /\ ninits \in 0..MaxInits
           /\ pending \subseteq Users

BType == /\ bPC \in [BThreads -> BPCs]
         /\ bUser \in [BThreads -> Users \cup {NoUser}]
         /\ bSlot \in [BThreads -> Slots \cup {NULL}]
         /\ copyLon \in [BThreads -> 0..MaxPos] /\ copyLat \in [BThreads -> 0..MaxPos]
         /\ todo \in [BThreads -> SUBSET Users]
         /\ bBuddy \in [BThreads -> Users \cup {NoUser}]
         /\ relayed \in [Users -> [Users -> 0..MaxPos]]
         /\ \A t \in BThreads : /\ bPC[t] # "pull" => bUser[t] \in Users
                                /\ bPC[t] \in {"lon", "lat"} => bSlot[t] \in Slots
                                /\ bPC[t] \in {"get_nick", "send"} => bBuddy[t] \in Users

\* Types of the variables, and which locals of a thread are in use where.
TypeOK == UserType /\ SlotType /\ CmdType /\ GpsType /\ BType /\ fault \in Faults

\* "User's id can be on queue only once at a time" (README; the comments of
\* processCoordinates and run say how): however many threads broadcast, no id
\* is queued twice.
OnceOnQueue == \A i, j \in 1..Len(queue) : i # j => queue[i] # queue[j]

\* The broadcast thread t works for user u.
Holds(t, u) == bPC[t] # "pull" /\ bUser[t] = u

\* Only one thread at a time broadcasts a user's position, and not while its
\* id is queued: the buddies never get two positions of it in a race.
OneBroadcaster ==
    \A u \in Users, t \in BThreads : Holds(t, u) =>
        /\ \A s \in BThreads \ {t} : ~Holds(s, u)
        /\ \A i \in 1..Len(queue) : queue[i] # u

\* What a thread broadcasts is one position as a client sent it, never the
\* longitude of one and the latitude of another: the two slots keep the
\* unlocked copy of the ready one apart from the GPS thread's writes.
NoTornPosition == \A t \in BThreads :
    bPC[t] \in {"buddies", "blocked", "loop", "get_nick", "send"} => copyLon[t] = copyLat[t]

\* A user whose ready slot is set has its id queued, about to be queued, or
\* held by a broadcast thread that will clear the slot.  Otherwise no position
\* of it would be broadcast ever again: processCoordinates queues an id only
\* when ready is NULL.
NeverWedged ==
    \A u \in idMap : ready[u] # NULL =>
        \/ gpsPC \in {"swap", "put"} /\ gpsUser = u
        \/ \E i \in 1..Len(queue) : queue[i] = u
        \/ \E t \in BThreads : Holds(t, u)

\* Every position sent to a buddy is newer than the last one of the same user
\* it was sent, whichever thread sends it.
RelayMonotone == [][\A t \in BThreads :
    SendPosition(t) => copyLon[t] > relayed[bUser[t]][bBuddy[t]]]_vars

\* A ready position is eventually broadcast and its slot given back, unless
\* the user disconnects, the process dies, or a broadcast thread hangs on the
\* copy of a held lock.
ReadyIsBroadcast ==
    \A u \in Users : ready[u] # NULL ~>
        \/ ready[u] = NULL \/ ~Live(u) \/ fault # "none"
        \/ \E t \in BThreads : bPC[t] = "blocked"

-----------------------------------------------------------------------------
(* What the documents say and the code does not keep *)

\* "Ready is set to NULL by CoordsBroadcastThread after finished broadcasting"
\* (processCoordinates): a broadcast that begins comes to an end.  But the
\* read lock it takes is a copy of one the command thread may be holding.
BroadcastEnds == \A t \in BThreads : bPC[t] # "pull" ~> bPC[t] = "pull" \/ fault # "none"

\* The command server thread handles disconnects (README, architecture): no
\* thread goes on with a user that has disconnected.  But quit deletes the
\* user whether or not another thread has it in hand.
DisconnectHandled == fault \notin {"use_after_free", "null_deref"}
=============================================================================
