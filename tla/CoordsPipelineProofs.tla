------------------------ MODULE CoordsPipelineProofs ------------------------
(***************************************************************************)
(* Proofs about module CoordsPipeline, for any number of users, broadcast  *)
(* threads and inputs.                                                     *)
(*                                                                         *)
(* The argument: a user whose ready slot is set has one token, and the     *)
(* token is in one place: with the GPS thread that has just set the slot,  *)
(* on the queue, or with the broadcast thread that pulled it (TokenInv,    *)
(* ReadyInv).  Whoever has the token keeps the ready slot from changing,   *)
(* and the GPS thread writes only the other slot (SlotInv), so the copy a  *)
(* broadcast thread makes field by field is one position (CopyInv).        *)
(*                                                                         *)
(* On top of it: nobody has touched a user before it is in the id map      *)
(* (FreshInv), so a user there whose slot is set has its token somewhere   *)
(* (TrackInv); and a position enters the ready slot as the newest one of   *)
(* all (AgeInv) and is copied, and sent to each buddy, once (SentInv).     *)
(***************************************************************************)
EXTENDS CoordsPipeline, SequenceTheorems, TLAPS

\* The ids on a queue.
Elems(q) == {q[i] : i \in 1..Len(q)}

NoDup(q) == \A i, j \in 1..Len(q) : i # j => q[i] # q[j]

Busy(t) == bPC[t] # "pull"

\* The GPS thread has made the slot ready and not yet queued the id.
GpsHasToken == gpsPC \in {"swap", "put"}

\* No id is in two places.
TokenInv ==
    /\ NoDup(queue)
    /\ \A t \in BThreads : Busy(t) => bUser[t] \notin Elems(queue)
    /\ \A t, s \in BThreads : t # s /\ Busy(t) /\ Busy(s) => bUser[t] # bUser[s]
    /\ GpsHasToken => /\ gpsUser \notin Elems(queue)
                      /\ \A t \in BThreads : Busy(t) => bUser[t] # gpsUser

\* Wherever the id of a user is, its ready slot is set.
ReadyInv ==
    /\ \A u \in Elems(queue) : ready[u] # NULL
    /\ \A t \in BThreads : Busy(t) => ready[bUser[t]] # NULL
    /\ GpsHasToken => ready[gpsUser] # NULL
    /\ gpsPC = "set_ready" => ready[gpsUser] = NULL

\* The ready slot holds one position and is not the one the GPS thread writes.
SlotInv ==
    /\ \A u \in Users : ready[u] # NULL =>
         /\ lon[u][ready[u]] = lat[u][ready[u]]
         /\ ready[u] # empty[u] \/ (gpsPC = "swap" /\ gpsUser = u)
    /\ gpsPC = "lat" => lon[gpsUser][empty[gpsUser]] = gpsPos
    /\ gpsPC \in {"test", "set_ready"} =>
         lon[gpsUser][empty[gpsUser]] = lat[gpsUser][empty[gpsUser]]
    /\ gpsPC = "swap" => ready[gpsUser] = empty[gpsUser]

Copied == {"buddies", "blocked", "loop", "get_nick", "send"}

\* What a broadcast thread has copied so far is what the ready slot holds.
CopyInv == \A t \in BThreads :
    /\ bPC[t] \in {"lon", "lat"} => bSlot[t] = ready[bUser[t]]
    /\ bPC[t] = "lat" => copyLon[t] = lon[bUser[t]][bSlot[t]]
    /\ bPC[t] \in Copied => copyLon[t] = copyLat[t]

IInv == TypeOK /\ TokenInv /\ ReadyInv /\ SlotInv /\ CopyInv

USE DEF NULL, Slots

-----------------------------------------------------------------------------
(* The queue *)

\* What an append does to the ids on a queue.
LEMMA AppendIds ==
  ASSUME NEW q \in Seq(Users), NEW u \in Users
  PROVE  /\ Append(q, u) \in Seq(Users)
         /\ Elems(Append(q, u)) = Elems(q) \cup {u}
         /\ NoDup(q) /\ u \notin Elems(q) => NoDup(Append(q, u))
<1>1. /\ Append(q, u) \in Seq(Users)
      /\ Len(Append(q, u)) = Len(q) + 1
      /\ \A i \in 1..Len(q) : Append(q, u)[i] = q[i]
      /\ Append(q, u)[Len(q) + 1] = u
      /\ Len(q) \in Nat
  BY AppendProperties, LenProperties
<1>2. 1..(Len(q) + 1) = 1..Len(q) \cup {Len(q) + 1}
  BY <1>1
<1>3. Elems(Append(q, u)) = Elems(q) \cup {u}
  BY <1>1, <1>2 DEF Elems
<1>4. ASSUME NoDup(q), u \notin Elems(q) PROVE NoDup(Append(q, u))
  BY <1>1, <1>2, <1>4 DEF Elems, NoDup
<1> QED
  BY <1>1, <1>3, <1>4

\* What taking the head of a queue without duplicates does to its ids.
LEMMA TailIds ==
  ASSUME NEW q \in Seq(Users), q # <<>>
  PROVE  /\ Head(q) \in Users /\ Tail(q) \in Seq(Users)
         /\ Head(q) \in Elems(q)
         /\ Elems(Tail(q)) \subseteq Elems(q)
         /\ Elems(q) \subseteq Elems(Tail(q)) \cup {Head(q)}
         /\ NoDup(q) => NoDup(Tail(q)) /\ Head(q) \notin Elems(Tail(q))
<1>1. /\ Head(q) = q[1] /\ Head(q) \in Users /\ Tail(q) \in Seq(Users)
      /\ Len(q) \in Nat /\ Len(q) > 0
      /\ Len(Tail(q)) = Len(q) - 1
      /\ \A i \in 1..Len(Tail(q)) : Tail(q)[i] = q[i + 1]
  BY HeadTailProperties, LenProperties, EmptySeq
<1>2. \A i \in 1..Len(Tail(q)) : i + 1 \in 1..Len(q) /\ i + 1 # 1
  BY <1>1
<1>3. Head(q) \in Elems(q)
  BY <1>1 DEF Elems
<1>4. Elems(Tail(q)) \subseteq Elems(q)
  BY <1>1, <1>2 DEF Elems
<1>5. Elems(q) \subseteq Elems(Tail(q)) \cup {Head(q)}
  <2> SUFFICES ASSUME NEW i \in 1..Len(q), i # 1 PROVE q[i] \in Elems(Tail(q))
    BY <1>1 DEF Elems
  <2>1. i - 1 \in 1..Len(Tail(q)) /\ (i - 1) + 1 = i
    BY <1>1
  <2> QED
    BY <1>1, <2>1 DEF Elems
<1>6. ASSUME NoDup(q) PROVE NoDup(Tail(q)) /\ Head(q) \notin Elems(Tail(q))
  <2>1. NoDup(Tail(q))
    BY <1>1, <1>2, <1>6 DEF NoDup
  <2>2. Head(q) \notin Elems(Tail(q))
    BY <1>1, <1>2, <1>6 DEF NoDup, Elems
  <2> QED
    BY <2>1, <2>2
<1> QED
  BY <1>1, <1>3, <1>4, <1>5, <1>6

-----------------------------------------------------------------------------
(* Types *)

\* A broadcast thread that is done has forgotten its locals.
LEMMA DoneType == ASSUME NEW t \in BThreads, TypeOK, BDone(t) PROVE BType'
  BY BoundsAssumption DEF TypeOK, BDone, BGoto, BType, BPCs

\* The steps of the command thread preserve the types.
LEMMA CommandTypes == TypeOK /\ Command => TypeOK'
<1> SUFFICES ASSUME TypeOK, Command PROVE TypeOK'
  OBVIOUS
<1> USE UsersAssumption, BoundsAssumption DEF TypeOK, Faults, shared, cmdVars, gpsVars, slotVars, bVars
<1>1. ASSUME NEW u \in Users, RegisterNick(u) PROVE TypeOK'
  <2>1. UserType'
    BY <1>1 DEF RegisterNick, CmdAt, UserType, CmdType
  <2>2. CmdType'
    BY <1>1 DEF RegisterNick, CmdAt, CmdType, CmdPCs, UserType
  <2>3. SlotType' /\ GpsType' /\ BType' /\ fault' \in Faults
    BY <1>1 DEF RegisterNick, CmdAt, SlotType, GpsType, BType
  <2> QED
    BY <2>1, <2>2, <2>3
<1>2. ASSUME NEW u \in Users, QuitId(u) PROVE TypeOK'
  <2>1. UserType'
    BY <1>2 DEF QuitId, CmdAt, UserType, CmdType
  <2>2. CmdType'
    BY <1>2 DEF QuitId, CmdAt, CmdType, CmdPCs, UserType
  <2>3. SlotType' /\ GpsType' /\ BType' /\ fault' \in Faults
    BY <1>2 DEF QuitId, CmdAt, SlotType, GpsType, BType
  <2> QED
    BY <2>1, <2>2, <2>3
<1>3. ASSUME NEW u \in Users, NEW b \in Users, AddBuddy(u, b) PROVE TypeOK'
  <2>1. UserType'
    BY <1>3 DEF AddBuddy, CmdAt, UserType, CmdType
  <2>2. CmdType'
    BY <1>3 DEF AddBuddy, CmdAt, CmdType, CmdPCs, UserType
  <2>3. SlotType' /\ GpsType' /\ BType' /\ fault' \in Faults
    BY <1>3 DEF AddBuddy, CmdAt, SlotType, GpsType, BType
  <2> QED
    BY <2>1, <2>2, <2>3
<1>4. ASSUME NEW u \in Users, NEW b \in Users, RemoveBuddy(u, b) PROVE TypeOK'
  <2>1. UserType'
    BY <1>4 DEF RemoveBuddy, CmdAt, UserType, CmdType
  <2>2. CmdType'
    BY <1>4 DEF RemoveBuddy, CmdAt, CmdType, CmdPCs, UserType
  <2>3. SlotType' /\ GpsType' /\ BType' /\ fault' \in Faults
    BY <1>4 DEF RemoveBuddy, CmdAt, SlotType, GpsType, BType
  <2> QED
    BY <2>1, <2>2, <2>3
<1>5. ASSUME RegisterId PROVE TypeOK'
  <2>1. UserType'
    BY <1>5 DEF RegisterId, CmdAt, UserType, CmdType
  <2>2. CmdType'
    BY <1>5 DEF RegisterId, CmdAt, CmdType, CmdPCs, UserType
  <2>3. SlotType' /\ GpsType' /\ BType' /\ fault' \in Faults
    BY <1>5 DEF RegisterId, CmdAt, SlotType, GpsType, BType
  <2> QED
    BY <2>1, <2>2, <2>3
<1>6. ASSUME BuddiesUnlock PROVE TypeOK'
  <2>1. CmdType'
    BY <1>6 DEF BuddiesUnlock, CmdAt, CmdType, CmdPCs, UserType
  <2>2. UserType' /\ SlotType' /\ GpsType' /\ BType' /\ fault' \in Faults
    BY <1>6 DEF BuddiesUnlock, CmdAt, UserType, SlotType, GpsType, BType
  <2> QED
    BY <2>1, <2>2
<1>7. ASSUME QuitNick PROVE TypeOK'
  <2>1. UserType'
    BY <1>7 DEF QuitNick, CmdAt, UserType, CmdType
  <2>2. CmdType'
    BY <1>7 DEF QuitNick, CmdAt, CmdType, CmdPCs, UserType
  <2>3. SlotType' /\ GpsType' /\ BType' /\ fault' \in Faults
    BY <1>7 DEF QuitNick, CmdAt, SlotType, GpsType, BType
  <2> QED
    BY <2>1, <2>2, <2>3
<1>8. ASSUME QuitDelete PROVE TypeOK'
  <2>1. UserType'
    BY <1>8 DEF QuitDelete, CmdAt, UserType, CmdType
  <2>2. CmdType'
    BY <1>8 DEF QuitDelete, CmdAt, CmdType, CmdPCs, UserType
  <2>3. SlotType' /\ GpsType' /\ BType' /\ fault' \in Faults
    BY <1>8 DEF QuitDelete, CmdAt, SlotType, GpsType, BType
  <2> QED
    BY <2>1, <2>2, <2>3
<1>9. ASSUME CloseSocket PROVE TypeOK'
  <2>1. UserType'
    BY <1>9 DEF CloseSocket, CmdAt, UserType, CmdType
  <2>2. CmdType'
    BY <1>9 DEF CloseSocket, CmdAt, CmdType, CmdPCs, UserType
  <2>3. SlotType' /\ GpsType' /\ BType' /\ fault' \in Faults
    BY <1>9 DEF CloseSocket, CmdAt, SlotType, GpsType, BType
  <2> QED
    BY <2>1, <2>2, <2>3
<1> QED
  BY <1>1, <1>2, <1>3, <1>4, <1>5, <1>6, <1>7, <1>8, <1>9 DEF Command, CommandStep

\* So do those of the GPS thread ...
LEMMA GpsTypes == TypeOK /\ Gps => TypeOK'
<1> SUFFICES ASSUME TypeOK, Gps PROVE TypeOK'
  OBVIOUS
<1> USE UsersAssumption, BoundsAssumption DEF TypeOK, Faults, shared, cmdVars, gpsVars, slotVars, bVars
<1>1. ASSUME NEW u \in Users, RecvInit(u) PROVE TypeOK'
  <2>1. GpsType'
    BY <1>1 DEF RecvInit, GpsAt, GpsType, GpsPCs, UserType
  <2>2. UserType' /\ SlotType' /\ CmdType' /\ BType' /\ fault' \in Faults
    BY <1>1 DEF RecvInit, GpsAt, UserType, SlotType, CmdType, BType
  <2> QED
    BY <2>1, <2>2
<1>2. ASSUME NEW u \in Users, RecvCoordinates(u) PROVE TypeOK'
  <2>1. GpsType'
    BY <1>2 DEF RecvCoordinates, GpsAt, GpsType, GpsPCs, UserType
  <2>2. UserType' /\ SlotType' /\ CmdType' /\ BType' /\ fault' \in Faults
    BY <1>2 DEF RecvCoordinates, GpsAt, UserType, SlotType, CmdType, BType
  <2> QED
    BY <2>1, <2>2
<1>3. ASSUME GpsTimeout PROVE TypeOK'
  <2>1. GpsType'
    BY <1>3 DEF GpsTimeout, GpsGoto, GpsAt, GpsType, GpsPCs, UserType
  <2>2. UserType' /\ SlotType' /\ CmdType' /\ BType' /\ fault' \in Faults
    BY <1>3 DEF GpsTimeout, GpsGoto, GpsAt, UserType, SlotType, CmdType, BType
  <2> QED
    BY <2>1, <2>2
<1>4. ASSUME InitAddrUdp PROVE TypeOK'
  <2>1. UserType'
    BY <1>4 DEF InitAddrUdp, GpsGoto, GpsAt, UserType, GpsType
  <2>2. GpsType'
    BY <1>4 DEF InitAddrUdp, GpsGoto, GpsAt, GpsType, GpsPCs, UserType
  <2>3. SlotType' /\ CmdType' /\ BType' /\ fault' \in Faults
    BY <1>4 DEF InitAddrUdp, GpsGoto, GpsAt, SlotType, CmdType, BType
  <2> QED
    BY <2>1, <2>2, <2>3
<1>5. ASSUME SendUdpInitAck PROVE TypeOK'
  <2>1. GpsType'
    BY <1>5 DEF SendUdpInitAck, GpsAt, GpsType, GpsPCs, UserType
  <2>2. UserType' /\ SlotType' /\ CmdType' /\ BType' /\ fault' \in Faults
    BY <1>5 DEF SendUdpInitAck, GpsAt, UserType, SlotType, CmdType, BType
  <2> QED
    BY <2>1, <2>2
<1>6. ASSUME SendPendingCmd PROVE TypeOK'
  <2>1. GpsType'
    BY <1>6 DEF SendPendingCmd, GpsGoto, GpsAt, GpsType, GpsPCs, UserType
  <2>2. UserType' /\ SlotType' /\ CmdType' /\ BType' /\ fault' \in Faults
    BY <1>6 DEF SendPendingCmd, GpsGoto, GpsAt, UserType, SlotType, CmdType, BType
  <2> QED
    BY <2>1, <2>2
<1>7. ASSUME GpsSendThrows PROVE TypeOK'
  BY <1>7 DEF GpsSendThrows, GpsAt, UserType, SlotType, CmdType, GpsType, BType
<1>8. ASSUME CheckAddr PROVE TypeOK'
  <2>1. GpsType'
    BY <1>8 DEF CheckAddr, GpsGoto, GpsDone, GpsAt, GpsType, GpsPCs, UserType
  <2>2. UserType' /\ SlotType' /\ CmdType' /\ BType' /\ fault' \in Faults
    BY <1>8 DEF CheckAddr, GpsGoto, GpsDone, GpsAt, UserType, SlotType, CmdType, BType
  <2> QED
    BY <2>1, <2>2
<1>9. ASSUME WriteLon PROVE TypeOK'
  <2>1. SlotType'
    BY <1>9 DEF WriteLon, GpsGoto, GpsAt, SlotType, GpsType
  <2>2. GpsType'
    BY <1>9 DEF WriteLon, GpsGoto, GpsAt, GpsType, GpsPCs, UserType
  <2>3. UserType' /\ CmdType' /\ BType' /\ fault' \in Faults
    BY <1>9 DEF WriteLon, GpsGoto, GpsAt, UserType, CmdType, BType
  <2> QED
    BY <2>1, <2>2, <2>3
<1>10. ASSUME WriteLat PROVE TypeOK'
  <2>1. SlotType'
    BY <1>10 DEF WriteLat, GpsGoto, GpsAt, SlotType, GpsType
  <2>2. GpsType'
    BY <1>10 DEF WriteLat, GpsGoto, GpsAt, GpsType, GpsPCs, UserType
  <2>3. UserType' /\ CmdType' /\ BType' /\ fault' \in Faults
    BY <1>10 DEF WriteLat, GpsGoto, GpsAt, UserType, CmdType, BType
  <2> QED
    BY <2>1, <2>2, <2>3
<1>11. ASSUME TestReady PROVE TypeOK'
  <2>1. GpsType'
    BY <1>11 DEF TestReady, GpsGoto, GpsDone, GpsAt, GpsType, GpsPCs, UserType
  <2>2. UserType' /\ SlotType' /\ CmdType' /\ BType' /\ fault' \in Faults
    BY <1>11 DEF TestReady, GpsGoto, GpsDone, GpsAt, UserType, SlotType, CmdType, BType
  <2> QED
    BY <2>1, <2>2
<1>12. ASSUME SetReady PROVE TypeOK'
  <2>1. SlotType'
    BY <1>12 DEF SetReady, GpsGoto, GpsAt, SlotType, GpsType
  <2>2. GpsType'
    BY <1>12 DEF SetReady, GpsGoto, GpsAt, GpsType, GpsPCs, UserType
  <2>3. UserType' /\ CmdType' /\ BType' /\ fault' \in Faults
    BY <1>12 DEF SetReady, GpsGoto, GpsAt, UserType, CmdType, BType
  <2> QED
    BY <2>1, <2>2, <2>3
<1>13. ASSUME SwapEmpty PROVE TypeOK'
  <2>1. SlotType'
    BY <1>13 DEF SwapEmpty, GpsGoto, GpsAt, SlotType, GpsType
  <2>2. GpsType'
    BY <1>13 DEF SwapEmpty, GpsGoto, GpsAt, GpsType, GpsPCs, UserType
  <2>3. UserType' /\ CmdType' /\ BType' /\ fault' \in Faults
    BY <1>13 DEF SwapEmpty, GpsGoto, GpsAt, UserType, CmdType, BType
  <2> QED
    BY <2>1, <2>2, <2>3
<1>14. ASSUME PutId PROVE TypeOK'
  <2>1. SlotType'
    BY <1>14 DEF PutId, GpsDone, GpsAt, SlotType, GpsType
  <2>2. GpsType'
    BY <1>14 DEF PutId, GpsDone, GpsAt, GpsType, GpsPCs, UserType
  <2>3. UserType' /\ CmdType' /\ BType' /\ fault' \in Faults
    BY <1>14 DEF PutId, GpsDone, GpsAt, UserType, CmdType, BType
  <2> QED
    BY <2>1, <2>2, <2>3
<1>15. ASSUME GpsUseAfterFree PROVE TypeOK'
  BY <1>15 DEF GpsUseAfterFree, GpsAt, UserType, SlotType, CmdType, GpsType, BType
<1> QED
  BY <1>1, <1>2, <1>3, <1>4, <1>5, <1>6, <1>7, <1>8, <1>9, <1>10, <1>11, <1>12, <1>13, <1>14, <1>15 DEF Gps, GpsStep

\* ... and those of the broadcast threads.
LEMMA BroadcastTypes == TypeOK /\ (\E t \in BThreads : Broadcast(t)) => TypeOK'
<1> SUFFICES ASSUME TypeOK, (\E t \in BThreads : Broadcast(t)) PROVE TypeOK'
  OBVIOUS
<1> USE UsersAssumption, BoundsAssumption DEF TypeOK, Faults, shared, cmdVars, gpsVars, slotVars, bVars
<1>1. ASSUME NEW t \in BThreads, PullId(t) PROVE TypeOK'
  <2>1. SlotType'
    BY <1>1, TailIds DEF PullId, SlotType
  <2>2. BType'
    <3>1. Head(queue) \in Users
      BY <1>1, TailIds DEF PullId, SlotType
    <3> QED
      BY <1>1, <3>1 DEF PullId, BAt, BGoto, BType, BPCs
  <2>3. UserType' /\ CmdType' /\ GpsType' /\ fault' \in Faults
    BY <1>1 DEF PullId, BAt, BGoto, UserType, CmdType, GpsType
  <2> QED
    BY <2>1, <2>2, <2>3
<1>2. ASSUME NEW t \in BThreads, GetUser(t) PROVE TypeOK'
  <2>1. BType'
    <3>1. CASE bUser[t] \in idMap
      BY <1>2, <3>1 DEF GetUser, BAt, BGoto, BType, BPCs
    <3>2. CASE bUser[t] \notin idMap
      BY <1>2, <3>2, DoneType DEF GetUser
    <3> QED
      BY <3>1, <3>2
  <2>2. UserType' /\ SlotType' /\ CmdType' /\ GpsType' /\ fault' \in Faults
    BY <1>2 DEF GetUser, BDone, BAt, BGoto, UserType, SlotType, CmdType, GpsType
  <2> QED
    BY <2>1, <2>2
<1>3. ASSUME NEW t \in BThreads, GetReady(t) PROVE TypeOK'
  <2>1. BType'
    <3>1. CASE ready[bUser[t]] = NULL
      BY <1>3, <3>1, DoneType DEF GetReady
    <3>2. CASE ready[bUser[t]] # NULL
      <4>1. ready[bUser[t]] \in Slots
        BY <1>3, <3>2 DEF GetReady, BAt, BType, SlotType
      <4> QED
        BY <1>3, <3>2, <4>1 DEF GetReady, BAt, BGoto, BType, BPCs
    <3> QED
      BY <3>1, <3>2
  <2>2. UserType' /\ SlotType' /\ CmdType' /\ GpsType' /\ fault' \in Faults
    BY <1>3 DEF GetReady, BDone, BAt, BGoto, UserType, SlotType, CmdType, GpsType
  <2> QED
    BY <2>1, <2>2
<1>4. ASSUME NEW t \in BThreads, CopyLon(t) PROVE TypeOK'
  <2>1. BType'
    <3>1. lon[bUser[t]][bSlot[t]] \in 0..MaxPos
      <4>1. bUser[t] \in Users /\ bSlot[t] \in Slots
        BY <1>4 DEF CopyLon, BAt, BType
      <4> QED
        BY <4>1 DEF SlotType
    <3> QED
      BY <1>4, <3>1 DEF CopyLon, BAt, BGoto, BType, BPCs
  <2>2. UserType' /\ SlotType' /\ CmdType' /\ GpsType' /\ fault' \in Faults
    BY <1>4 DEF CopyLon, BAt, BGoto, UserType, SlotType, CmdType, GpsType
  <2> QED
    BY <2>1, <2>2
<1>5. ASSUME NEW t \in BThreads, CopyLat(t) PROVE TypeOK'
  <2>1. BType'
    <3>1. lat[bUser[t]][bSlot[t]] \in 0..MaxPos
      <4>1. bUser[t] \in Users /\ bSlot[t] \in Slots
        BY <1>5 DEF CopyLat, BAt, BType
      <4> QED
        BY <4>1 DEF SlotType
    <3> QED
      BY <1>5, <3>1 DEF CopyLat, BAt, BGoto, BType, BPCs
  <2>2. UserType' /\ SlotType' /\ CmdType' /\ GpsType' /\ fault' \in Faults
    BY <1>5 DEF CopyLat, BAt, BGoto, UserType, SlotType, CmdType, GpsType
  <2> QED
    BY <2>1, <2>2
<1>6. ASSUME NEW t \in BThreads, CopyBuddies(t) PROVE TypeOK'
  <2>1. BType'
    BY <1>6 DEF CopyBuddies, BAt, BGoto, BType, BPCs, UserType
  <2>2. UserType' /\ SlotType' /\ CmdType' /\ GpsType' /\ fault' \in Faults
    BY <1>6 DEF CopyBuddies, BAt, BGoto, UserType, SlotType, CmdType, GpsType
  <2> QED
    BY <2>1, <2>2
<1>7. ASSUME NEW t \in BThreads, CopyHeldBuddies(t) PROVE TypeOK'
  <2>1. BType'
    BY <1>7 DEF CopyHeldBuddies, BAt, BGoto, BType, BPCs
  <2>2. UserType' /\ SlotType' /\ CmdType' /\ GpsType' /\ fault' \in Faults
    BY <1>7 DEF CopyHeldBuddies, BAt, BGoto, UserType, SlotType, CmdType, GpsType
  <2> QED
    BY <2>1, <2>2
<1>8. ASSUME NEW t \in BThreads, NEW b \in Users, CountNick(t, b) PROVE TypeOK'
  <2>1. BType'
    <3>1. CASE b \in nickMap
      BY <1>8, <3>1, SMTT(30) DEF CountNick, BAt, BGoto, BType, BPCs
    <3>2. CASE b \notin nickMap
      BY <1>8, <3>2 DEF CountNick, BAt, BGoto, BType, BPCs
    <3> QED
      BY <3>1, <3>2
  <2>2. UserType' /\ SlotType' /\ CmdType' /\ GpsType' /\ fault' \in Faults
    BY <1>8 DEF CountNick, BAt, BGoto, UserType, SlotType, CmdType, GpsType
  <2> QED
    BY <2>1, <2>2
<1>9. ASSUME NEW t \in BThreads, GetNick(t) PROVE TypeOK'
  <2>1. BType'
    BY <1>9 DEF GetNick, BAt, BGoto, BType, BPCs
  <2>2. UserType' /\ SlotType' /\ CmdType' /\ GpsType' /\ fault' \in Faults
    BY <1>9 DEF GetNick, BAt, BGoto, UserType, SlotType, CmdType, GpsType
  <2> QED
    BY <2>1, <2>2
<1>10. ASSUME NEW t \in BThreads, SkipBuddy(t) PROVE TypeOK'
  <2>1. BType'
    BY <1>10 DEF SkipBuddy, NextNick, BAt, BGoto, BType, BPCs
  <2>2. UserType' /\ SlotType' /\ CmdType' /\ GpsType' /\ fault' \in Faults
    BY <1>10 DEF SkipBuddy, NextNick, BAt, BGoto, UserType, SlotType, CmdType, GpsType
  <2> QED
    BY <2>1, <2>2
<1>11. ASSUME NEW t \in BThreads, SendPosition(t) PROVE TypeOK'
  <2>1. BType'
    BY <1>11 DEF SendPosition, NextNick, CanSend, BAt, BGoto, BType, BPCs
  <2>2. UserType' /\ SlotType' /\ CmdType' /\ GpsType' /\ fault' \in Faults
    BY <1>11 DEF SendPosition, NextNick, CanSend, BAt, BGoto, UserType, SlotType, CmdType, GpsType
  <2> QED
    BY <2>1, <2>2
<1>12. ASSUME NEW t \in BThreads, SendThrows(t) PROVE TypeOK'
  BY <1>12 DEF SendThrows, BAt, BGoto, UserType, SlotType, CmdType, GpsType, BType
<1>13. ASSUME NEW t \in BThreads, ClearReady(t) PROVE TypeOK'
  <2>1. SlotType'
    BY <1>13 DEF ClearReady, BDone, BAt, BGoto, SlotType, BType
  <2>2. BType'
    BY <1>13, DoneType DEF ClearReady
  <2>3. UserType' /\ CmdType' /\ GpsType' /\ fault' \in Faults
    BY <1>13 DEF ClearReady, BDone, BAt, BGoto, UserType, CmdType, GpsType
  <2> QED
    BY <2>1, <2>2, <2>3
<1>14. ASSUME NEW t \in BThreads, BroadcastUseAfterFree(t) PROVE TypeOK'
  BY <1>14 DEF BroadcastUseAfterFree, BAt, BGoto, UserType, SlotType, CmdType, GpsType, BType
<1> QED
  BY <1>1, <1>2, <1>3, <1>4, <1>5, <1>6, <1>7, <1>8, <1>9, <1>10, <1>11, <1>12, <1>13, <1>14 DEF Broadcast

-----------------------------------------------------------------------------
(* The journey of a position *)

USE DEF Busy, GpsHasToken, Copied

Core == TokenInv /\ ReadyInv /\ SlotInv /\ CopyInv

slots == <<queue, ready, empty, lon, lat>>
gpsAt == <<gpsPC, gpsUser, gpsPos>>
locals == <<bUser, bSlot, copyLon, copyLat>>

\* Steps that touch nothing the invariants are about.
LEMMA CoreStutter == ASSUME Core, UNCHANGED <<slots, gpsAt, bPC, locals>> PROVE Core'
  BY DEF Core, slots, gpsAt, locals, TokenInv, ReadyInv, SlotInv, CopyInv

\* Steps of the GPS thread outside the publication of a position.
LEMMA GpsQuiet ==
  ASSUME Core, UNCHANGED <<slots, bPC, locals>>, gpsPC # "swap",
         gpsPC' \notin {"lat", "test", "set_ready", "swap", "put"}
  PROVE  Core'
  BY DEF Core, slots, locals, TokenInv, ReadyInv, SlotInv, CopyInv

\* Steps of a broadcast thread after the copy.
LEMMA BroadcastQuiet ==
  ASSUME NEW t \in BThreads, TypeOK, Core, UNCHANGED <<slots, gpsAt, locals>>,
         bPC[t] \in Copied, NEW p \in Copied, bPC' = [bPC EXCEPT ![t] = p]
  PROVE  Core'
<1>1. \A s \in BThreads : bPC'[s] = IF s = t THEN p ELSE bPC[s]
  BY DEF TypeOK, BType
<1>2. TokenInv' /\ ReadyInv'
  BY <1>1 DEF Core, slots, gpsAt, locals, TokenInv, ReadyInv
<1>3. SlotInv'
  BY DEF Core, slots, gpsAt, SlotInv
<1>4. CopyInv'
  BY <1>1 DEF Core, slots, locals, CopyInv
<1> QED
  BY <1>2, <1>3, <1>4 DEF Core

\* A broadcast thread drops its id, and sets ready to NULL or leaves it.
LEMMA BroadcastDone ==
  ASSUME NEW t \in BThreads, TypeOK, Core, Busy(t), BDone(t),
         UNCHANGED <<queue, empty, lon, lat, gpsAt>>,
         ready' = ready \/ ready' = [ready EXCEPT ![bUser[t]] = NULL]
  PROVE  Core'
<1>1. \A s \in BThreads \ {t} : /\ bPC'[s] = bPC[s] /\ bUser'[s] = bUser[s]
                                  /\ bSlot'[s] = bSlot[s]
                                  /\ copyLon'[s] = copyLon[s] /\ copyLat'[s] = copyLat[s]
  BY DEF BDone, BGoto, TypeOK, BType
<1>2. bPC'[t] = "pull"
  BY DEF BDone, BGoto, TypeOK, BType
<1>3. \A u \in Users : ready'[u] = ready[u] \/ (u = bUser[t] /\ ready'[u] = NULL)
  BY DEF TypeOK, SlotType
<1>4. TokenInv'
  <2>1. \A s \in BThreads : Busy(s)' => s # t /\ Busy(s) /\ bUser'[s] = bUser[s]
    BY <1>1, <1>2
  <2> QED
    BY <2>1 DEF Core, gpsAt, TokenInv
<1>5. ReadyInv'
  <2>1. Elems(queue) \subseteq Users
    BY ElementOfSeq, SMTT(30) DEF Elems, TypeOK, SlotType
  <2>2. \A u \in Elems(queue) : ready'[u] # NULL
    BY <1>3, <2>1 DEF Core, TokenInv, ReadyInv
  <2>3. \A s \in BThreads : Busy(s)' => ready'[bUser'[s]] # NULL
    <3> SUFFICES ASSUME NEW s \in BThreads, Busy(s)' PROVE ready'[bUser'[s]] # NULL
      OBVIOUS
    <3>1. s # t /\ Busy(s) /\ bUser'[s] = bUser[s] /\ bUser[s] \in Users
      BY <1>1, <1>2 DEF TypeOK, BType
    <3>2. bUser[s] # bUser[t] /\ ready[bUser[s]] # NULL
      BY <3>1 DEF Core, TokenInv, ReadyInv
    <3> QED
      BY <1>3, <3>1, <3>2
  <2>4. GpsHasToken => ready'[gpsUser] # NULL
    BY <1>3 DEF Core, TokenInv, ReadyInv, TypeOK, GpsType
  <2>5. gpsPC = "set_ready" => ready'[gpsUser] = NULL
    BY <1>3 DEF Core, ReadyInv, TypeOK, GpsType
  <2> QED
    BY <2>2, <2>3, <2>4, <2>5 DEF ReadyInv, gpsAt
<1>6. SlotInv'
  <2>1. gpsPC = "swap" => ready'[gpsUser] = ready[gpsUser]
    BY <1>3 DEF Core, TokenInv, TypeOK, GpsType
  <2> QED
    BY <1>3, <2>1 DEF Core, SlotInv, gpsAt
<1>7. CopyInv'
  <2>1. \A s \in BThreads \ {t} : Busy(s) => ready'[bUser[s]] = ready[bUser[s]]
    BY <1>3 DEF Core, TokenInv, TypeOK, BType
  <2>2. \A s \in BThreads : bPC'[s] # "pull" => s # t
    BY <1>2
  <2> QED
    BY <1>1, <2>1, <2>2 DEF Core, CopyInv
<1> QED
  BY <1>4, <1>5, <1>6, <1>7 DEF Core

\* The steps of the GPS thread that write a position and publish it.
LEMMA GpsPublishes ==
  ASSUME TypeOK, Core, WriteLon \/ WriteLat \/ TestReady \/ SetReady \/ SwapEmpty \/ PutId
  PROVE  Core'
<1> USE DEF gpsVars, slotVars, bVars, GpsAt, GpsGoto
<1>1. CASE WriteLon
  <2>1. gpsUser \in Users /\ gpsPC = "lon" /\ gpsPC' = "lat" /\ empty[gpsUser] \in Slots
    BY <1>1 DEF WriteLon, TypeOK, GpsType, GpsPCs, SlotType
  <2>2. /\ lon'[gpsUser][empty[gpsUser]] = gpsPos
        /\ \A u \in Users, s \in Slots : (u # gpsUser \/ s # empty[gpsUser]) => lon'[u][s] = lon[u][s]
    BY <1>1, <2>1 DEF WriteLon, TypeOK, SlotType
  <2>3. TokenInv' /\ ReadyInv'
    BY <1>1, <2>1 DEF WriteLon, Core, TokenInv, ReadyInv
  <2>4. SlotInv'
    BY <1>1, <2>1, <2>2 DEF WriteLon, Core, SlotInv, TypeOK, SlotType
  <2>5. CopyInv'
    <3>1. \A t \in BThreads : bPC[t] = "lat" =>
            bUser[t] \in Users /\ bSlot[t] = ready[bUser[t]] /\ bSlot[t] \in Slots
      BY DEF Core, CopyInv, TypeOK, BType
    <3>2. \A u \in Users : ready[u] # NULL => ready[u] # empty[u]
      BY <2>1 DEF Core, SlotInv
    <3>3. \A t \in BThreads : bPC[t] = "lat" => lon'[bUser[t]][bSlot[t]] = lon[bUser[t]][bSlot[t]]
      BY <2>2, <3>1, <3>2
    <3> QED
      BY <1>1, <3>3 DEF WriteLon, Core, CopyInv
  <2> QED
    BY <2>3, <2>4, <2>5 DEF Core
<1>2. CASE WriteLat
  <2>1. gpsUser \in Users /\ gpsPC = "lat" /\ gpsPC' = "test" /\ empty[gpsUser] \in Slots
    BY <1>2 DEF WriteLat, TypeOK, GpsType, GpsPCs, SlotType
  <2>2. /\ lat'[gpsUser][empty[gpsUser]] = gpsPos
        /\ \A u \in Users, s \in Slots : (u # gpsUser \/ s # empty[gpsUser]) => lat'[u][s] = lat[u][s]
    BY <1>2, <2>1 DEF WriteLat, TypeOK, SlotType
  <2>3. TokenInv' /\ ReadyInv'
    BY <1>2, <2>1 DEF WriteLat, Core, TokenInv, ReadyInv
  <2>4. SlotInv'
    BY <1>2, <2>1, <2>2 DEF WriteLat, Core, SlotInv, TypeOK, SlotType
  <2>5. CopyInv'
    BY <1>2 DEF WriteLat, Core, CopyInv
  <2> QED
    BY <2>3, <2>4, <2>5 DEF Core
<1>3. CASE TestReady
  <2>1. CASE ready[gpsUser] # NULL
    <3>1. gpsPC = "test" /\ gpsPC' \in {"idle", "pending"}
      BY <1>3, <2>1 DEF TestReady, GpsDone
    <3> QED
      BY <1>3, <3>1, GpsQuiet DEF TestReady, slots, locals
  <2>2. CASE ready[gpsUser] = NULL
    BY <1>3, <2>2 DEF TestReady, Core, TokenInv, ReadyInv, SlotInv, CopyInv
  <2> QED
    BY <2>1, <2>2
<1>4. CASE SetReady
  <2>1. /\ gpsUser \in Users /\ gpsPC = "set_ready" /\ gpsPC' = "swap"
        /\ empty[gpsUser] \in Slots /\ ready[gpsUser] = NULL
    BY <1>4 DEF SetReady, TypeOK, GpsType, GpsPCs, SlotType, Core, ReadyInv
  <2>2. /\ ready'[gpsUser] = empty[gpsUser]
        /\ \A u \in Users : u # gpsUser => ready'[u] = ready[u]
    BY <1>4, <2>1 DEF SetReady, TypeOK, SlotType
  <2>3. gpsUser \notin Elems(queue) /\ \A t \in BThreads : Busy(t) => bUser[t] # gpsUser
    BY <2>1 DEF Core, ReadyInv
  <2>4. TokenInv'
    BY <1>4, <2>3 DEF SetReady, Core, TokenInv
  <2>5. ReadyInv'
    <3>1. Elems(queue) \subseteq Users
      BY ElementOfSeq DEF Elems, TypeOK, SlotType
    <3>2. \A t \in BThreads : Busy(t) => bUser[t] \in Users
      BY DEF TypeOK, BType
    <3> QED
      BY <1>4, <2>1, <2>2, <2>3, <3>1, <3>2 DEF SetReady, Core, ReadyInv
  <2>6. SlotInv'
    BY <1>4, <2>1, <2>2 DEF SetReady, Core, SlotInv
  <2>7. CopyInv'
    <3>1. \A t \in BThreads : Busy(t) => ready'[bUser[t]] = ready[bUser[t]]
      BY <2>2, <2>3 DEF TypeOK, BType
    <3> QED
      BY <1>4, <3>1 DEF SetReady, Core, CopyInv
  <2> QED
    BY <2>4, <2>5, <2>6, <2>7 DEF Core
<1>5. CASE SwapEmpty
  <2>1. gpsUser \in Users /\ gpsPC = "swap" /\ gpsPC' = "put" /\ empty[gpsUser] \in Slots
    BY <1>5 DEF SwapEmpty, TypeOK, GpsType, GpsPCs, SlotType
  <2>2. /\ empty'[gpsUser] # empty[gpsUser]
        /\ \A u \in Users : u # gpsUser => empty'[u] = empty[u]
    BY <1>5, <2>1 DEF SwapEmpty, TypeOK, SlotType
  <2>3. TokenInv' /\ ReadyInv'
    BY <1>5, <2>1 DEF SwapEmpty, Core, TokenInv, ReadyInv
  <2>4. SlotInv'
    BY <1>5, <2>1, <2>2 DEF SwapEmpty, Core, SlotInv
  <2>5. CopyInv'
    BY <1>5 DEF SwapEmpty, Core, CopyInv
  <2> QED
    BY <2>3, <2>4, <2>5 DEF Core
<1>6. CASE PutId
  <2>1. gpsUser \in Users /\ gpsPC = "put" /\ gpsPC' \in {"idle", "pending"}
    BY <1>6 DEF PutId, GpsDone, TypeOK, GpsType
  <2>2. Elems(queue') = Elems(queue) \cup {gpsUser} /\ NoDup(queue')
    BY <1>6, <2>1, AppendIds DEF PutId, TypeOK, SlotType, Core, TokenInv
  <2>3. TokenInv'
    BY <1>6, <2>1, <2>2 DEF PutId, Core, TokenInv
  <2>4. ReadyInv'
    BY <1>6, <2>1, <2>2 DEF PutId, Core, ReadyInv
  <2>5. SlotInv' /\ CopyInv'
    BY <1>6, <2>1 DEF PutId, Core, SlotInv, CopyInv
  <2> QED
    BY <2>3, <2>4, <2>5 DEF Core
<1> QED
  BY <1>1, <1>2, <1>3, <1>4, <1>5, <1>6

\* A broadcast thread takes an id off the queue and keeps it to itself.
LEMMA PullTakes == ASSUME NEW t \in BThreads, TypeOK, Core, PullId(t) PROVE Core'
<1> DEFINE h == Head(queue)
<1>1. /\ h \in Elems(queue) /\ Elems(queue') \subseteq Elems(queue)
      /\ NoDup(queue') /\ h \notin Elems(queue')
  BY TailIds DEF PullId, TypeOK, SlotType, Core, TokenInv
<1>2. /\ bPC'[t] = "get" /\ bUser'[t] = h
      /\ \A s \in BThreads : s # t => bPC'[s] = bPC[s] /\ bUser'[s] = bUser[s]
  BY DEF PullId, BGoto, TypeOK, BType
<1>3. UNCHANGED <<ready, empty, lon, lat, gpsAt, bSlot, copyLon, copyLat>>
  BY DEF PullId, slotVars, gpsVars, gpsAt
<1>4. \A s \in BThreads : s # t /\ Busy(s) => bUser[s] # h
  BY <1>1 DEF Core, TokenInv
<1>5. TokenInv'
  BY <1>1, <1>2, <1>3, <1>4 DEF Core, TokenInv, gpsAt
<1>6. ReadyInv'
  BY <1>1, <1>2, <1>3 DEF Core, ReadyInv, gpsAt
<1>7. SlotInv'
  BY <1>3 DEF Core, SlotInv, gpsAt
<1>8. CopyInv'
  BY <1>2, <1>3 DEF Core, CopyInv
<1> QED
  BY <1>5, <1>6, <1>7, <1>8 DEF Core

\* A broadcast thread copies the ready slot.
LEMMA CopyTakes ==
  ASSUME NEW t \in BThreads, TypeOK, Core,
         GetUser(t) \/ GetReady(t) \/ CopyLon(t) \/ CopyLat(t)
  PROVE  Core'
<1> USE DEF gpsVars, slotVars, BAt, BGoto
<1>0. Busy(t)
  BY DEF GetUser, GetReady, CopyLon, CopyLat
<1>1. CASE BDone(t)
  BY <1>0, <1>1, BroadcastDone DEF GetUser, GetReady, CopyLon, CopyLat, gpsAt
<1>2. CASE ~BDone(t)
  <2>1. /\ UNCHANGED <<slots, gpsAt, bUser>>
        /\ bPC'[t] # "pull"
        /\ \A s \in BThreads : s # t => /\ bPC'[s] = bPC[s] /\ bSlot'[s] = bSlot[s]
                                        /\ copyLon'[s] = copyLon[s] /\ copyLat'[s] = copyLat[s]
    BY <1>2 DEF GetUser, GetReady, CopyLon, CopyLat, TypeOK, BType, slots, gpsAt
  <2>2. TokenInv' /\ ReadyInv' /\ SlotInv'
    BY <1>0, <2>1 DEF Core, TokenInv, ReadyInv, SlotInv, slots, gpsAt
  <2>3. /\ bPC'[t] \in {"lon", "lat"} => bSlot'[t] = ready[bUser[t]]
        /\ bPC'[t] = "lat" => copyLon'[t] = lon[bUser[t]][bSlot'[t]]
        /\ bPC'[t] \in Copied => copyLon'[t] = copyLat'[t]
    <3>1. CASE GetUser(t)
      BY <1>2, <3>1 DEF GetUser, TypeOK, BType
    <3>2. CASE GetReady(t)
      BY <1>2, <3>2 DEF GetReady, TypeOK, BType
    <3>3. CASE CopyLon(t)
      BY <3>3 DEF CopyLon, TypeOK, BType, Core, CopyInv
    <3>4. CASE CopyLat(t)
      <4>1. bUser[t] \in Users /\ bSlot[t] = ready[bUser[t]] /\ ready[bUser[t]] # NULL
        BY <1>0, <3>4 DEF CopyLat, TypeOK, BType, Core, CopyInv, ReadyInv
      <4>2. lon[bUser[t]][bSlot[t]] = lat[bUser[t]][bSlot[t]]
        BY <4>1 DEF Core, SlotInv
      <4> QED
        BY <3>4, <4>2 DEF CopyLat, TypeOK, BType, Core, CopyInv
    <3> QED
      BY <3>1, <3>2, <3>3, <3>4
  <2>4. CopyInv'
    BY <2>1, <2>3 DEF Core, CopyInv, slots
  <2> QED
    BY <2>2, <2>4 DEF Core
<1> QED
  BY <1>1, <1>2

\* Every step preserves the inductive invariant.
LEMMA NextIInv == IInv /\ [Next]_vars => IInv'
<1> SUFFICES ASSUME TypeOK, Core, [Next]_vars PROVE TypeOK' /\ Core'
  BY DEF IInv, Core
<1> USE DEF slots, gpsAt, locals, shared, gpsVars, slotVars, bVars
<1>1. CASE Command
  <2>1. UNCHANGED <<slots, gpsAt, bPC, locals>>
    BY <1>1 DEF Command, CommandStep, RegisterNick, QuitId, AddBuddy, RemoveBuddy, RegisterId,
                BuddiesUnlock, QuitNick, QuitDelete, CloseSocket
  <2> QED
    BY <1>1, <2>1, CoreStutter, CommandTypes
<1>2. CASE Gps
  <2>1. TypeOK'
    BY <1>2, GpsTypes
  <2> SUFFICES Core'
    BY <2>1
  <2>2. CASE WriteLon \/ WriteLat \/ TestReady \/ SetReady \/ SwapEmpty \/ PutId
    BY <2>2, GpsPublishes
  <2>3. CASE GpsSendThrows \/ GpsUseAfterFree
    BY <2>3, CoreStutter DEF GpsSendThrows, GpsUseAfterFree
  <2>4. ASSUME NEW u \in Users, RecvInit(u) \/ RecvCoordinates(u) PROVE Core'
    BY <2>4, GpsQuiet DEF RecvInit, RecvCoordinates, GpsAt
  <2>5. CASE GpsTimeout \/ InitAddrUdp \/ SendUdpInitAck \/ SendPendingCmd
    BY <2>5, GpsQuiet DEF GpsTimeout, InitAddrUdp, SendUdpInitAck, SendPendingCmd, GpsAt, GpsGoto
  <2>6. CASE CheckAddr
    BY <2>6, GpsQuiet DEF CheckAddr, GpsAt, GpsGoto, GpsDone
  <2> QED
    BY <1>2, <2>1, <2>2, <2>3, <2>4, <2>5, <2>6 DEF Gps, GpsStep
<1>3. ASSUME NEW t \in BThreads, Broadcast(t) PROVE TypeOK' /\ Core'
  <2>1. TypeOK'
    BY <1>3, BroadcastTypes
  <2> SUFFICES Core'
    BY <2>1
  <2>2. CASE PullId(t)
    BY <2>2, PullTakes
  <2>3. CASE GetUser(t) \/ GetReady(t) \/ CopyLon(t) \/ CopyLat(t)
    BY <2>3, CopyTakes
  <2>4. CASE ClearReady(t)
    BY <2>4, BroadcastDone DEF ClearReady, BAt
  <2>5. CASE SendThrows(t) \/ BroadcastUseAfterFree(t)
    BY <2>5, CoreStutter DEF SendThrows, BroadcastUseAfterFree
  <2>6. CASE CopyBuddies(t)
    BY <2>6, BroadcastQuiet DEF CopyBuddies, BAt, BGoto
  <2>7. CASE CopyHeldBuddies(t)
    <3>1. CASE BGoto(t, "blocked")
      BY <2>7, <3>1, BroadcastQuiet DEF CopyHeldBuddies, BAt, BGoto
    <3>2. CASE UNCHANGED bPC
      BY <2>7, <3>2, CoreStutter DEF CopyHeldBuddies
    <3> QED
      BY <2>7, <3>1, <3>2 DEF CopyHeldBuddies
  <2>8. ASSUME NEW b \in Users, CountNick(t, b) PROVE Core'
    <3>1. CASE b \in nickMap
      BY <2>8, <3>1, BroadcastQuiet DEF CountNick, BAt, BGoto
    <3>2. CASE b \notin nickMap
      BY <2>8, <3>2, CoreStutter DEF CountNick
    <3> QED
      BY <3>1, <3>2
  <2>9. CASE GetNick(t)
    <3>1. CASE bBuddy[t] \in nickMap
      BY <2>9, <3>1, BroadcastQuiet DEF GetNick, BAt, BGoto
    <3>2. CASE bBuddy[t] \notin nickMap
      BY <2>9, <3>2, CoreStutter DEF GetNick
    <3> QED
      BY <3>1, <3>2
  <2>10. CASE SkipBuddy(t) \/ SendPosition(t)
    BY <2>10, BroadcastQuiet DEF SkipBuddy, SendPosition, CanSend, NextNick, BAt, BGoto
  <2> QED
    BY <1>3, <2>1, <2>2, <2>3, <2>4, <2>5, <2>6, <2>7, <2>8, <2>9, <2>10 DEF Broadcast
<1>4. CASE UNCHANGED vars
  <2>1. TypeOK'
    BY <1>4 DEF vars, cmdVars, TypeOK, UserType, SlotType, CmdType, GpsType, BType
  <2> QED
    BY <1>4, <2>1, CoreStutter DEF vars
<1> QED
  BY <1>1, <1>2, <1>3, <1>4 DEF Next

\* The initial state satisfies the inductive invariant.
LEMMA InitIInv == Init => IInv
<1> SUFFICES ASSUME Init PROVE IInv
  OBVIOUS
<1>1. TypeOK
  BY UsersAssumption, BoundsAssumption
     DEF Init, TypeOK, UserType, SlotType, CmdType, GpsType, BType, CmdPCs, GpsPCs, BPCs, Faults
<1>2. Elems(queue) = {} /\ NoDup(queue)
  BY DEF Init, Elems, NoDup
<1> QED
  BY <1>1, <1>2 DEF Init, IInv, TokenInv, ReadyInv, SlotInv, CopyInv

\* The inductive invariant holds in every reachable state.
LEMMA Invariance == Spec => []IInv
  BY InitIInv, NextIInv, PTL DEF Spec

-----------------------------------------------------------------------------
(* Theorems *)

\* Every variable keeps its type, and a thread uses only locals it has set.
THEOREM TypeCorrect == Spec => []TypeOK
  BY Invariance, PTL DEF IInv

\* An id is never on the queue twice, as the README promises, with any number
\* of users and broadcast threads.
THEOREM QueuedOnce == Spec => []OnceOnQueue
<1>1. IInv => OnceOnQueue
  BY DEF IInv, TokenInv, NoDup, OnceOnQueue
<1> QED
  BY <1>1, Invariance, PTL

\* A user's position is broadcast by at most one thread at a time, and by none
\* while its id is queued.
THEOREM SingleBroadcaster == Spec => []OneBroadcaster
<1>1. IInv => OneBroadcaster
  BY DEF IInv, TokenInv, Elems, OneBroadcaster, Holds
<1> QED
  BY <1>1, Invariance, PTL

\* No broadcast position mixes two positions, although the slots are read and
\* written without a lock.
THEOREM NeverTorn == Spec => []NoTornPosition
<1>1. IInv => NoTornPosition
  BY DEF IInv, CopyInv, NoTornPosition
<1> QED
  BY <1>1, Invariance, PTL

-----------------------------------------------------------------------------
(* No user is wedged *)

\* A user that is not yet in the id map: not created, or created and about to
\* be put there.
Fresh(u) == heap[u] = "none" \/ (cmdPC = "put_id" /\ cmdUser = u)

\* Nobody has touched the slots of a user that is not yet in the id map.
FreshInv ==
    /\ cmdPC = "put_id" => heap[cmdUser] = "live"
    /\ \A u \in Users : Fresh(u) => u \notin idMap /\ ready[u] = NULL /\ gpsUser # u

\* The id of u is about to be queued, queued, or with a broadcast thread.
Tracked(u) == \/ GpsHasToken /\ gpsUser = u
              \/ u \in Elems(queue)
              \/ \E t \in BThreads : Busy(t) /\ bUser[t] = u

TrackInv == \A u \in idMap : ready[u] # NULL => Tracked(u)

\* What the GPS thread leaves alone.
LEMMA GpsFrame ==
  ASSUME TypeOK, Gps
  PROVE  /\ UNCHANGED <<heap, idMap, cmdPC, cmdUser, bPC, bUser, bSlot, copyLon, todo, bBuddy, relayed>>
         /\ gpsUser' \in idMap \cup {gpsUser, NoUser}
         /\ \A u \in Users : ready'[u] = ready[u] \/ u = gpsUser
<1> USE DEF shared, cmdVars, gpsVars, slotVars, bVars, GpsGoto, GpsDone
<1>1. ASSUME NEW u \in Users, RecvInit(u) \/ RecvCoordinates(u)
      PROVE  /\ UNCHANGED <<heap, idMap, cmdPC, cmdUser, bVars, ready>>
             /\ gpsUser' \in idMap \cup {gpsUser, NoUser}
  BY <1>1 DEF RecvInit, RecvCoordinates
<1>2. CASE SetReady
  BY <1>2 DEF SetReady, TypeOK, SlotType
<1>3. CASE GpsTimeout \/ InitAddrUdp \/ SendUdpInitAck \/ SendPendingCmd \/ GpsSendThrows
  BY <1>3 DEF GpsTimeout, InitAddrUdp, SendUdpInitAck, SendPendingCmd, GpsSendThrows
<1>4. CASE CheckAddr \/ WriteLon \/ WriteLat \/ TestReady \/ SwapEmpty \/ PutId \/ GpsUseAfterFree
  BY <1>4 DEF CheckAddr, WriteLon, WriteLat, TestReady, SwapEmpty, PutId, GpsUseAfterFree
<1> QED
  BY <1>1, <1>2, <1>3, <1>4 DEF Gps, GpsStep

\* What a broadcast thread leaves alone.
LEMMA BroadcastFrame ==
  ASSUME NEW t \in BThreads, TypeOK, Broadcast(t)
  PROVE  /\ UNCHANGED <<heap, idMap, cmdPC, cmdUser, gpsPC, gpsUser, gpsPos, npos, empty, lon>>
         /\ ready' = ready \/ ClearReady(t)
<1> USE DEF shared, cmdVars, gpsVars, slotVars, bVars
<1>1. CASE PullId(t) \/ GetUser(t) \/ GetReady(t) \/ CopyLon(t) \/ CopyLat(t) \/ CopyBuddies(t)
           \/ CopyHeldBuddies(t)
  BY <1>1 DEF PullId, GetUser, GetReady, CopyLon, CopyLat, CopyBuddies, CopyHeldBuddies
<1>2. ASSUME NEW b \in Users, CountNick(t, b)
      PROVE  UNCHANGED <<heap, idMap, cmdPC, cmdUser, gpsPC, gpsUser, gpsPos, npos, empty, lon, ready>>
  BY <1>2 DEF CountNick
<1>3. CASE GetNick(t) \/ SkipBuddy(t) \/ SendPosition(t) \/ SendThrows(t) \/ ClearReady(t)
           \/ BroadcastUseAfterFree(t)
  BY <1>3 DEF GetNick, SkipBuddy, SendPosition, SendThrows, ClearReady, BroadcastUseAfterFree
<1> QED
  BY <1>1, <1>2, <1>3 DEF Broadcast

\* What the command thread does to the id map, the heap and its own state.
LEMMA CommandFrame ==
  ASSUME TypeOK, Command
  PROVE  UNCHANGED <<slots, gpsAt, bPC, locals, todo, bBuddy, relayed, npos>>
  BY DEF Command, CommandStep, RegisterNick, QuitId, AddBuddy, RemoveBuddy, RegisterId,
         BuddiesUnlock, QuitNick, QuitDelete, CloseSocket, slots, gpsAt, locals, gpsVars, slotVars, bVars

\* Every step keeps the slots of a fresh user untouched.
LEMMA NextFresh ==
  ASSUME TypeOK, Core, FreshInv, [Next]_vars
  PROVE  FreshInv'
<1>1. CASE Command
  <2>0. UNCHANGED <<ready, gpsUser>>
    BY <1>1, CommandFrame DEF slots, gpsAt
  <2> USE DEF CmdAt, shared, cmdVars
  <2>1. ASSUME NEW u \in Users, RegisterNick(u) PROVE FreshInv'
    BY <2>0, <2>1 DEF RegisterNick, FreshInv, Fresh, TypeOK, UserType
  <2>2. CASE RegisterId
    BY <2>0, <2>2 DEF RegisterId, FreshInv, Fresh, TypeOK, CmdType
  <2>3. ASSUME NEW u \in Users, QuitId(u) PROVE FreshInv'
    BY <2>0, <2>3 DEF QuitId, FreshInv, Fresh
  <2>4. ASSUME NEW u \in Users, NEW b \in Users, AddBuddy(u, b) \/ RemoveBuddy(u, b) PROVE FreshInv'
    BY <2>0, <2>4 DEF AddBuddy, RemoveBuddy, FreshInv, Fresh
  <2>5. CASE BuddiesUnlock \/ QuitNick
    BY <2>0, <2>5 DEF BuddiesUnlock, QuitNick, FreshInv, Fresh
  <2>6. CASE QuitDelete \/ CloseSocket
    BY <2>0, <2>6 DEF QuitDelete, CloseSocket, FreshInv, Fresh, TypeOK, UserType, CmdType
  <2> QED
    BY <1>1, <2>1, <2>2, <2>3, <2>4, <2>5, <2>6 DEF Command, CommandStep
<1>2. CASE Gps
  BY <1>2, GpsFrame, UsersAssumption DEF FreshInv, Fresh
<1>3. ASSUME NEW t \in BThreads, Broadcast(t) PROVE FreshInv'
  <2>1. UNCHANGED <<heap, idMap, cmdPC, cmdUser, gpsUser>>
    BY <1>3, BroadcastFrame
  <2>2. \A u \in Users : ready[u] = NULL => ready'[u] = NULL
    BY <1>3, BroadcastFrame DEF ClearReady, TypeOK, SlotType, BType
  <2> QED
    BY <2>1, <2>2 DEF FreshInv, Fresh
<1>4. CASE UNCHANGED vars
  BY <1>4 DEF vars, shared, cmdVars, gpsVars, FreshInv, Fresh
<1> QED
  BY <1>1, <1>2, <1>3, <1>4 DEF Next

\* Every step keeps track of the users whose ready slot is set.
LEMMA NextTrack ==
  ASSUME TypeOK, Core, FreshInv, TrackInv, [Next]_vars
  PROVE  TrackInv'
<1> USE DEF shared, cmdVars, gpsVars, slotVars, bVars
<1>0. idMap \subseteq Users
  BY DEF TypeOK, UserType
<1>1. ASSUME idMap' = idMap, UNCHANGED <<ready, queue, bUser>>,
             \A t \in BThreads : Busy(t) => Busy(t)',
             GpsHasToken => GpsHasToken' /\ gpsUser' = gpsUser
      PROVE  TrackInv'
  BY <1>1 DEF TrackInv, Tracked
<1>2. CASE Command
  <2>1. UNCHANGED <<ready, queue, gpsPC, gpsUser, bPC, bUser>>
    BY <1>2, CommandFrame DEF slots, gpsAt, locals
  <2>2. \A u \in Users : Tracked(u) => Tracked(u)'
    BY <2>1 DEF Tracked
  <2>3. idMap' \subseteq idMap \/ (cmdPC = "put_id" /\ idMap' = idMap \cup {cmdUser})
    BY <1>2 DEF Command, CommandStep, RegisterNick, QuitId, AddBuddy, RemoveBuddy, RegisterId,
                BuddiesUnlock, QuitNick, QuitDelete, CloseSocket, CmdAt
  <2>4. cmdPC = "put_id" => cmdUser \in Users /\ ready[cmdUser] = NULL
    BY DEF FreshInv, Fresh, TypeOK, CmdType
  <2> QED
    BY <1>0, <2>1, <2>2, <2>3, <2>4 DEF TrackInv
<1>3. CASE Gps
  <2>0. UNCHANGED <<idMap, bPC, bUser>>
    BY <1>3, GpsFrame
  <2>1. CASE SetReady
    <3>1. /\ gpsPC' = "swap" /\ gpsUser' = gpsUser /\ queue' = queue /\ gpsPC = "set_ready"
          /\ \A u \in Users : u # gpsUser => ready'[u] = ready[u]
      BY <2>1 DEF SetReady, GpsAt, GpsGoto, TypeOK, SlotType
    <3> QED
      BY <1>0, <2>0, <3>1 DEF TrackInv, Tracked
  <2>2. CASE PutId
    <3>1. gpsUser \in Users /\ gpsPC = "put" /\ ready' = ready
      BY <2>2 DEF PutId, GpsAt, TypeOK, GpsType
    <3>2. Elems(queue') = Elems(queue) \cup {gpsUser}
      BY <2>2, <3>1, AppendIds DEF PutId, TypeOK, SlotType
    <3> QED
      BY <2>0, <3>1, <3>2 DEF TrackInv, Tracked
  <2>3. CASE SwapEmpty \/ GpsSendThrows \/ GpsUseAfterFree
    BY <1>1, <2>0, <2>3 DEF SwapEmpty, GpsSendThrows, GpsUseAfterFree, GpsGoto
  <2>4. ASSUME NEW u \in Users, RecvInit(u) \/ RecvCoordinates(u) PROVE TrackInv'
    BY <1>1, <2>0, <2>4 DEF RecvInit, RecvCoordinates, GpsAt
  <2>5. CASE GpsTimeout \/ InitAddrUdp \/ SendUdpInitAck \/ SendPendingCmd
    BY <1>1, <2>0, <2>5 DEF GpsTimeout, InitAddrUdp, SendUdpInitAck, SendPendingCmd, GpsAt
  <2>6. CASE CheckAddr \/ WriteLon \/ WriteLat \/ TestReady
    BY <1>1, <2>0, <2>6 DEF CheckAddr, WriteLon, WriteLat, TestReady, GpsAt
  <2> QED
    BY <1>3, <2>1, <2>2, <2>3, <2>4, <2>5, <2>6 DEF Gps, GpsStep
<1>4. ASSUME NEW t \in BThreads, Broadcast(t) PROVE TrackInv'
  <2>0. UNCHANGED <<idMap, gpsPC, gpsUser>>
    BY <1>4, BroadcastFrame
  <2>1. CASE PullId(t)
    <3>1. Elems(queue) \subseteq Elems(queue') \cup {Head(queue)}
      BY <2>1, TailIds DEF PullId, TypeOK, SlotType
    <3>2. /\ Busy(t)' /\ ~Busy(t) /\ bUser'[t] = Head(queue) /\ ready' = ready
          /\ \A s \in BThreads : s # t => bPC'[s] = bPC[s] /\ bUser'[s] = bUser[s]
      BY <2>1 DEF PullId, BAt, BGoto, TypeOK, BType
    <3> QED
      BY <2>0, <3>1, <3>2 DEF TrackInv, Tracked
  <2>2. ASSUME BDone(t), UNCHANGED queue, bUser[t] \notin idMap \/ ready'[bUser[t]] = NULL,
               \A u \in Users : u # bUser[t] => ready'[u] = ready[u]
        PROVE  TrackInv'
    <3>1. \A s \in BThreads : s # t => bPC'[s] = bPC[s] /\ bUser'[s] = bUser[s]
      BY <2>2 DEF BDone, BGoto, TypeOK, BType
    <3> SUFFICES ASSUME NEW u \in idMap, ready'[u] # NULL PROVE Tracked(u)'
      BY <2>0 DEF TrackInv
    <3>2. u # bUser[t] /\ ready[u] # NULL
      BY <1>0, <2>2
    <3>3. Tracked(u)
      BY <3>2 DEF TrackInv
    <3> QED
      BY <2>0, <2>2, <3>1, <3>2, <3>3 DEF Tracked
  <2>3. CASE GetUser(t)
    <3>1. CASE bUser[t] \in idMap
      BY <1>1, <2>0, <2>3, <3>1 DEF GetUser, BAt, BGoto, TypeOK, BType
    <3>2. CASE bUser[t] \notin idMap
      BY <2>2, <2>3, <3>2 DEF GetUser
    <3> QED
      BY <3>1, <3>2
  <2>4. CASE GetReady(t)
    <3>1. ready[bUser[t]] # NULL
      BY <2>4 DEF GetReady, BAt, Core, ReadyInv
    <3> QED
      BY <1>1, <2>0, <2>4, <3>1 DEF GetReady, BAt, BGoto, TypeOK, BType
  <2>5. CASE ClearReady(t)
    BY <2>2, <2>5 DEF ClearReady, BAt, TypeOK, SlotType, BType
  <2>6. CASE CopyLon(t) \/ CopyLat(t) \/ CopyBuddies(t)
    BY <1>1, <2>0, <2>6 DEF CopyLon, CopyLat, CopyBuddies, BGoto, TypeOK, BType
  <2>7. CASE CopyHeldBuddies(t)
    BY <1>1, <2>0, <2>7 DEF CopyHeldBuddies, BGoto, TypeOK, BType
  <2>8. ASSUME NEW b \in Users, CountNick(t, b) PROVE TrackInv'
    BY <1>1, <2>0, <2>8 DEF CountNick, BGoto, TypeOK, BType
  <2>9. CASE GetNick(t) \/ SkipBuddy(t) \/ SendPosition(t)
    BY <1>1, <2>0, <2>9 DEF GetNick, SkipBuddy, SendPosition, NextNick, BGoto, TypeOK, BType
  <2>10. CASE SendThrows(t) \/ BroadcastUseAfterFree(t)
    BY <1>1, <2>0, <2>10 DEF SendThrows, BroadcastUseAfterFree
  <2> QED
    BY <1>4, <2>1, <2>3, <2>4, <2>5, <2>6, <2>7, <2>8, <2>9, <2>10 DEF Broadcast
<1>5. CASE UNCHANGED vars
  BY <1>1, <1>5 DEF vars
<1> QED
  BY <1>2, <1>3, <1>4, <1>5 DEF Next

\* No user in the id map is ever left with its ready slot set and its id
\* nowhere: processCoordinates would not queue it again.
THEOREM NoUserWedged == Spec => []NeverWedged
<1>1. Init => FreshInv /\ TrackInv
  BY UsersAssumption DEF Init, FreshInv, Fresh, TrackInv
<1>2. IInv /\ FreshInv /\ TrackInv /\ [Next]_vars => FreshInv' /\ TrackInv'
  BY NextFresh, NextTrack DEF IInv, Core
<1>3. TrackInv => NeverWedged
  BY DEF TrackInv, Tracked, NeverWedged, Elems, Holds
<1> QED
  BY <1>1, <1>2, <1>3, Invariance, PTL DEF Spec

-----------------------------------------------------------------------------
(* Positions are relayed in the order they came *)

\* The position in the ready slot of u, by the number of its datagram.
ReadyPos(u) == lon[u][ready[u]]

\* The GPS thread has a position that it has not made ready.
Receiving == {"addr", "lon", "lat", "test", "set_ready"}

\* The position in the GPS thread's hands is the newest: newer than the ready
\* one of its user and than all that was relayed of it.
AgeInv ==
    /\ \A u \in Users : /\ ready[u] # NULL => ReadyPos(u) <= npos
                        /\ \A b \in Users : relayed[u][b] <= npos
    /\ gpsPC \in Receiving =>
         /\ gpsPos = npos
         /\ ready[gpsUser] # NULL => ReadyPos(gpsUser) < npos
         /\ \A b \in Users : relayed[gpsUser][b] < npos
    /\ gpsPC \in {"lat", "test", "set_ready"} => lon[gpsUser][empty[gpsUser]] = npos

\* The copy of thread t may still go to every buddy in its todo and to the one
\* in its hands: to none of them has it, or a newer one, been sent.
SentBy(t) ==
    /\ copyLon[t] = ReadyPos(bUser[t])
    /\ \A b \in Users : relayed[bUser[t]][b] <= copyLon[t]
    /\ bPC[t] = "buddies" => \A b \in Users : relayed[bUser[t]][b] < copyLon[t]
    /\ bPC[t] \in {"loop", "get_nick", "send"} => \A b \in todo[t] : relayed[bUser[t]][b] < copyLon[t]
    /\ bPC[t] \in {"get_nick", "send"} => /\ bBuddy[t] \notin todo[t]
                                          /\ relayed[bUser[t]][bBuddy[t]] < copyLon[t]

\* A ready position that no thread has copied was relayed to nobody yet.
Unsent(u) == \A b \in Users : relayed[u][b] < ReadyPos(u)

SentInv ==
    /\ \A u \in Users : ready[u] # NULL /\ (\A t \in BThreads : bPC[t] \in Copied => bUser[t] # u) => Unsent(u)
    /\ \A t \in BThreads : bPC[t] \in Copied => SentBy(t)

\* The numbers the order is about.
LEMMA PosTypes ==
  ASSUME TypeOK
  PROVE  /\ npos \in Nat /\ gpsPos \in Nat
         /\ \A u, b \in Users : relayed[u][b] \in Nat
         /\ \A u \in Users : ready[u] # NULL => ReadyPos(u) \in Nat
         /\ \A t \in BThreads : copyLon[t] \in Nat
<1>1. 0..MaxPos \subseteq Nat
  BY BoundsAssumption
<1>2. npos \in Nat /\ gpsPos \in Nat
  BY <1>1 DEF TypeOK, GpsType
<1>3. (\A u, b \in Users : relayed[u][b] \in Nat) /\ \A t \in BThreads : copyLon[t] \in Nat
  BY <1>1 DEF TypeOK, BType
<1>4. \A u \in Users : ready[u] # NULL => ReadyPos(u) \in Nat
  BY <1>1 DEF TypeOK, SlotType, ReadyPos
<1> QED
  BY <1>2, <1>3, <1>4

\* A step that leaves the ready slots, what was relayed and the threads alone
\* leaves the order alone.
LEMMA SentKept ==
  ASSUME SentInv, TypeOK, UNCHANGED <<bPC, bUser, copyLon, todo, bBuddy, relayed, ready>>,
         \A u \in Users : ready[u] # NULL => ReadyPos(u)' = ReadyPos(u),
         \A t \in BThreads : bPC[t] \in Copied => ready[bUser[t]] # NULL
  PROVE  SentInv'
<1>1. \A t \in BThreads : bPC[t] \in Copied => bUser[t] \in Users
  BY DEF TypeOK, BType, Copied
<1>2. \A t \in BThreads : bPC[t] \in Copied => ReadyPos(bUser[t])' = ReadyPos(bUser[t])
  BY <1>1
<1>3. \A t \in BThreads : bPC[t] \in Copied => SentBy(t)'
  BY <1>2 DEF SentInv, SentBy
<1>4. \A u \in Users : ready[u] # NULL /\ Unsent(u) => Unsent(u)'
  BY DEF Unsent
<1> QED
  BY <1>3, <1>4 DEF SentInv

\* The steps of the GPS thread keep the order.
LEMMA GpsKeepsAge ==
  ASSUME TypeOK, Core, AgeInv, SentInv, Gps
  PROVE  AgeInv' /\ SentInv'
<1> USE DEF gpsVars, slotVars, bVars
<1>1. UNCHANGED <<bPC, bUser, copyLon, todo, bBuddy, relayed>>
  BY GpsFrame
<1>2. \A t \in BThreads : bPC[t] \in Copied => bUser[t] \in Users /\ ready[bUser[t]] # NULL
  BY DEF Core, ReadyInv, Copied, TypeOK, BType
<1>3. ASSUME ready' = ready, lon' = lon, npos' = npos,
             \/ gpsPC' \notin Receiving
             \/ UNCHANGED <<gpsUser, gpsPos, empty>> /\ gpsPC \in Receiving
                /\ (gpsPC' \in {"lat", "test", "set_ready"} => gpsPC \in {"lat", "test", "set_ready"})
      PROVE  AgeInv' /\ SentInv'
  <2>1. \A u \in Users : ReadyPos(u)' = ReadyPos(u)
    BY <1>3 DEF ReadyPos
  <2>2. AgeInv'
    <3>1. CASE gpsPC' \notin Receiving
      BY <1>1, <1>3, <2>1, <3>1 DEF AgeInv, Receiving
    <3>2. CASE gpsPC' \in Receiving
      <4>1. gpsUser \in Users
        BY <1>3, <3>2 DEF TypeOK, GpsType, Receiving
      <4> QED
        BY <1>1, <1>3, <2>1, <3>2, <4>1 DEF AgeInv
    <3> QED
      BY <3>1, <3>2
  <2> QED
    BY <1>1, <1>2, <1>3, <2>1, <2>2, SentKept
<1>4. ASSUME NEW u \in Users, RecvInit(u) PROVE AgeInv' /\ SentInv'
  BY <1>3, <1>4 DEF RecvInit, Receiving
<1>5. ASSUME NEW u \in Users, RecvCoordinates(u) PROVE AgeInv' /\ SentInv'
  <2>1. /\ ready' = ready /\ lon' = lon /\ empty' = empty /\ npos' = npos + 1
        /\ gpsPC' \in {"idle", "pending", "addr"}
        /\ gpsPC' = "addr" => gpsUser' = u /\ gpsPos' = npos + 1
    BY <1>5 DEF RecvCoordinates
  <2>2. \A v \in Users : ReadyPos(v)' = ReadyPos(v)
    BY <2>1 DEF ReadyPos
  <2>3. /\ \A v \in Users : ready[v] # NULL => ReadyPos(v) < npos + 1 /\ ReadyPos(v) <= npos + 1
        /\ \A v, b \in Users : relayed[v][b] < npos + 1 /\ relayed[v][b] <= npos + 1
    BY PosTypes DEF AgeInv
  <2>4. AgeInv'
    BY <1>1, <2>1, <2>2, <2>3 DEF AgeInv, Receiving
  <2> QED
    BY <1>1, <1>2, <2>1, <2>2, <2>4, SentKept
<1>6. CASE WriteLon
  <2>1. /\ ready' = ready /\ npos' = npos /\ empty' = empty /\ gpsUser' = gpsUser /\ gpsPos' = gpsPos
        /\ gpsPC = "lon" /\ gpsPC' = "lat" /\ gpsUser \in Users
    BY <1>6 DEF WriteLon, GpsAt, GpsGoto, TypeOK, GpsType
  <2>2. /\ lon'[gpsUser][empty[gpsUser]] = gpsPos
        /\ \A u \in Users, s \in Slots : (u # gpsUser \/ s # empty[gpsUser]) => lon'[u][s] = lon[u][s]
    BY <1>6, <2>1 DEF WriteLon, TypeOK, SlotType
  <2>3. \A u \in Users : ready[u] # NULL => ready[u] # empty[u] /\ ready[u] \in Slots
    BY <2>1 DEF Core, SlotInv, TypeOK, SlotType
  <2>4. \A u \in Users : ready[u] # NULL => ReadyPos(u)' = ReadyPos(u)
    BY <2>1, <2>2, <2>3 DEF ReadyPos
  <2>5. gpsPos = npos
    BY <2>1 DEF AgeInv, Receiving
  <2>6. AgeInv'
    BY <1>1, <2>1, <2>2, <2>4, <2>5 DEF AgeInv, Receiving
  <2> QED
    BY <1>1, <1>2, <2>1, <2>4, <2>6, SentKept
<1>7. CASE SetReady
  <2>1. /\ npos' = npos /\ empty' = empty /\ lon' = lon /\ gpsUser' = gpsUser
        /\ gpsPC = "set_ready" /\ gpsPC' = "swap" /\ gpsUser \in Users
    BY <1>7 DEF SetReady, GpsAt, GpsGoto, TypeOK, GpsType
  <2>2. /\ ready'[gpsUser] = empty[gpsUser]
        /\ \A u \in Users : u # gpsUser => ready'[u] = ready[u]
    BY <1>7, <2>1 DEF SetReady, TypeOK, SlotType
  <2>3. ReadyPos(gpsUser)' = npos /\ \A b \in Users : relayed[gpsUser][b] < npos
    BY <2>1, <2>2 DEF AgeInv, ReadyPos, Receiving
  <2>4. \A u \in Users : u # gpsUser => ReadyPos(u)' = ReadyPos(u)
    BY <2>1, <2>2 DEF ReadyPos
  <2>5. AgeInv'
    <3>1. npos <= npos
      BY PosTypes
    <3> QED
      BY <1>1, <2>1, <2>2, <2>3, <2>4, <3>1 DEF AgeInv, Receiving
  <2>6. \A t \in BThreads : bPC[t] \in Copied => bUser[t] # gpsUser
    BY <2>1 DEF Core, ReadyInv, Copied
  <2>7. \A t \in BThreads : bPC[t] \in Copied => SentBy(t)'
    BY <1>1, <1>2, <2>4, <2>6 DEF SentInv, SentBy
  <2>8. \A u \in Users : u # gpsUser /\ Unsent(u) => Unsent(u)'
    BY <1>1, <2>4 DEF Unsent
  <2>9. Unsent(gpsUser)'
    BY <1>1, <2>1, <2>3 DEF Unsent
  <2>10. SentInv'
    BY <1>1, <2>1, <2>2, <2>7, <2>8, <2>9 DEF SentInv
  <2> QED
    BY <2>5, <2>10
<1>8. CASE CheckAddr \/ WriteLat \/ TestReady
  BY <1>3, <1>8 DEF CheckAddr, WriteLat, TestReady, GpsAt, GpsGoto, GpsDone, Receiving
<1>9. CASE SwapEmpty \/ PutId
  BY <1>3, <1>9 DEF SwapEmpty, PutId, GpsAt, GpsGoto, GpsDone, Receiving
<1>10. CASE GpsTimeout \/ InitAddrUdp \/ SendUdpInitAck \/ SendPendingCmd
  BY <1>3, <1>10 DEF GpsTimeout, InitAddrUdp, SendUdpInitAck, SendPendingCmd, GpsAt, GpsGoto, Receiving
<1>11. CASE GpsSendThrows \/ GpsUseAfterFree
  BY <1>3, <1>11 DEF GpsSendThrows, GpsUseAfterFree
<1> QED
  BY <1>4, <1>5, <1>6, <1>7, <1>8, <1>9, <1>10, <1>11 DEF Gps, GpsStep

\* A thread that has copied nothing, or nothing it may still send, moves on.
LEMMA MoveKeepsSent ==
  ASSUME NEW t \in BThreads, TypeOK, SentInv, UNCHANGED <<ready, lon, relayed>>,
         \A s \in BThreads : s # t => /\ bPC'[s] = bPC[s] /\ bUser'[s] = bUser[s] /\ copyLon'[s] = copyLon[s]
                                      /\ todo'[s] = todo[s] /\ bBuddy'[s] = bBuddy[s],
         bPC[t] \in Copied => bPC'[t] \in Copied /\ bUser'[t] = bUser[t],
         bPC'[t] \in Copied => SentBy(t)'
  PROVE  SentInv'
<1>1. \A u \in Users : ReadyPos(u)' = ReadyPos(u)
  BY DEF ReadyPos
<1>2. \A s \in BThreads : bPC'[s] \in Copied => SentBy(s)'
  <2> SUFFICES ASSUME NEW s \in BThreads, s # t, bPC'[s] \in Copied PROVE SentBy(s)'
    OBVIOUS
  <2>1. bPC[s] \in Copied /\ bUser[s] \in Users /\ SentBy(s)
    BY DEF SentInv, TypeOK, BType, Copied
  <2>2. ReadyPos(bUser[s])' = ReadyPos(bUser[s])
    BY DEF ReadyPos
  <2> QED
    BY <2>1, <2>2 DEF SentBy
<1>3. \A u \in Users : Unsent(u) => Unsent(u)'
  BY <1>1 DEF Unsent
<1>4. \A u \in Users : (\A s \in BThreads : bPC'[s] \in Copied => bUser'[s] # u) =>
                       (\A s \in BThreads : bPC[s] \in Copied => bUser[s] # u)
  OBVIOUS
<1> QED
  BY <1>2, <1>3, <1>4 DEF SentInv

\* The steps of a broadcast thread keep the order.
LEMMA BroadcastKeepsAge ==
  ASSUME NEW t \in BThreads, TypeOK, Core, AgeInv, SentInv, Broadcast(t)
  PROVE  AgeInv' /\ SentInv'
<1> USE DEF bVars, BGoto, BAt
<1>1. /\ UNCHANGED <<gpsPC, gpsUser, gpsPos, npos, empty, lon>>
      /\ ready' = ready \/ ClearReady(t)
  BY BroadcastFrame
<1>2. ASSUME UNCHANGED <<ready, relayed>> PROVE AgeInv'
  BY <1>1, <1>2 DEF AgeInv, ReadyPos
<1>3. bPC[t] \in Copied => SentBy(t) /\ bUser[t] \in Users /\ ready[bUser[t]] # NULL
  BY DEF SentInv, Copied, TypeOK, BType, Core, ReadyInv
<1>4. CASE PullId(t) \/ GetUser(t) \/ GetReady(t) \/ CopyLon(t)
  <2>1. /\ UNCHANGED <<ready, relayed>>
        /\ \A s \in BThreads : s # t => /\ bPC'[s] = bPC[s] /\ bUser'[s] = bUser[s] /\ copyLon'[s] = copyLon[s]
                                        /\ todo'[s] = todo[s] /\ bBuddy'[s] = bBuddy[s]
        /\ bPC[t] \notin Copied /\ bPC'[t] \notin Copied
    BY <1>4 DEF PullId, GetUser, GetReady, CopyLon, BDone, Copied, TypeOK, BType
  <2> QED
    BY <1>1, <1>2, <2>1, MoveKeepsSent
<1>5. CASE CopyLat(t)
  <2>1. /\ UNCHANGED <<ready, relayed, bUser, copyLon, todo, bBuddy>>
        /\ bPC[t] = "lat" /\ bPC'[t] = "buddies"
        /\ \A s \in BThreads : s # t => bPC'[s] = bPC[s]
    BY <1>5 DEF CopyLat, TypeOK, BType
  <2>2. bUser[t] \in Users /\ ready[bUser[t]] # NULL /\ copyLon[t] = ReadyPos(bUser[t])
    BY <2>1 DEF TypeOK, BType, Core, ReadyInv, CopyInv, ReadyPos
  <2>3. \A s \in BThreads : bPC[s] \in Copied => bUser[s] # bUser[t]
    BY <2>1 DEF Core, TokenInv, Copied
  <2>4. \A b \in Users : relayed[bUser[t]][b] < copyLon[t]
    BY <2>2, <2>3 DEF SentInv, Unsent
  <2>5. \A b \in Users : relayed[bUser[t]][b] <= copyLon[t]
    BY <2>2, <2>4, PosTypes
  <2>6. SentBy(t)'
    BY <1>1, <2>1, <2>2, <2>4, <2>5 DEF SentBy, ReadyPos
  <2>7. SentInv'
    BY <1>1, <2>1, <2>6, MoveKeepsSent DEF Copied
  <2> QED
    BY <1>2, <2>1, <2>7
<1>6. CASE CopyBuddies(t) \/ CopyHeldBuddies(t)
  <2>1. /\ UNCHANGED <<ready, relayed, bUser, copyLon, bBuddy>>
        /\ bPC[t] = "buddies" /\ bPC'[t] \in {"loop", "blocked", "buddies"}
        /\ \A s \in BThreads : s # t => bPC'[s] = bPC[s] /\ todo'[s] = todo[s]
        /\ todo'[t] \subseteq Users
    BY <1>6 DEF CopyBuddies, CopyHeldBuddies, TypeOK, BType, UserType
  <2>2. SentBy(t)'
    BY <1>1, <1>3, <2>1 DEF SentBy, ReadyPos, Copied
  <2>3. SentInv'
    BY <1>1, <2>1, <2>2, MoveKeepsSent DEF Copied
  <2> QED
    BY <1>2, <2>1, <2>3
<1>7. ASSUME NEW b \in Users, CountNick(t, b) PROVE AgeInv' /\ SentInv'
  <2>1. /\ UNCHANGED <<ready, relayed, bUser, copyLon>>
        /\ bPC[t] = "loop" /\ b \in todo[t] /\ todo'[t] = todo[t] \ {b}
        /\ bPC'[t] = "loop" \/ (bPC'[t] = "get_nick" /\ bBuddy'[t] = b)
        /\ \A s \in BThreads : s # t => bPC'[s] = bPC[s] /\ todo'[s] = todo[s] /\ bBuddy'[s] = bBuddy[s]
    <3>1. /\ bPC \in [BThreads -> BPCs] /\ bBuddy \in [BThreads -> Users \cup {NoUser}]
          /\ todo \in [BThreads -> SUBSET Users]
      BY DEF TypeOK, BType
    <3>2. UNCHANGED <<ready, relayed, bUser, copyLon>> /\ bPC[t] = "loop" /\ b \in todo[t]
      BY <1>7 DEF CountNick
    <3>3. todo'[t] = todo[t] \ {b} /\ \A s \in BThreads : s # t => todo'[s] = todo[s]
      BY <1>7, <3>1 DEF CountNick
    <3>4. CASE b \in nickMap
      BY <1>7, <3>1, <3>2, <3>3, <3>4 DEF CountNick
    <3>5. CASE b \notin nickMap
      BY <1>7, <3>2, <3>3, <3>5 DEF CountNick
    <3> QED
      BY <3>4, <3>5
  <2>2. SentBy(t)'
    BY <1>1, <1>3, <2>1 DEF SentBy, ReadyPos, Copied
  <2>3. SentInv'
    BY <1>1, <2>1, <2>2, MoveKeepsSent DEF Copied
  <2> QED
    BY <1>2, <2>1, <2>3
<1>8. CASE GetNick(t) \/ SkipBuddy(t)
  <2>1. /\ UNCHANGED <<ready, relayed, bUser, copyLon, todo>>
        /\ bPC[t] \in {"get_nick", "send"}
        /\ bPC'[t] = "loop" \/ (bPC'[t] \in {"get_nick", "send"} /\ bBuddy'[t] = bBuddy[t])
        /\ \A s \in BThreads : s # t => bPC'[s] = bPC[s] /\ bBuddy'[s] = bBuddy[s]
    <3>1. bPC \in [BThreads -> BPCs] /\ bBuddy \in [BThreads -> Users \cup {NoUser}]
      BY DEF TypeOK, BType
    <3>2. CASE GetNick(t)
      BY <3>1, <3>2 DEF GetNick
    <3>3. CASE SkipBuddy(t)
      BY <3>1, <3>3 DEF SkipBuddy, NextNick
    <3> QED
      BY <1>8, <3>2, <3>3
  <2>2. SentBy(t)'
    BY <1>1, <1>3, <2>1 DEF SentBy, ReadyPos, Copied
  <2>3. SentInv'
    BY <1>1, <2>1, <2>2, MoveKeepsSent DEF Copied
  <2> QED
    BY <1>2, <2>1, <2>3
<1>9. CASE SendPosition(t)
  <2>1. /\ UNCHANGED <<ready, bUser, copyLon, todo>>
        /\ bPC[t] = "send" /\ bPC'[t] = "loop"
        /\ \A s \in BThreads : s # t => bPC'[s] = bPC[s] /\ bBuddy'[s] = bBuddy[s]
    BY <1>9 DEF SendPosition, CanSend, NextNick, TypeOK, BType
  <2>2. bUser[t] \in Users /\ bBuddy[t] \in Users /\ SentBy(t) /\ ready[bUser[t]] # NULL
    BY <1>3, <2>1 DEF Copied, TypeOK, BType
  <2>3. /\ relayed'[bUser[t]][bBuddy[t]] = copyLon[t]
        /\ \A u, b \in Users : u # bUser[t] \/ b # bBuddy[t] => relayed'[u][b] = relayed[u][b]
    BY <1>9, <2>2 DEF SendPosition, TypeOK, BType
  <2>4. copyLon[t] = ReadyPos(bUser[t])
    BY <2>2 DEF SentBy
  <2>5. \A u \in Users : ReadyPos(u)' = ReadyPos(u)
    BY <1>1, <2>1 DEF ReadyPos
  <2>6. AgeInv'
    <3>1. \A u, b \in Users : relayed'[u][b] <= npos
      BY <2>2, <2>3, <2>4 DEF AgeInv
    <3>2. gpsPC \in Receiving => \A b \in Users : relayed'[gpsUser][b] < npos
      BY <2>2, <2>3, <2>4 DEF AgeInv, Receiving, TypeOK, GpsType
    <3>3. gpsPC \in Receiving => gpsUser \in Users
      BY DEF Receiving, TypeOK, GpsType
    <3> QED
      BY <1>1, <2>1, <2>5, <3>1, <3>2, <3>3 DEF AgeInv
  <2>7. SentBy(t)'
    <3>1. \A b \in Users : relayed'[bUser[t]][b] <= copyLon[t]
      <4>1. copyLon[t] <= copyLon[t]
        BY PosTypes
      <4> QED
        BY <2>2, <2>3, <4>1 DEF SentBy
    <3>2. \A b \in todo[t] : relayed'[bUser[t]][b] < copyLon[t]
      BY <2>1, <2>2, <2>3 DEF SentBy, TypeOK, BType
    <3> QED
      BY <2>1, <2>2, <2>4, <2>5, <3>1, <3>2 DEF SentBy
  <2>8. \A s \in BThreads : bPC'[s] \in Copied => SentBy(s)'
    <3> SUFFICES ASSUME NEW s \in BThreads, s # t, bPC'[s] \in Copied PROVE SentBy(s)'
      BY <2>7
    <3>1. bPC[s] \in Copied /\ bUser[s] \in Users /\ SentBy(s) /\ bUser[s] # bUser[t]
      BY <2>1 DEF SentInv, TypeOK, BType, Copied, Core, TokenInv
    <3>2. \A b \in Users : relayed'[bUser[s]][b] = relayed[bUser[s]][b]
      BY <2>3, <3>1
    <3>3. bPC[s] \in {"get_nick", "send"} => bBuddy[s] \in Users
      BY DEF TypeOK, BType
    <3>4. todo[s] \subseteq Users
      BY DEF TypeOK, BType
    <3> QED
      BY <2>1, <2>5, <3>1, <3>2, <3>3, <3>4 DEF SentBy
  <2>9. \A u \in Users : u # bUser[t] /\ Unsent(u) => Unsent(u)'
    BY <2>3, <2>5 DEF Unsent
  <2>10. SentInv'
    BY <2>1, <2>8, <2>9 DEF SentInv, Copied
  <2> QED
    BY <2>6, <2>10
<1>10. CASE ClearReady(t)
  <2>1. /\ UNCHANGED <<relayed, todo, bBuddy>>
        /\ bPC[t] = "loop" /\ bPC'[t] = "pull"
        /\ \A s \in BThreads : s # t => bPC'[s] = bPC[s] /\ bUser'[s] = bUser[s] /\ copyLon'[s] = copyLon[s]
    BY <1>10 DEF ClearReady, BDone, TypeOK, BType
  <2>2. bUser[t] \in Users
    BY <2>1 DEF TypeOK, BType
  <2>3. ready'[bUser[t]] = NULL /\ \A u \in Users : u # bUser[t] => ready'[u] = ready[u]
    BY <1>10, <2>2 DEF ClearReady, TypeOK, SlotType
  <2>4. \A u \in Users : u # bUser[t] => ReadyPos(u)' = ReadyPos(u)
    BY <1>1, <2>3 DEF ReadyPos
  <2>5. AgeInv'
    <3>1. gpsPC \in Receiving => gpsUser \in Users
      BY DEF Receiving, TypeOK, GpsType
    <3> QED
      BY <1>1, <2>1, <2>3, <2>4, <3>1 DEF AgeInv
  <2>6. \A s \in BThreads : bPC'[s] \in Copied => SentBy(s)'
    <3> SUFFICES ASSUME NEW s \in BThreads, bPC'[s] \in Copied PROVE SentBy(s)'
      OBVIOUS
    <3>1. s # t /\ bPC[s] \in Copied
      BY <2>1 DEF Copied
    <3>2. bUser[s] \in Users /\ SentBy(s) /\ bUser[s] # bUser[t]
      BY <2>1, <3>1 DEF SentInv, TypeOK, BType, Copied, Core, TokenInv
    <3>3. ReadyPos(bUser[s])' = ReadyPos(bUser[s])
      BY <2>1, <2>3, <1>1, <3>1, <3>2 DEF ReadyPos
    <3> QED
      BY <2>1, <3>1, <3>2, <3>3 DEF SentBy
  <2>7. \A u \in Users : u # bUser[t] /\ Unsent(u) => Unsent(u)'
    BY <2>1, <2>4 DEF Unsent
  <2>8. SentInv'
    <3> SUFFICES ASSUME NEW u \in Users, ready'[u] # NULL,
                        \A s \in BThreads : bPC'[s] \in Copied => bUser'[s] # u
                 PROVE  Unsent(u)'
      BY <2>6 DEF SentInv
    <3>1. u # bUser[t] /\ ready[u] # NULL
      BY <2>3
    <3>2. \A s \in BThreads : bPC[s] \in Copied => bUser[s] # u
      BY <2>1, <3>1
    <3> QED
      BY <2>7, <3>1, <3>2 DEF SentInv
  <2> QED
    BY <2>5, <2>8
<1>11. CASE SendThrows(t) \/ BroadcastUseAfterFree(t)
  <2>1. UNCHANGED <<ready, relayed, bPC, bUser, copyLon, todo, bBuddy>>
    BY <1>11 DEF SendThrows, BroadcastUseAfterFree
  <2>2. SentInv'
    BY <1>1, <2>1 DEF SentInv, SentBy, Unsent, ReadyPos
  <2> QED
    BY <1>2, <2>1, <2>2
<1> QED
  BY <1>4, <1>5, <1>6, <1>7, <1>8, <1>9, <1>10, <1>11 DEF Broadcast

\* Every step keeps the order.
LEMMA NextAge ==
  ASSUME TypeOK, Core, AgeInv, SentInv, [Next]_vars
  PROVE  AgeInv' /\ SentInv'
<1>1. ASSUME UNCHANGED <<slots, gpsAt, bPC, locals, todo, bBuddy, relayed, npos>> PROVE AgeInv' /\ SentInv'
  <2>1. AgeInv'
    BY <1>1 DEF AgeInv, ReadyPos, slots, gpsAt
  <2>2. SentInv'
    BY <1>1 DEF SentInv, SentBy, Unsent, ReadyPos, slots, locals
  <2> QED
    BY <2>1, <2>2
<1>2. CASE Command
  BY <1>1, <1>2, CommandFrame
<1>3. CASE UNCHANGED vars
  BY <1>1, <1>3 DEF vars, gpsVars, slotVars, bVars, slots, gpsAt, locals
<1> QED
  BY <1>2, <1>3, GpsKeepsAge, BroadcastKeepsAge DEF Next

\* A position sent to a buddy is newer than every one of the same user sent
\* to it before, whichever threads sent them: AgeInv and SentInv hold, and a
\* thread about to send has a copy it did not send to that buddy.
THEOREM RelayedInOrder == Spec => RelayMonotone
<1>1. Init => AgeInv /\ SentInv
  BY DEF Init, AgeInv, SentInv, SentBy, Copied, Receiving
<1>2. IInv /\ AgeInv /\ SentInv /\ [Next]_vars => AgeInv' /\ SentInv'
  BY NextAge DEF IInv, Core
<1>3. TypeOK /\ SentInv /\ [Next]_vars =>
        [\A t \in BThreads : SendPosition(t) => copyLon[t] > relayed[bUser[t]][bBuddy[t]]]_vars
  <2> SUFFICES ASSUME TypeOK, SentInv, NEW t \in BThreads, SendPosition(t)
               PROVE  copyLon[t] > relayed[bUser[t]][bBuddy[t]]
    OBVIOUS
  <2>1. bPC[t] = "send" /\ bUser[t] \in Users /\ bBuddy[t] \in Users
    BY DEF SendPosition, CanSend, BAt, TypeOK, BType
  <2>2. relayed[bUser[t]][bBuddy[t]] < copyLon[t]
    BY <2>1 DEF SentInv, SentBy, Copied
  <2> QED
    BY <2>1, <2>2, PosTypes
<1>4. Spec => [](IInv /\ AgeInv /\ SentInv)
  BY <1>1, <1>2, Invariance, PTL DEF Spec
<1> QED
  BY <1>3, <1>4, PTL DEF Spec, RelayMonotone, IInv
=============================================================================
