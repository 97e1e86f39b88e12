------------------------- MODULE UserRegistryProofs -------------------------
(***************************************************************************)
(* Proofs about module UserRegistry, for any number of sessions, nicks,    *)
(* ids and commands.                                                       *)
(*                                                                         *)
(* Every step of the registry is a step of the id generator or leaves the  *)
(* generator alone (StepSimulated), so what UserIdGeneratorProofs shows of *)
(* it holds here: the id about to be put is no user's.  With that the two  *)
(* maps stay each other's inverse (MapsAgree), provided the nick stays     *)
(* free while generate searches (RegInv).  The ids clients were told lie   *)
(* at or below current until it wraps around, and below it when a new user *)
(* is about to be put (ToldInv), so no new user gets one of them; if no    *)
(* list names a nick twice, nothing but true pairs is told (NoSurplus).    *)
(***************************************************************************)
EXTENDS UserRegistry, UserIdGeneratorProofs

\* During a registration its session is connected and its nick free, and the
\* session has no user unless clients may register again.
RegInv == pc # "idle" => /\ reg \in Sessions \X Nicks
                         /\ reg[1] \in conn
                         /\ nickMap[reg[2]] = NULL
                         /\ user[reg[1]] = NULL \/ Reregister

\* 0 is nobody's id.
NonZero == 0 \notin live

\* A session's user is on the map, and no other session's.
SessionInv == /\ \A s \in Sessions : user[s] # NULL => s \in conn /\ user[s] \in live
              /\ \A s, t \in Sessions : user[s] = user[t] /\ user[s] # NULL => s = t

\* Every user on the map has a session.
OwnedInv == \A i \in live : \E s \in conn : user[s] = i

\* Ids in use and ids told are not ahead of current, before it wraps around,
\* if no nick is named twice.
ToldInv == ~Repeats /\ ~wrapped =>
             /\ \A i \in live : i <= current
             /\ \A s \in Sessions : \A p \in ids[s] :
                  /\ p[1] <= current
                  /\ pc = "put" => p[1] < current

\* What was told is true of users on the map, before the ids wrap around, if no
\* nick is named twice.
TrueInv == ~Repeats /\ ~wrapped => \A s \in Sessions : \A p \in ids[s] :
                          p[1] \in live => nickOf[p[1]] = p[2]

MapInv == RegistryTypeOK /\ FreshId /\ NonZero /\ RegInv /\ MapsAgree /\ SessionInv

IInv == MapInv /\ ToldInv /\ TrueInv

-----------------------------------------------------------------------------
(* The generator *)

\* A step of the registry is a step of the generator or does not touch it.
LEMMA StepSimulated == TypeOK /\ [RegistryNext]_regVars => [Next]_vars
<1> SUFFICES ASSUME TypeOK, [RegistryNext]_regVars PROVE [Next]_vars
  OBVIOUS
<1>1. ASSUME NEW s \in Sessions, Quit(s) PROVE Next
  BY <1>1 DEF Quit, EraseUser, TypeOK, Next
<1>2. ASSUME NEW s \in Sessions, Connect(s) \/ Leave(s) PROVE UNCHANGED vars
  BY <1>2 DEF Connect, Leave, genVars
<1>3. ASSUME NEW s \in Sessions, NEW k \in Nicks, Register(s, k) PROVE Next
  BY <1>3 DEF Register, Next
<1>4. ASSUME Turn \/ LogIn PROVE Next
  BY <1>4 DEF Turn, LogIn, Next
<1>5. ASSUME NEW s \in Sessions, NEW list \in Lists, AddBuddies(s, list) \/ RemoveBuddies(s, list)
      PROVE UNCHANGED vars
  BY <1>5 DEF AddBuddies, RemoveBuddies, genVars
<1>6. ASSUME NEW i \in AllIds, OtherLookup(i) PROVE Next
  BY <1>6 DEF OtherLookup, Next
<1>7. CASE UNCHANGED regVars
  BY <1>7 DEF regVars, genVars
<1> QED
  BY <1>1, <1>2, <1>3, <1>4, <1>5, <1>6, <1>7 DEF RegistryNext

\* ++ adds one unless it wraps around to 0.
LEMMA Plus1Value == \A i \in AllIds : Plus1(i) # 0 => Plus1(i) = i + 1
<1> SUFFICES ASSUME NEW i \in AllIds, Plus1(i) # 0 PROVE Plus1(i) = i + 1
  OBVIOUS
<1>1. i \in Nat /\ Ids \in Nat \ {0} /\ i + 1 <= Ids
  BY IdsAssumption DEF AllIds
<1>2. CASE i + 1 = Ids
  BY <1>1, <1>2 DEF Plus1
<1>3. CASE i + 1 < Ids
  BY <1>1, <1>3 DEF Plus1
<1> QED
  BY <1>1, <1>2, <1>3

-----------------------------------------------------------------------------
(* The initial state *)

\* The initial state satisfies the invariant.
LEMMA InitIInv == RegistryInit => IInv
<1> SUFFICES ASSUME RegistryInit PROVE IInv
  OBVIOUS
<1>1. TypeOK /\ FreshId
  BY InitFresh DEF RegistryInit
<1>2. 0 \in AllIds
  BY IdsAssumption DEF AllIds
<1>3. RegistryTypeOK
  BY <1>1, <1>2, BoundsAssumption DEF RegistryInit, RegistryTypeOK, NULL
<1>4. NonZero /\ RegInv /\ MapsAgree /\ SessionInv /\ ToldInv /\ TrueInv
  BY DEF RegistryInit, Init, NonZero, RegInv, MapsAgree, SessionInv, ToldInv, TrueInv, NULL
<1> QED
  BY <1>1, <1>3, <1>4 DEF IInv, MapInv

-----------------------------------------------------------------------------
(* The steps, one lemma per handler *)

\* Added and Removed are sets of nicks.
LEMMA ListNicks == ASSUME NEW list \in Lists PROVE Added(list) \subseteq Nicks /\ Removed(list) \subseteq Nicks
<1>1. PICK m \in 1..MaxList : list \in [1..m -> Nicks \cup {NoNick}]
  BY DEF Lists
<1>2. m \in Nat /\ Len(list) = m
  BY <1>1, BoundsAssumption
<1>3. \A j \in 1..Len(list) : list[j] \in Nicks \cup {NoNick}
  BY <1>1, <1>2
<1> QED
  BY <1>3 DEF Added, Removed, Found

\* A list that names no nick twice leaves nothing of the package unwritten.
LEMMA NoSurplus == ASSUME ~Repeats, NEW list \in Lists PROVE Surplus(list) = {}
<1>1. PICK m \in 1..MaxList : list \in [1..m -> Nicks \cup {NoNick}]
  BY DEF Lists
<1>2. m \in Nat /\ Len(list) = m
  BY <1>1, BoundsAssumption
<1>3. \A i, j \in 1..Len(list) : list[i] = list[j] /\ list[i] # NoNick => i = j
  BY DEF Lists
<1>4. \A i, j \in 1..Len(list) : i < j => i # j
  BY <1>2
<1> QED
  BY <1>3, <1>4 DEF Surplus, Found

\* A step of the registry preserves what is proved of the generator.
LEMMA StepFresh == RegistryTypeOK /\ FreshId /\ [RegistryNext]_regVars => TypeOK' /\ FreshId'
  BY StepSimulated, NextFresh DEF RegistryTypeOK

\* Connecting adds a session without a user.
LEMMA ConnectInv == ASSUME IInv, NEW s \in Sessions, Connect(s), TypeOK', FreshId' PROVE IInv'
<1> USE DEF Connect, IInv, MapInv, genVars, vars, userVars
<1>1. RegistryTypeOK'
  BY DEF RegistryTypeOK
<1>2. NonZero' /\ RegInv' /\ MapsAgree' /\ SessionInv'
  BY DEF NonZero, RegInv, MapsAgree, SessionInv
<1>3. ToldInv' /\ TrueInv'
  BY DEF ToldInv, TrueInv
<1> QED
  BY <1>1, <1>2, <1>3

\* A registration begins with a free nick.
LEMMA RegisterInv ==
  ASSUME IInv, NEW s \in Sessions, NEW k \in Nicks, Register(s, k), TypeOK', FreshId'
  PROVE  IInv'
<1> USE DEF Register, Generate, IInv, MapInv, userVars, sessVars
<1>1. RegistryTypeOK'
  BY BoundsAssumption DEF RegistryTypeOK
<1>2. RegInv'
  BY DEF RegInv, NickFree
<1>3. NonZero' /\ MapsAgree' /\ SessionInv'
  BY DEF NonZero, MapsAgree, SessionInv
<1>4. ToldInv' /\ TrueInv'
  BY DEF ToldInv, TrueInv
<1> QED
  BY <1>1, <1>2, <1>3, <1>4

\* A turn of generate moves current ahead of everything told, or wraps around.
LEMMA TurnInv == ASSUME IInv, Turn, TypeOK', FreshId' PROVE IInv'
<1> USE DEF Turn, TryNext, IInv, MapInv, userVars, sessVars
<1>1. RegistryTypeOK'
  BY DEF RegistryTypeOK
<1>2. NonZero' /\ MapsAgree' /\ SessionInv' /\ TrueInv'
  BY DEF NonZero, MapsAgree, SessionInv, TrueInv
<1>3. RegInv'
  BY DEF RegInv
<1>4. ToldInv'
  <2> SUFFICES ASSUME ~Repeats, ~wrapped' PROVE ToldInv'
    BY DEF ToldInv
  <2>0. ~wrapped /\ current' # 0
    BY Zenon DEF RegistryTypeOK
  <2>1. current \in Nat /\ current' = current + 1
    BY <2>0, Plus1Value DEF RegistryTypeOK, TypeOK, AllIds
  <2>2. \A i \in live : i \in Nat
    BY DEF RegistryTypeOK, TypeOK, AllIds
  <2>3. \A s \in Sessions : \A p \in ids[s] : p[1] \in Nat
    BY DEF RegistryTypeOK, AllIds
  <2> QED
    BY <2>0, <2>1, <2>2, <2>3 DEF ToldInv
<1> QED
  BY <1>1, <1>2, <1>3, <1>4

\* The new user is put under an id and a nick nobody had.
LEMMA LogInInv == ASSUME IInv, LogIn, TypeOK', FreshId' PROVE IInv'
<1> USE DEF LogIn, PutUser, IInv, MapInv
<1>1. /\ reg[1] \in conn /\ reg[1] \in Sessions /\ reg[2] \in Nicks
      /\ nickMap[reg[2]] = 0
      /\ current # 0 /\ current \notin live /\ current \in AllIds
  BY DEF RegInv, FreshId, NULL, RegistryTypeOK, TypeOK
<1>2. RegistryTypeOK'
  BY <1>1 DEF RegistryTypeOK
<1>3. NonZero' /\ RegInv'
  BY <1>1 DEF NonZero, RegInv
<1>4. MapsAgree'
  <2> USE DEF MapsAgree, RegistryTypeOK, TypeOK, NULL
  <2>1. ASSUME NEW k \in Nicks, nickMap'[k] # 0 PROVE nickMap'[k] \in live' /\ nickOf'[nickMap'[k]] = k
    BY <1>1, <2>1
  <2>2. ASSUME NEW i \in live' PROVE nickOf'[i] \in Nicks /\ nickMap'[nickOf'[i]] = i
    BY <1>1, <2>2 DEF NonZero
  <2> QED
    BY <2>1, <2>2
<1>5. SessionInv'
  BY <1>1 DEF SessionInv, RegistryTypeOK, NULL
<1>6. ToldInv'
  <2>1. current \in Nat /\ \A i \in live : i \in Nat
    BY <1>1 DEF RegistryTypeOK, TypeOK, AllIds
  <2>2. \A s \in Sessions : \A p \in ids[s] : p[1] \in Nat
    BY DEF RegistryTypeOK, AllIds
  <2> QED
    BY <2>1, <2>2 DEF ToldInv
<1>7. TrueInv'
  <2> SUFFICES ASSUME ~Repeats, ~wrapped', NEW s \in Sessions, NEW p \in ids'[s], p[1] \in live'
               PROVE  nickOf'[p[1]] = p[2]
    BY DEF TrueInv
  <2>1. p[1] \in Nat /\ current \in Nat /\ p[1] < current
    BY <1>1 DEF RegistryTypeOK, AllIds, ToldInv
  <2>2. p[1] \in live /\ p[1] # current
    BY <2>1
  <2>3. nickOf'[p[1]] = nickOf[p[1]]
    BY <2>2, <1>1 DEF RegistryTypeOK, TypeOK
  <2> QED
    BY <2>2, <2>3 DEF TrueInv
<1> QED
  BY <1>2, <1>3, <1>4, <1>5, <1>6, <1>7

\* addBuddies tells ids of users that are on the map, and besides them what
\* was left in the memory of the package.
LEMMA AddBuddiesInv ==
  ASSUME IInv, NEW s \in Sessions, NEW list \in Lists, AddBuddies(s, list), TypeOK', FreshId'
  PROVE  IInv'
<1> DEFINE u      == user[s]
           online == {k \in Added(list) : nickMap[k] # NULL}
           own    == IF online = {} THEN {} ELSE {<<u, nickOf[u]>>}
           told   == {<<nickMap[k], k>> : k \in online} \cup own
           Pairs  == AllIds \X (Nicks \cup {NoNick})
<1>0. /\ UNCHANGED <<current, n, pc, live, null, nickMap, nickOf, conn, user, reg, nregs, wrapped>>
      /\ buddies' = [buddies EXCEPT ![u] = @ \cup Added(list)]
      /\ pc = "idle" /\ s \in conn /\ u # NULL /\ ncmds < MaxCmds /\ ncmds' = ncmds + 1
  BY DEF AddBuddies, genVars, vars
<1>a. PICK some \in SUBSET Surplus(list) : \E junk \in [some -> Pairs] :
        ids' = [ids EXCEPT ![s] = @ \cup {<<nickMap[k], k>> : k \in online} \cup own \cup {junk[j] : j \in some}]
  BY DEF AddBuddies
<1>b. PICK junk \in [some -> Pairs] :
        ids' = [ids EXCEPT ![s] = @ \cup {<<nickMap[k], k>> : k \in online} \cup own \cup {junk[j] : j \in some}]
  BY <1>a
<1> DEFINE rest == {junk[j] : j \in some}
<1>c. rest \subseteq Pairs /\ (~Repeats => rest = {})
  <2>1. rest \subseteq Pairs
    BY <1>b
  <2>2. ASSUME ~Repeats PROVE rest = {}
    BY <2>2, NoSurplus
  <2> QED
    BY <2>1, <2>2
<1>d. ids' = [ids EXCEPT ![s] = @ \cup (told \cup rest)]
  BY <1>b
<1>1. u \in live /\ u \in AllIds /\ nickOf[u] \in Nicks
  BY <1>0 DEF IInv, MapInv, SessionInv, MapsAgree, RegistryTypeOK
<1>2. \A k \in online : k \in Nicks /\ nickMap[k] \in live /\ nickMap[k] \in AllIds /\ nickOf[nickMap[k]] = k
  BY ListNicks DEF IInv, MapInv, MapsAgree, RegistryTypeOK
<1>3. \A p \in told : p \in Pairs /\ p[1] \in live /\ nickOf[p[1]] = p[2]
  BY <1>1, <1>2
<1> HIDE DEF u, online, own, told, rest
<1>4. RegistryTypeOK'
  <2>1. buddies' \in [AllIds -> SUBSET Nicks]
    BY <1>0, <1>1, ListNicks DEF IInv, MapInv, RegistryTypeOK
  <2>2. ids' \in [Sessions -> SUBSET Pairs]
    BY <1>c, <1>d, <1>3 DEF IInv, MapInv, RegistryTypeOK
  <2>3. ncmds' \in 0..MaxCmds
    BY <1>0, BoundsAssumption DEF IInv, MapInv, RegistryTypeOK
  <2> QED
    BY <1>0, <2>1, <2>2, <2>3 DEF IInv, MapInv, RegistryTypeOK
<1>5. NonZero' /\ RegInv' /\ MapsAgree' /\ SessionInv'
  BY <1>0 DEF IInv, MapInv, NonZero, RegInv, MapsAgree, SessionInv
<1>6. ASSUME ~Repeats, NEW t \in Sessions, NEW p \in ids'[t] PROVE p \in ids[t] \/ p \in told
  BY <1>c, <1>d, <1>6 DEF IInv, MapInv, RegistryTypeOK
<1>7. ToldInv'
  BY <1>0, <1>3, <1>6 DEF IInv, ToldInv
<1>8. TrueInv'
  BY <1>0, <1>3, <1>6 DEF IInv, TrueInv
<1> QED
  BY <1>4, <1>5, <1>7, <1>8 DEF IInv, MapInv

\* removeBuddies changes the buddies only.
LEMMA RemoveBuddiesInv ==
  ASSUME IInv, NEW s \in Sessions, NEW list \in Lists, RemoveBuddies(s, list), TypeOK', FreshId'
  PROVE  IInv'
<1> USE DEF RemoveBuddies, IInv, MapInv, genVars, vars, sessVars
<1>1. RegistryTypeOK'
  BY ListNicks, BoundsAssumption DEF RegistryTypeOK
<1>2. NonZero' /\ RegInv' /\ MapsAgree' /\ SessionInv'
  BY DEF NonZero, RegInv, MapsAgree, SessionInv
<1>3. ToldInv' /\ TrueInv'
  BY DEF ToldInv, TrueInv
<1> QED
  BY <1>1, <1>2, <1>3

\* quit takes the user off both maps.
LEMMA QuitInv == ASSUME IInv, NEW s \in Sessions, Quit(s), TypeOK', FreshId' PROVE IInv'
<1> USE DEF Quit, EraseUser, Close, IInv, MapInv
<1>1. /\ user[s] \in live /\ user[s] \in AllIds /\ user[s] # 0
      /\ nickOf[user[s]] \in Nicks /\ nickMap[nickOf[user[s]]] = user[s]
      /\ 0 \in AllIds
  BY IdsAssumption DEF RegistryTypeOK, TypeOK, NonZero, MapsAgree, AllIds
<1>2. RegistryTypeOK'
  BY <1>1 DEF RegistryTypeOK, NULL
<1>3. NonZero' /\ RegInv'
  BY DEF NonZero, RegInv
<1>4. MapsAgree'
  <2> USE DEF MapsAgree, RegistryTypeOK, TypeOK, NULL
  <2>1. ASSUME NEW k \in Nicks, nickMap'[k] # 0 PROVE nickMap'[k] \in live' /\ nickOf'[nickMap'[k]] = k
    BY <1>1, <2>1
  <2>2. ASSUME NEW i \in live' PROVE nickOf'[i] \in Nicks /\ nickMap'[nickOf'[i]] = i
    BY <1>1, <2>2
  <2> QED
    BY <2>1, <2>2
<1>5. SessionInv'
  BY <1>1 DEF SessionInv, RegistryTypeOK, NULL
<1>6. ToldInv'
  BY DEF ToldInv, RegistryTypeOK
<1>7. TrueInv'
  BY <1>1 DEF TrueInv, RegistryTypeOK, TypeOK
<1> QED
  BY <1>2, <1>3, <1>4, <1>5, <1>6, <1>7

\* A session without a user leaves nothing behind.
LEMMA LeaveInv == ASSUME IInv, NEW s \in Sessions, Leave(s), TypeOK', FreshId' PROVE IInv'
<1> USE DEF Leave, Close, IInv, MapInv, genVars, vars, userVars
<1>1. RegistryTypeOK'
  BY IdsAssumption DEF RegistryTypeOK, NULL, AllIds
<1>2. NonZero' /\ RegInv' /\ MapsAgree'
  BY DEF NonZero, RegInv, MapsAgree
<1>3. SessionInv'
  BY DEF SessionInv, RegistryTypeOK, NULL
<1>4. ToldInv' /\ TrueInv'
  BY DEF ToldInv, TrueInv, RegistryTypeOK
<1> QED
  BY <1>1, <1>2, <1>3, <1>4

\* A lookup by another thread touches nothing the registry keeps.
LEMMA LookupInv == ASSUME IInv, NEW i \in AllIds, OtherLookup(i), TypeOK', FreshId' PROVE IInv'
<1> USE DEF OtherLookup, Lookup, IInv, MapInv, userVars, sessVars
<1>1. RegistryTypeOK'
  BY DEF RegistryTypeOK
<1>2. NonZero' /\ RegInv' /\ MapsAgree' /\ SessionInv'
  BY DEF NonZero, RegInv, MapsAgree, SessionInv
<1>3. ToldInv' /\ TrueInv'
  BY DEF ToldInv, TrueInv
<1> QED
  BY <1>1, <1>2, <1>3

\* Every step preserves the invariant.
LEMMA NextIInv == IInv /\ [RegistryNext]_regVars => IInv'
<1> SUFFICES ASSUME IInv, [RegistryNext]_regVars PROVE IInv'
  OBVIOUS
<1>1. TypeOK' /\ FreshId'
  BY StepFresh DEF IInv, MapInv
<1>2. CASE UNCHANGED regVars
  <2> USE <1>2 DEF regVars, genVars, vars, userVars, sessVars, IInv, MapInv
  <2>1. RegistryTypeOK' /\ FreshId'
    BY <1>1 DEF RegistryTypeOK
  <2>2. NonZero' /\ RegInv' /\ MapsAgree' /\ SessionInv'
    BY DEF NonZero, RegInv, MapsAgree, SessionInv
  <2>3. ToldInv' /\ TrueInv'
    BY DEF ToldInv, TrueInv
  <2> QED
    BY <2>1, <2>2, <2>3
<1> QED
  BY <1>1, <1>2, ConnectInv, RegisterInv, TurnInv, LogInInv, AddBuddiesInv, RemoveBuddiesInv,
     QuitInv, LeaveInv, LookupInv DEF RegistryNext

-----------------------------------------------------------------------------
(* The theorems *)

\* The invariant holds in every state.
LEMMA Invariance == RegistrySpec => []IInv
  BY InitIInv, NextIInv, PTL DEF RegistrySpec

\* The variables of sessions, users and generator keep their types, for any
\* number of sessions, nicks and ids.
THEOREM RegistryTypeCorrect == RegistrySpec => []RegistryTypeOK
<1>1. IInv => RegistryTypeOK
  BY DEF IInv, MapInv
<1> QED
  BY <1>1, Invariance, PTL

\* registerNick and quit keep the id map and the nick map in agreement,
\* whatever other threads look up and whether or not a client registers again.
THEOREM MapsAlwaysAgree == RegistrySpec => []MapsAgree
<1>1. IInv => MapsAgree
  BY DEF IInv, MapInv
<1> QED
  BY <1>1, Invariance, PTL

\* If no client names a nick twice in a list of buddies, an id a client was
\* told by addBuddies is that nick's or nobody's until generate has gone
\* through all ids.
THEOREM ToldIdsStayTrue == ~Repeats => (RegistrySpec => []IdsStayTrue)
<1> SUFFICES ASSUME ~Repeats PROVE RegistrySpec => []IdsStayTrue
  OBVIOUS
<1>1. IInv => IdsStayTrue
  BY DEF IInv, MapInv, TrueInv, IdsStayTrue, RegistryTypeOK
<1> QED
  BY <1>1, Invariance, PTL

\* The id a new user gets is never 0 and never another user's, in the registry
\* too: registerNick, addBuddies, quit and other threads' lookups included.
THEOREM RegistryIdsFresh == RegistrySpec => []FreshId
<1>1. IInv => FreshId
  BY DEF IInv, MapInv
<1> QED
  BY <1>1, Invariance, PTL

\* If clients register once per connection, every user keeps its session.
LEMMA OwnedStep == ~Reregister /\ IInv /\ OwnedInv /\ [RegistryNext]_regVars => OwnedInv'
<1> SUFFICES ASSUME ~Reregister, IInv, OwnedInv, [RegistryNext]_regVars PROVE OwnedInv'
  OBVIOUS
<1> USE DEF OwnedInv, IInv, MapInv, RegistryTypeOK, NULL
<1>1. ASSUME NEW s \in Sessions, Connect(s) PROVE OwnedInv'
  BY <1>1 DEF Connect, genVars, vars
<1>2. ASSUME NEW s \in Sessions, Quit(s) PROVE OwnedInv'
  BY <1>2 DEF Quit, EraseUser, Close
<1>3. ASSUME NEW s \in Sessions, Leave(s) PROVE OwnedInv'
  BY <1>3 DEF Leave, Close, genVars, vars, NonZero
<1>4. ASSUME NEW s \in Sessions, NEW k \in Nicks, Register(s, k) PROVE OwnedInv'
  BY <1>4 DEF Register, Generate, sessVars
<1>5. ASSUME Turn PROVE OwnedInv'
  BY <1>5 DEF Turn, TryNext, sessVars
<1>6. ASSUME LogIn PROVE OwnedInv'
  <2>1. reg[1] \in conn /\ reg[1] \in Sessions /\ user[reg[1]] = 0
    BY <1>6 DEF LogIn, PutUser, RegInv
  <2> QED
    BY <1>6, <2>1 DEF LogIn, PutUser, NonZero
<1>7. ASSUME NEW s \in Sessions, NEW list \in Lists, AddBuddies(s, list) \/ RemoveBuddies(s, list)
      PROVE OwnedInv'
  BY <1>7 DEF AddBuddies, RemoveBuddies, genVars, vars, sessVars
<1>8. ASSUME NEW i \in AllIds, OtherLookup(i) PROVE OwnedInv'
  BY <1>8 DEF OtherLookup, Lookup, sessVars
<1>9. CASE UNCHANGED regVars
  BY <1>9 DEF regVars, genVars, vars, sessVars
<1> QED
  BY <1>1, <1>2, <1>3, <1>4, <1>5, <1>6, <1>7, <1>8, <1>9 DEF RegistryNext

\* If clients register once per connection, as the Python client does, every
\* user on the maps belongs to exactly one connected session, so that its
\* disconnect takes it off again.
THEOREM UsersAlwaysHaveSessions == ~Reregister => (RegistrySpec => []UsersHaveSessions)
<1> SUFFICES ASSUME ~Reregister PROVE RegistrySpec => []UsersHaveSessions
  OBVIOUS
<1>1. RegistryInit => OwnedInv
  BY DEF RegistryInit, Init, OwnedInv
<1>2. IInv /\ OwnedInv /\ [RegistryNext]_regVars => OwnedInv'
  BY OwnedStep
<1>3. IInv /\ OwnedInv => UsersHaveSessions
  BY DEF IInv, MapInv, SessionInv, OwnedInv, UsersHaveSessions
<1> QED
  BY <1>1, <1>2, <1>3, Invariance, PTL DEF RegistrySpec
=============================================================================
