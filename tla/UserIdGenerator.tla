-------------------------- MODULE UserIdGenerator --------------------------
(***************************************************************************)
(* The generator of user ids (src/user/UserIdGenerator.cpp) together with  *)
(* the keys of the id map it tests.  The command thread generates an id,   *)
(* puts the user under it and, on disconnect, erases it; meanwhile the GPS *)
(* thread and the broadcast threads call get with any id a datagram        *)
(* carries.  SyncHashMap::get is map[key]: looking up an id nobody has     *)
(* leaves a key with a NULL user behind, and generate takes such an id for *)
(* a taken one.                                                            *)
(*                                                                         *)
(* unsigned int has Ids values here; every + on one is modulo Ids.         *)
(***************************************************************************)
EXTENDS Naturals

CONSTANTS Ids,     \* number of values of unsigned int (2^32)
          LongMax  \* ULONG_MAX

ASSUME IdsAssumption     == Ids \in Nat \ {0}
ASSUME LongMaxAssumption == LongMax \in Nat /\ LongMax >= Ids - 1

AllIds == 0..(Ids - 1)

VARIABLES
  current,  \* UserIdGenerator::current
  n,        \* generate's local variable n
  pc,       \* command thread: "idle", in generate ("loop"), about to put ("put")
  live,     \* ids mapped to a user
  null      \* ids mapped to NULL

vars == <<current, n, pc, live, null>>

Keys == live \cup null  \* count(id) > 0

Init == /\ current = 0 /\ n = 0
        /\ pc = "idle"
        /\ live = {} /\ null = {}

\* registerNick calls generate.
Generate == /\ pc = "idle"
            /\ n' = 0 /\ pc' = "loop"
            /\ UNCHANGED <<current, live, null>>

\* Mutation: the addition does not wrap.
PlusNoWrap(i) == i + 1

Plus1(i) == (i + 1) % Ids

\* Mutation: 0 is not tested.
TryZeroToo == /\ pc = "loop"
              /\ current' = Plus1(current)
              /\ IF current' \notin Keys
                 THEN pc' = "put" /\ n' = 0
                 ELSE n' = Plus1(n) /\ pc' = IF n' <= LongMax THEN "loop" ELSE "idle"
              /\ UNCHANGED <<live, null>>

\* Mutation: every other id is passed over.
TrySecond == /\ pc = "loop"
             /\ current' = Plus1(Plus1(current))
             /\ IF current' \notin Keys /\ current' > 0
                THEN pc' = "put" /\ n' = 0
                ELSE n' = Plus1(n) /\ pc' = IF n' <= LongMax THEN "loop" ELSE "idle"
             /\ UNCHANGED <<live, null>>

\* Mutation: every search begins at the smallest id.
TryFromFirst == /\ pc = "loop"
                /\ current' = IF n = 0 THEN 1 % Ids ELSE Plus1(current)
                /\ IF current' \notin Keys /\ current' > 0
                   THEN pc' = "put" /\ n' = 0
                   ELSE n' = Plus1(n) /\ pc' = IF n' <= LongMax THEN "loop" ELSE "idle"
                /\ UNCHANGED <<live, null>>

\* One turn of generate's loop: the id found is returned; after the last turn
\* 0 is, and registerNick gives up.
TryNext == /\ pc = "loop"
           /\ current' = Plus1(current)
           /\ IF current' \notin Keys /\ current' > 0
              THEN pc' = "put" /\ n' = 0
              ELSE n' = Plus1(n) /\ pc' = IF n' <= LongMax THEN "loop" ELSE "idle"
           /\ UNCHANGED <<live, null>>

\* id_umap->put(id, usr)
PutUser == /\ pc = "put"
           /\ live' = live \cup {current} /\ null' = null \ {current}
           /\ pc' = "idle"
           /\ UNCHANGED <<current, n>>

\* quit: id_umap->erase(id)
EraseUser(i) == /\ pc = "idle" /\ i \in live
                /\ live' = live \ {i}
                /\ UNCHANGED <<current, n, pc, null>>

\* id_umap->get(id) by another thread
Lookup(i) == /\ i \notin Keys
             /\ null' = null \cup {i}
             /\ UNCHANGED <<current, n, pc, live>>

Next == \/ Generate \/ TryNext \/ PutUser
        \/ \E i \in AllIds : EraseUser(i) \/ Lookup(i)

Spec == Init /\ [][Next]_vars

\* The command thread finishes the command it works on.
FairSpec == Spec /\ WF_vars(TryNext) /\ WF_vars(PutUser)

-----------------------------------------------------------------------------
(* Properties *)

\* Types of the variables; a key has a user or NULL, not both.
TypeOK == /\ current \in AllIds /\ n \in AllIds
          /\ pc \in {"idle", "loop", "put"}
          /\ live \subseteq AllIds /\ null \subseteq AllIds
          /\ live \cap null = {}

\* The id a new user gets is not 0, the id that stops broadcast threads and
\* means "all ids are taken", and no user on the map has it, whatever other
\* threads looked up since generate tested it.
FreshId == pc = "put" => current # 0 /\ current \notin live

\* generate finds an id if one stays free: the search reaches every id
\* although it starts where the last one ended and wraps around.
FindsFreeId == pc = "loop" ~> pc # "loop" \/ AllIds \ {0} \subseteq Keys
=============================================================================
