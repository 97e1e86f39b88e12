---------------------------- MODULE UserRegistry ----------------------------
(***************************************************************************)
(* Sessions, users and buddies as the command thread keeps them: the       *)
(* handlers of src/server/CommandHandler.cpp and closeConnection of        *)
(* src/server/CommandServer.cpp, composed with the id generator: this      *)
(* module adds the sessions, the nick map and the users to the generator's *)
(* variables, and each of its steps is one of the generator's or leaves    *)
(* those alone.                                                            *)
(*                                                                         *)
(* A user is its id; what its User object holds is kept per id.  ids[s]    *)
(* collects what the packages of type BUDDIES_IDS tell the client of       *)
(* session s: by that list it knows whose positions it gets, for they come *)
(* with an id only.                                                        *)
(*                                                                         *)
(* The command thread alone changes all this, but for the NULL users that  *)
(* lookups by other threads leave on the id map (Lookup of                 *)
(* UserIdGenerator).  A broadcast thread looks up nicks too, after it has  *)
(* found them with count.  If the buddy quits in between, its get inserts  *)
(* a NULL user under the nick and the thread then dereferences it          *)
(* (null_deref of CoordsPipeline): the process ends, so the nick map is    *)
(* not seen with such an entry here.                                       *)
(***************************************************************************)
EXTENDS UserIdGenerator, Sequences, FiniteSets

CONSTANTS Sessions,    \* connections; one that was closed may be opened again
          Nicks,
          NoNick,      \* "no nick", and an empty field of a list of buddies
          Reregister,  \* may a client register again on its connection?
          Repeats,     \* may a client name a nick twice in a list?
          MaxList,     \* bound: length of a list of buddies
          MaxRegs,     \* bound: number of registrations
          MaxCmds      \* bound: number of buddy commands

ASSUME NicksAssumption  == NoNick \notin Nicks /\ Reregister \in BOOLEAN /\ Repeats \in BOOLEAN
ASSUME BoundsAssumption == MaxList \in Nat /\ MaxRegs \in Nat /\ MaxCmds \in Nat

NULL == 0  \* the id of no user

VARIABLES
  conn,     \* the sessions that are connected
  user,     \* user[s]: Session::user
  nickMap,  \* nickMap[k]: the user NickUserMap has under nick k, or NULL
  nickOf,   \* nickOf[i]: User::nick of user i
  buddies,  \* buddies[i]: User::buddies of user i
  ids,      \* ids[s]: pairs of id and nick sent to the client of s
  reg,      \* the registration under way: session and nick
  nregs, ncmds,  \* how many inputs of each bounded kind there were
  wrapped   \* history: current has passed the largest id and begun again at 0

genVars  == vars
userVars == <<nickMap, nickOf, buddies>>
sessVars == <<conn, user, ids>>
regVars  == <<genVars, userVars, sessVars, reg, nregs, ncmds, wrapped>>

RegistryInit == /\ Init
                /\ conn = {} /\ user = [s \in Sessions |-> NULL]
                /\ nickMap = [k \in Nicks |-> NULL]
                /\ nickOf = [i \in AllIds |-> NoNick]
                /\ buddies = [i \in AllIds |-> {}]
                /\ ids = [s \in Sessions |-> {}]
                /\ reg = <<>>
                /\ nregs = 0 /\ ncmds = 0
                /\ wrapped = FALSE

-----------------------------------------------------------------------------
(* registerNick *)

\* incomingConnection: new Session(), with no user.
Connect(s) == /\ pc = "idle" /\ s \notin conn
              /\ conn' = conn \cup {s}
              /\ UNCHANGED <<genVars, userVars, user, ids, reg, nregs, ncmds, wrapped>>

\* nick_umap->count(nick) == 0
NickFree(k) == nickMap[k] = NULL

\* A free nick: an id is generated.  (A taken one is refused and changes
\* nothing.)
Register(s, k) == /\ s \in conn /\ NickFree(k)
                  /\ user[s] = NULL \/ Reregister
                  /\ nregs < MaxRegs
                  /\ Generate
                  /\ reg' = <<s, k>> /\ nregs' = nregs + 1
                  /\ UNCHANGED <<userVars, sessVars, ncmds, wrapped>>

\* A turn of generate.
Turn == /\ TryNext
        /\ wrapped' = (wrapped \/ current' = 0)
        /\ UNCHANGED <<userVars, sessVars, reg, nregs, ncmds>>

\* Mutation: the session is not told its user.
LogInWithoutSession ==
    /\ PutUser
    /\ LET k == reg[2]
       IN  /\ nickMap' = [nickMap EXCEPT ![k] = current]
           /\ nickOf' = [nickOf EXCEPT ![current] = k]
           /\ buddies' = [buddies EXCEPT ![current] = {}]
    /\ reg' = <<>>
    /\ UNCHANGED <<sessVars, nregs, ncmds, wrapped>>

\* The new user is put into both maps and becomes the session's, in the place
\* of one the session had before.
LogIn == /\ PutUser
         /\ LET s == reg[1]
                k == reg[2]
            IN  /\ nickMap' = [nickMap EXCEPT ![k] = current]
                /\ nickOf' = [nickOf EXCEPT ![current] = k]
                /\ buddies' = [buddies EXCEPT ![current] = {}]
                /\ user' = [user EXCEPT ![s] = current]
         /\ reg' = <<>>
         /\ UNCHANGED <<conn, ids, nregs, ncmds, wrapped>>

-----------------------------------------------------------------------------
(* addBuddies, removeBuddies: lists of nicks, fields between commas *)

Lists == {list \in UNION {[1..m -> Nicks \cup {NoNick}] : m \in 1..MaxList} :
            Repeats \/ \A i, j \in 1..Len(list) : list[i] = list[j] /\ list[i] # NoNick => i = j}

\* An odd number of empty fields comes right before field j.
Glued(list, j) ==
    \E r \in 1..(j - 1) :
        /\ r % 2 = 1
        /\ \A i \in (j - r)..(j - 1) : list[i] = NoNick
        /\ j - r = 1 \/ list[j - r - 1] # NoNick

\* The fields in which addBuddies finds nicks.  At an empty field it does not
\* move the start of the next one, which is then taken for a name with a comma
\* in front, a nick of nobody; an empty one for a nick that is a comma.
Found(list) == {j \in 1..Len(list) : ~Glued(list, j) /\ list[j] # NoNick}

Added(list) == {list[j] : j \in Found(list)}

\* The fields with a nick that is logged in and was found before: ids_pkg_len
\* counts the nick again, ids_map does not.
Surplus(list) == {j \in Found(list) : /\ nickMap[list[j]] # NULL
                                      /\ \E i \in Found(list) : i < j /\ list[i] = list[j]}

\* The nicks removeBuddies finds: every field.
Removed(list) == {list[j] : j \in 1..Len(list)} \ {NoNick}

\* The buddies are inserted.  For those that are logged in, their ids are sent
\* back, and the user's own id is sent too, on the user's own session.  For
\* each surplus field the package ends in as many bytes as malloc left there,
\* which the client may decode as one more id, with any nick or a name that is
\* nobody's.
AddBuddies(s, list) ==
    /\ pc = "idle" /\ s \in conn /\ user[s] # NULL /\ ncmds < MaxCmds
    /\ LET u      == user[s]
           online == {k \in Added(list) : nickMap[k] # NULL}
           own    == IF online = {} THEN {} ELSE {<<u, nickOf[u]>>}
       IN  /\ buddies' = [buddies EXCEPT ![u] = @ \cup Added(list)]
           /\ \E some \in SUBSET Surplus(list) :
                \E junk \in [some -> AllIds \X (Nicks \cup {NoNick})] :
                  ids' = [ids EXCEPT ![s] = @ \cup {<<nickMap[k], k>> : k \in online} \cup own
                                              \cup {junk[j] : j \in some}]
    /\ ncmds' = ncmds + 1
    /\ UNCHANGED <<genVars, nickMap, nickOf, conn, user, reg, nregs, wrapped>>

RemoveBuddies(s, list) ==
    /\ pc = "idle" /\ s \in conn /\ user[s] # NULL /\ ncmds < MaxCmds
    /\ buddies' = [buddies EXCEPT ![user[s]] = @ \ Removed(list)]
    /\ ncmds' = ncmds + 1
    /\ UNCHANGED <<genVars, nickMap, nickOf, sessVars, reg, nregs, wrapped>>

-----------------------------------------------------------------------------
(* closeConnection *)

Close(s) == /\ conn' = conn \ {s}
            /\ user' = [user EXCEPT ![s] = NULL]
            /\ ids' = [ids EXCEPT ![s] = {}]
            /\ UNCHANGED <<reg, nregs, ncmds, wrapped>>

\* Mutation: quit leaves the nick map alone.
QuitIdOnly(s) == /\ s \in conn
                 /\ EraseUser(user[s])
                 /\ nickOf' = [nickOf EXCEPT ![user[s]] = NoNick]
                 /\ buddies' = [buddies EXCEPT ![user[s]] = {}]
                 /\ UNCHANGED nickMap
                 /\ Close(s)

\* The session has a user: quit erases it from both maps and deletes it.
Quit(s) == /\ s \in conn
           /\ EraseUser(user[s])
           /\ nickMap' = [nickMap EXCEPT ![nickOf[user[s]]] = NULL]
           /\ nickOf' = [nickOf EXCEPT ![user[s]] = NoNick]
           /\ buddies' = [buddies EXCEPT ![user[s]] = {}]
           /\ Close(s)

\* It has none.
Leave(s) == /\ pc = "idle" /\ s \in conn /\ user[s] = NULL
            /\ Close(s)
            /\ UNCHANGED <<genVars, userVars>>

\* umap->get(id) by the GPS thread or a broadcast thread.
OtherLookup(i) == /\ Lookup(i)
                  /\ UNCHANGED <<userVars, sessVars, reg, nregs, ncmds, wrapped>>

-----------------------------------------------------------------------------
RegistryNext == \/ \E s \in Sessions : Connect(s) \/ Quit(s) \/ Leave(s)
                \/ \E s \in Sessions, k \in Nicks : Register(s, k)
                \/ Turn \/ LogIn
                \/ \E s \in Sessions, list \in Lists : AddBuddies(s, list) \/ RemoveBuddies(s, list)
                \/ \E i \in AllIds : OtherLookup(i)

RegistrySpec == RegistryInit /\ [][RegistryNext]_regVars

\* The command thread finishes the command it works on.
RegistryFairSpec == RegistrySpec /\ WF_regVars(Turn) /\ WF_regVars(LogIn)

-----------------------------------------------------------------------------
(* Properties *)

\* Types of the sessions and users, and of the generator's variables.
RegistryTypeOK == /\ TypeOK
                  /\ conn \subseteq Sessions
                  /\ user \in [Sessions -> AllIds]
                  /\ nickMap \in [Nicks -> AllIds]
                  /\ nickOf \in [AllIds -> Nicks \cup {NoNick}]
                  /\ buddies \in [AllIds -> SUBSET Nicks]
                  /\ ids \in [Sessions -> SUBSET (AllIds \X (Nicks \cup {NoNick}))]
                  /\ reg \in {<<>>} \cup (Sessions \X Nicks)
                  /\ nregs \in 0..MaxRegs /\ ncmds \in 0..MaxCmds
                  /\ wrapped \in BOOLEAN

\* The id map and the nick map hold the same users, each under its own nick,
\* between any two commands and during generate: a position is relayed by
\* looking up the sender in one and the receivers in the other.
MapsAgree == /\ \A k \in Nicks : nickMap[k] # NULL => nickMap[k] \in live /\ nickOf[nickMap[k]] = k
             /\ \A i \in live : nickOf[i] \in Nicks /\ nickMap[nickOf[i]] = i

\* Every user on the maps is the user of exactly one connected session, whose
\* disconnect will erase it; a session's user is on the maps.  It holds for
\* clients that register once per connection, as the Python client does.
UsersHaveSessions ==
    /\ \A i \in live : \E s \in conn : user[s] = i
    /\ \A s \in Sessions : user[s] # NULL => s \in conn /\ user[s] \in live
    /\ \A s, t \in Sessions : user[s] = user[t] /\ user[s] # NULL => s = t

\* What a client was told about an id is not made false by later logins: an
\* id it knows by a nick is that nick's or nobody's, until the ids wrap
\* around.  Otherwise it would show one user's positions under the name of
\* another.  It holds for clients that name no nick twice in a list.
IdsStayTrue == ~wrapped => \A s \in conn : \A p \in ids[s] : p[1] \in live => nickOf[p[1]] = p[2]

-----------------------------------------------------------------------------
(* What comments say and the code does not keep *)

\* "send user's id to buddy" (addBuddies): two users that are logged in and
\* have each other as buddies know each other's ids.  But the user's id is
\* sent to the user itself, so who added the other first, while it was not
\* logged in, never learns its id.
BuddiesKnowIds ==
    \A s, t \in conn :
        LET u == user[s]
            v == user[t]
        IN  /\ u # NULL /\ v # NULL
            /\ nickOf[v] \in buddies[u] /\ nickOf[u] \in buddies[v]
            => <<v, nickOf[v]>> \in ids[s]

\* "send back buddies ids" (addBuddies): what a client is newly told is the id
\* of a user that is logged in, with its nick.  But for a nick named twice the
\* package is longer than what is written to it.
BuddiesIdsSent ==
    [][\A s \in Sessions : \A p \in ids'[s] \ ids[s] :
           p[2] \in Nicks /\ nickMap[p[2]] = p[1]]_regVars
=============================================================================
