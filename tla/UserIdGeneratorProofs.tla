----------------------- MODULE UserIdGeneratorProofs -----------------------
(***************************************************************************)
(* Proofs about module UserIdGenerator, for every width of unsigned int.   *)
(* TypeOK /\ FreshId is inductive: only the command thread puts and erases *)
(* users, so what generate tested of the live ids still holds at the put,  *)
(* and a lookup by another thread adds only a NULL.                        *)
(***************************************************************************)
EXTENDS UserIdGenerator, TLAPS

\* An unsigned int stays one after ++.
LEMMA Plus1Type == \A i \in AllIds : Plus1(i) \in AllIds
<1> SUFFICES ASSUME NEW i \in AllIds PROVE Plus1(i) \in AllIds
  OBVIOUS
<1>1. i + 1 \in Nat /\ Ids \in Nat \ {0}
  BY IdsAssumption DEF AllIds
<1>2. (i + 1) % Ids \in 0..(Ids - 1)
  BY <1>1
<1> QED
  BY <1>2 DEF Plus1, AllIds

\* The initial state satisfies both properties.
LEMMA InitFresh == Init => TypeOK /\ FreshId
  BY IdsAssumption DEF Init, TypeOK, FreshId, AllIds

\* Every step preserves both properties.
LEMMA NextFresh == TypeOK /\ FreshId /\ [Next]_vars => TypeOK' /\ FreshId'
<1> SUFFICES ASSUME TypeOK, FreshId, [Next]_vars PROVE TypeOK' /\ FreshId'
  OBVIOUS
<1> USE DEF TypeOK, FreshId
<1>1. ASSUME Generate PROVE TypeOK' /\ FreshId'
  BY <1>1, IdsAssumption DEF Generate, AllIds
<1>2. ASSUME TryNext PROVE TypeOK' /\ FreshId'
  <2>1. current' \in AllIds /\ Plus1(n) \in AllIds /\ 0 \in AllIds
    BY <1>2, Plus1Type, IdsAssumption DEF TryNext, AllIds
  <2>2. TypeOK'
    BY <1>2, <2>1 DEF TryNext
  <2>3. FreshId'
    BY <1>2, <2>1 DEF TryNext, Keys, AllIds
  <2> QED
    BY <2>2, <2>3
<1>3. ASSUME PutUser PROVE TypeOK' /\ FreshId'
  BY <1>3 DEF PutUser
<1>4. ASSUME NEW i \in AllIds, EraseUser(i) PROVE TypeOK' /\ FreshId'
  BY <1>4 DEF EraseUser
<1>5. ASSUME NEW i \in AllIds, Lookup(i) PROVE TypeOK' /\ FreshId'
  BY <1>5 DEF Lookup, Keys
<1>6. CASE UNCHANGED vars
  BY <1>6 DEF vars
<1> QED
  BY <1>1, <1>2, <1>3, <1>4, <1>5, <1>6 DEF Next

\* No variable overflows or leaves its type, and no id has both a user and a
\* NULL, for every width of unsigned int.
THEOREM TypeCorrect == Spec => []TypeOK
  BY InitFresh, NextFresh, PTL DEF Spec

\* The id a new user gets is never 0 and never the id of a user on the map,
\* for every width of unsigned int and whatever other threads look up.
THEOREM IdsAreFresh == Spec => []FreshId
  BY InitFresh, NextFresh, PTL DEF Spec
=============================================================================
