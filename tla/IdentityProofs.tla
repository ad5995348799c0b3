--------------------------- MODULE IdentityProofs ---------------------------
(***************************************************************************)
(* Proofs about Identity.tla, for any number of callers and ids: types,    *)
(* the permanence of a settled identity, and that overlap is the only way   *)
(* to two ids.                                                              *)
(***************************************************************************)
EXTENDS Identity, FiniteSetTheorems, TLAPS

\* Only ids that were made are in the file or about to be written to it.
Written == /\ file \in Ids => file \in made
           /\ \A c \in Callers : step[c] = "write" => mine[c] \in made

LEMMA TypeStep == TypeOK /\ Written /\ [Next]_vars => TypeOK' /\ Written'
<1> SUFFICES ASSUME TypeOK, Written, [Next]_vars PROVE TypeOK' /\ Written'
  OBVIOUS
<1> USE FileAssumption DEF TypeOK, Written, Moves
<1>1. ASSUME NEW c \in Callers, Load(c) PROVE TypeOK' /\ Written'
  BY <1>1 DEF Load
<1>2. ASSUME NEW c \in Callers, LoadFails(c) PROVE TypeOK' /\ Written'
  BY <1>2 DEF LoadFails, vars
<1>3. ASSUME NEW c \in Callers, LoadNothing(c) PROVE TypeOK' /\ Written'
  BY <1>3 DEF LoadNothing
<1>4. ASSUME NEW c \in Callers, Create(c) PROVE TypeOK' /\ Written'
  <2>1. PICK id \in Ids \ made : made' = made \cup {id} /\ mine' = [mine EXCEPT ![c] = id]
    BY <1>4 DEF Create
  <2> QED BY <1>4, <2>1 DEF Create
<1>5. ASSUME NEW c \in Callers, Write(c) PROVE TypeOK' /\ Written'
  BY <1>5 DEF Write
<1>6. ASSUME NEW c \in Callers, Crash(c) PROVE TypeOK' /\ Written'
  BY <1>6 DEF Crash
<1>7. CASE UNCHANGED vars
  BY <1>7 DEF vars
<1> QED BY <1>1, <1>2, <1>3, <1>4, <1>5, <1>6, <1>7 DEF Next

\* Every variable of Identity keeps to its type: in particular MachineID only
\* ever returns ids that some call has made.
THEOREM IdentityTypeCorrect == Spec => []TypeOK
<1>1. Init => TypeOK /\ Written
  BY FileAssumption DEF Init, TypeOK, Written
<1> QED BY <1>1, TypeStep, PTL DEF Spec

-----------------------------------------------------------------------------
\* From a settled identity no step leads away: every call finds the file.
LEMMA SettledStep ==
  ASSUME NEW id \in Ids, Settled, file = id, [Next]_vars
  PROVE  Settled' /\ file' = id
<1> USE FileAssumption DEF Settled
<1>1. ASSUME NEW c \in Callers, Load(c) PROVE Settled' /\ file' = id
  BY <1>1 DEF Load
<1>2. ASSUME NEW c \in Callers, LoadFails(c) PROVE Settled' /\ file' = id
  BY <1>2 DEF LoadFails, vars
<1>3. ASSUME NEW c \in Callers, LoadNothing(c) PROVE Settled' /\ file' = id
  BY <1>3 DEF LoadNothing
<1>4. ASSUME NEW c \in Callers, Create(c) \/ Write(c) \/ Crash(c) PROVE Settled' /\ file' = id
  BY <1>4 DEF Create, Write, Crash
<1>5. CASE UNCHANGED vars
  BY <1>5 DEF vars
<1> QED BY <1>1, <1>2, <1>3, <1>4, <1>5 DEF Next

\* A settled identity is final, whatever raced or crashed before: MachineID
\* creates one only when the file holds none.
THEOREM SettledCorrect == Spec => SettledForever
<1> SUFFICES ASSUME NEW id \in Ids
             PROVE  Spec => [](Settled /\ file = id => [](file = id))
  BY DEF SettledForever
<1> DEFINE P == Settled /\ file = id
<1>1. P /\ [Next]_vars => P'
  BY SettledStep
<1>2. P => file = id
  OBVIOUS
<1> HIDE DEF P
<1>3. [][Next]_vars => [](P => [](file = id))
  BY <1>1, <1>2, PTL
<1> QED BY <1>3, PTL DEF Spec, P

-----------------------------------------------------------------------------
\* When calls do not overlap, one caller at a time is inside MachineID, the
\* file holds no id before it creates it and is empty until it has written
\* it; and what was returned is what the file holds.
OneByOne == /\ \A c, d \in Callers : step[c] # "idle" /\ step[d] # "idle" => c = d
            /\ \A c \in Callers : step[c] = "create" => file \in {NoFile, Unnamed}
            /\ \A c \in Callers : step[c] = "write" => file = Truncated
            /\ given \subseteq {file} \cap Ids

LEMMA OneByOneStep ==
  ASSUME "overlap" \notin Habits, TypeOK, Written, OneByOne, [Next]_vars
  PROVE  OneByOne'
<1> USE FileAssumption DEF OneByOne, TypeOK, Moves
<1>1. ASSUME NEW c \in Callers, Load(c) PROVE OneByOne'
  BY <1>1 DEF Load
<1>2. ASSUME NEW c \in Callers, LoadFails(c) PROVE OneByOne'
  BY <1>2 DEF LoadFails, vars
<1>3. ASSUME NEW c \in Callers, LoadNothing(c) PROVE OneByOne'
  BY <1>3 DEF LoadNothing, Begins
<1>4. ASSUME NEW c \in Callers, Create(c) PROVE OneByOne'
  BY <1>4 DEF Create
<1>5. ASSUME NEW c \in Callers, Write(c) PROVE OneByOne'
  <2>1. mine[c] \in Ids /\ given = {}
    BY <1>5 DEF Write, Written
  <2> QED BY <1>5, <2>1 DEF Write
<1>6. ASSUME NEW c \in Callers, Crash(c) PROVE OneByOne'
  BY <1>6 DEF Crash
<1>7. CASE UNCHANGED vars
  BY <1>7 DEF vars
<1> QED BY <1>1, <1>2, <1>3, <1>4, <1>5, <1>6, <1>7 DEF Next

\* MachineID returns one id when its calls do not overlap, though callers may
\* die between any two steps: overlap is what makes two.
THEOREM SequentialSameId ==
  ASSUME "overlap" \notin Habits PROVE Spec => []SameId
<1>1. Init => TypeOK /\ Written /\ OneByOne
  BY FileAssumption DEF Init, TypeOK, Written, OneByOne
<1>2. OneByOne => SameId
  <2> SUFFICES ASSUME OneByOne PROVE SameId
    OBVIOUS
  <2>1. given \subseteq {file}
    BY DEF OneByOne
  <2>2. IsFiniteSet({file}) /\ Cardinality({file}) = 1
    BY FS_Singleton
  <2>3. Cardinality(given) <= Cardinality({file})
    BY <2>1, <2>2, FS_Subset
  <2> QED BY <2>2, <2>3 DEF SameId
<1>3. TypeOK /\ Written /\ OneByOne /\ [Next]_vars => OneByOne'
  BY OneByOneStep
<1> QED BY <1>1, <1>2, <1>3, TypeStep, PTL DEF Spec
=============================================================================
