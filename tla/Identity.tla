------------------------------ MODULE Identity ------------------------------
(***************************************************************************)
(* The machine identity of dialtone-watcher (state.go): every command and   *)
(* every daemon calls MachineID, which reads machine-id.json and, when the  *)
(* file does not exist or holds no id, makes one and writes it there.       *)
(* Processes share the file and nothing else.                               *)
(***************************************************************************)
EXTENDS Naturals, FiniteSets

CONSTANTS Callers,    \* processes that call MachineID, again and again
          Ids,        \* the ids uuid.NewString returns, none of them twice
          NoFile,     \* machine-id.json does not exist
          Unnamed,    \* it can be read and holds no id: an old or edited file
          Truncated,  \* it is open for writing and empty
          Habits      \* "overlap": calls may overlap; "crash": callers may die

ASSUME FileAssumption  == /\ NoFile \notin Ids /\ Unnamed \notin Ids /\ Truncated \notin Ids
                          /\ Truncated \notin {NoFile, Unnamed}
ASSUME HabitAssumption == Habits \subseteq {"overlap", "crash"}

VARIABLES step,       \* where each caller is: "idle", "create" or "write"
          mine,       \* the id each caller has made last
          file,       \* content of machine-id.json
          made,       \* history: ids made so far
          given       \* history: ids MachineID has returned

vars == <<step, mine, file, made, given>>

Init == /\ step = [c \in Callers |-> "idle"]
        /\ mine = [c \in Callers |-> NoFile]
        /\ file \in {NoFile, Unnamed}
        /\ made = {} /\ given = {}

Moves(c, at) == step' = [step EXCEPT ![c] = at]

\* A call begins; without overlap only when no other call is going on.
Begins(c) == /\ step[c] = "idle"
             /\ "overlap" \in Habits \/ \A d \in Callers : step[d] = "idle"

\* Mutant: a file that cannot be decoded is taken for an identity.
LoadAnything(c) == /\ Begins(c) /\ file \in Ids \cup {Truncated}
                   /\ given' = given \cup {file}
                   /\ UNCHANGED <<step, mine, file, made>>

\* readJSON succeeds: the id of the file is the answer.
Load(c) == /\ Begins(c) /\ file \in Ids
           /\ given' = given \cup {file}
           /\ UNCHANGED <<step, mine, file, made>>

\* The file is there and cannot be decoded: the error is the answer, and the
\* file stays as it is.
LoadFails(c) == /\ Begins(c) /\ file = Truncated
                /\ UNCHANGED vars

\* Mutant: an identity is made whether there is one or not.
LoadNothingEver(c) == /\ Begins(c)
                      /\ Moves(c, "create")
                      /\ UNCHANGED <<mine, file, made, given>>

\* The file does not exist, or holds an empty id.
LoadNothing(c) == /\ Begins(c) /\ file \in {NoFile, Unnamed}
                  /\ Moves(c, "create")
                  /\ UNCHANGED <<mine, file, made, given>>

\* newMachineIdentity, then writeJSONFile opens and truncates the file.
Create(c) == /\ step[c] = "create"
             /\ \E id \in Ids \ made :
                  /\ made' = made \cup {id}
                  /\ mine' = [mine EXCEPT ![c] = id]
             /\ file' = Truncated
             /\ Moves(c, "write")
             /\ UNCHANGED <<given>>

\* The bytes are written over whatever is there: all ids have one length.
Write(c) == /\ step[c] = "write"
            /\ file' = mine[c]
            /\ given' = given \cup {mine[c]}
            /\ Moves(c, "idle")
            /\ UNCHANGED <<mine, made>>

\* The process dies in the middle of a call.
Crash(c) == /\ "crash" \in Habits /\ step[c] # "idle"
            /\ Moves(c, "idle")
            /\ UNCHANGED <<mine, file, made, given>>

Next == \E c \in Callers : \/ Load(c) \/ LoadFails(c) \/ LoadNothing(c)
                           \/ Create(c) \/ Write(c) \/ Crash(c)

Spec == Init /\ [][Next]_vars

-----------------------------------------------------------------------------
(* Properties *)

\* Every variable keeps to its type.
TypeOK == /\ step \in [Callers -> {"idle", "create", "write"}]
          /\ mine \in [Callers -> Ids \cup {NoFile}]
          /\ file \in Ids \cup {NoFile, Unnamed, Truncated}
          /\ made \in SUBSET Ids /\ given \in SUBSET made

\* An id is settled when the file holds it and no caller is about to write.
Settled == file \in Ids /\ \A c \in Callers : step[c] = "idle"

\* A settled identity is final: once the file holds an id and no call is going
\* on, it keeps that id for good, whatever raced or crashed before.
SettledForever == \A id \in Ids : [](Settled /\ file = id => [](file = id))

\* Two calls of MachineID return the same id.
SameId == Cardinality(given) <= 1
=============================================================================
