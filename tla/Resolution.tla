----------------------------- MODULE Resolution -----------------------------
(***************************************************************************)
(* What the reverse-lookup cache of the watcher promises, without saying   *)
(* how: every host is either unknown, asked for, or named.  A host that    *)
(* is asked for gets a name or becomes unknown again; a named host keeps   *)
(* its name for the life of the daemon and is never asked for again.       *)
(* Service.tla implements this with a bounded channel, a pending set and   *)
(* a worker goroutine (resolver.go, watcher.go).                           *)
(***************************************************************************)
CONSTANTS Hosts,      \* the remote endpoints
          Names,      \* host names a lookup may produce
          NoName      \* "no name known", the empty string of the code

VARIABLES asked,      \* hosts with a lookup outstanding
          name        \* name[h]: the name of h, or NoName

vars == <<asked, name>>

TypeOK == /\ asked \in SUBSET Hosts
          /\ name \in [Hosts -> Names \cup {NoName}]

Init == /\ asked = {}
        /\ name = [h \in Hosts |-> NoName]

Ask(h) == /\ h \notin asked
          /\ name[h] = NoName
          /\ asked' = asked \cup {h}
          /\ UNCHANGED name

Answer(h) == /\ h \in asked
             /\ asked' = asked \ {h}
             /\ \E n \in Names \cup {NoName} : name' = [name EXCEPT ![h] = n]

Next == \E h \in Hosts : Ask(h) \/ Answer(h)

Spec == Init /\ [][Next]_vars
=============================================================================
