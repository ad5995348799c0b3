----------------------------- MODULE Lifecycle -----------------------------
(***************************************************************************)
(* The processes of dialtone-watcher that share one home directory, and the *)
(* two files that tell them of each other (main.go, state.go, watcher.go):  *)
(* status.json, which names the daemon that start and stop look for, and    *)
(* the running flag and pid of summary.json, which summary shows.           *)
(*                                                                         *)
(* A process is a pid in a pid namespace; a pid is free again once its      *)
(* process has ended.  Every process of ours first runs the init of         *)
(* package watcher, which cleans up a stale status; start and stop then     *)
(* read the status and signal a pid of their own namespace in one step.     *)
(***************************************************************************)
EXTENDS Naturals, FiniteSets

CONSTANTS Spaces,     \* pid namespaces that share the home directory
          Home,       \* the one start and stop are run in
          Blind,      \* those whose processes cannot read their namespace, and
                      \* leave it out of the files they write
          Pids,       \* pids of each namespace
          NoFile,     \* the file does not exist
          Truncated,  \* status.json is open for writing, its bytes to come
          Stopped,    \* summary.json says that no watcher runs
          Habits      \* what the machine and its users may do: give the next
                      \* command in a "hurry", run start and stop in "foreign"
                      \* namespaces, end daemons by "crash", run "other"
                      \* programs under the same pids

ASSUME HabitAssumption == Habits \subseteq {"hurry", "foreign", "crash", "other"}
ASSUME SpaceAssumption == Home \in Spaces /\ Blind \subseteq Spaces
ASSUME FileAssumption  == {NoFile, Truncated, Stopped} \cap (Spaces \X Pids) = {}

VARIABLES proc,       \* what runs under each pid, "free" if nothing
          step,       \* where a process of ours is
          status,     \* content of status.json: the process it names
          summary,    \* content of summary.json: the process it says runs
          unclean     \* history: a file is what a daemon that ended or is
                      \* about to has left in it

vars  == <<proc, step, status, summary, unclean>>
files == <<status, summary, unclean>>

Ids      == Spaces \X Pids
Space(i) == i[1]

Commands == {"start", "stop", "look"}   \* look: summary, help and the like
Kinds    == Commands \cup {"free", "other", "daemon"}
Steps    == {"init", "remove", "body", "write", "boot", "serve", "closing", "leaving", "drain"}

Live(i)   == proc[i] # "free"
Are(K)    == {i \in Ids : proc[i] \in K}
Watching  == {i \in Are({"daemon"}) : step[i] # "drain"}

\* The process that the pid in status.json is, for a process in namespace s.
Named    == status \in Ids
Meant(s) == <<s, status[2]>>
InUse(s) == Named /\ Live(Meant(s))

Becomes(i, kind, at) == /\ proc' = [proc EXCEPT ![i] = kind]
                        /\ step' = [step EXCEPT ![i] = at]
Moves(i, at) == step' = [step EXCEPT ![i] = at] /\ UNCHANGED proc
Ends(i)      == Becomes(i, "free", "init")
Leaves(i)    == unclean' = (unclean \/ status = i \/ summary = i)

-----------------------------------------------------------------------------
Init == /\ proc = [i \in Ids |-> "free"]
        /\ step = [i \in Ids |-> "init"]
        /\ status = NoFile /\ summary = NoFile
        /\ unclean = FALSE

\* No command runs, and what the last one began has taken effect: the status
\* of a daemon that was stopped is gone, and its process may be on its way.
Quiet == Are(Commands) = {} /\ \A i \in Watching : step[i] = "serve"

\* The user gives a command when the last one has returned, and unless in a
\* hurry has taken effect.
Run(i, kind) == /\ ~Live(i)
                /\ Are(Commands) = {} /\ (Quiet \/ "hurry" \in Habits)
                /\ kind = "look" \/ Space(i) = Home \/ "foreign" \in Habits
                /\ Becomes(i, kind, "init")
                /\ UNCHANGED files

\* An unrelated program starts or ends.
RunOther(i) == /\ "other" \in Habits /\ ~Live(i)
               /\ Becomes(i, "other", "init") /\ UNCHANGED files
EndOther(i) == proc[i] = "other" /\ Ends(i) /\ UNCHANGED files

\* Mutant: the namespace of a pid is not looked at.
VerifiableAnywhere(id, s) == TRUE

\* shouldVerifyProcessLiveness: pids say something in their namespace only.  A
\* file without a namespace is believed everywhere, and a process that does not
\* know its own believes no other file.
Verifiable(id, s) == Space(id) \in Blind \/ (s \notin Blind /\ Space(id) = s)

\* CleanStaleStatus, first half: the status is stale when it names a process
\* that can be verified and does not run.  An unreadable one is left alone.
Stale(i) == Named /\ Verifiable(status, Space(i)) /\ ~InUse(Space(i))
CleanCheck(i) == /\ proc[i] \in Commands \cup {"daemon"} /\ step[i] = "init"
                 /\ Moves(i, IF Stale(i) THEN "remove" ELSE "body")
                 /\ UNCHANGED files

\* Second half: removeStatus, whatever the file holds by now.
CleanRemove(i) == /\ Live(i) /\ step[i] = "remove"
                  /\ Moves(i, "body")
                  /\ status' = NoFile
                  /\ UNCHANGED <<summary, unclean>>

-----------------------------------------------------------------------------
(* The commands *)

\* summary, help: what they read they only print.
Look(i) == proc[i] = "look" /\ step[i] = "body" /\ Ends(i) /\ UNCHANGED files

\* startWatcher: refuse if the pid in the status is in use.
Refuse(i) == /\ proc[i] = "start" /\ step[i] = "body"
             /\ InUse(Space(i))
             /\ Ends(i) /\ UNCHANGED files

\* Mutant: start does not look for a process that runs.
SpawnAnyway(i) == /\ proc[i] = "start" /\ step[i] = "body"
                  /\ \E j \in Ids :
                       /\ Space(j) = Space(i) /\ ~Live(j)
                       /\ proc' = [proc EXCEPT ![i] = "free", ![j] = "daemon"]
                       /\ step' = [step EXCEPT ![i] = "init", ![j] = "init"]
                  /\ UNCHANGED files

\* Otherwise StartDetached: a __run process in the same namespace.
Spawn(i) == /\ proc[i] = "start" /\ step[i] = "body"
            /\ ~InUse(Space(i))
            /\ \E j \in Ids :
                 /\ Space(j) = Space(i) /\ ~Live(j)
                 /\ proc' = [proc EXCEPT ![i] = "free", ![j] = "daemon"]
                 /\ step' = [step EXCEPT ![i] = "init", ![j] = "init"]
            /\ UNCHANGED files

\* stopWatcher with nothing to signal: no status, an unreadable one, or a pid
\* that is not in use.
StopNothing(i) == /\ proc[i] = "stop" /\ step[i] = "body"
                  /\ ~InUse(Space(i))
                  /\ Ends(i) /\ UNCHANGED files

\* stopWatcher: SIGTERM to whatever has the pid.  A daemon that serves shuts
\* down.  One without its handler (before the first poll is done, or already
\* shutting down) ends, and so does any other process.
StopSignal(i) ==
  /\ proc[i] = "stop" /\ step[i] = "body" /\ InUse(Space(i))
  /\ LET t == Meant(Space(i))
     IN  IF proc[t] = "daemon" /\ step[t] = "serve"
           THEN /\ proc' = [proc EXCEPT ![i] = "free"]
                /\ step' = [step EXCEPT ![i] = "init", ![t] = "closing"]
                /\ UNCHANGED unclean
           ELSE /\ proc' = [proc EXCEPT ![i] = "free", ![t] = "free"]
                /\ step' = [step EXCEPT ![i] = "init", ![t] = "init"]
                /\ Leaves(t)
  /\ UNCHANGED <<status, summary>>

-----------------------------------------------------------------------------
(* The daemon: RunDaemon *)

\* writeStatus: truncate, then write.
OpenStatus(i) == /\ proc[i] = "daemon" /\ step[i] = "body"
                 /\ Moves(i, "write")
                 /\ status' = Truncated
                 /\ UNCHANGED <<summary, unclean>>

\* Mutant: the status is written without the pid namespace.
WriteBarePid(i) == /\ proc[i] = "daemon" /\ step[i] = "write"
                   /\ Moves(i, "boot")
                   /\ status' = i[2]
                   /\ UNCHANGED <<summary, unclean>>

WriteStatus(i) == /\ proc[i] = "daemon" /\ step[i] = "write"
                  /\ Moves(i, "boot")
                  /\ status' = i
                  /\ UNCHANGED <<summary, unclean>>

\* The first poll persists a running summary; then signal.Notify.
Boot(i) == /\ proc[i] = "daemon" /\ step[i] = "boot"
           /\ Moves(i, "serve")
           /\ summary' = i /\ unclean' = FALSE
           /\ UNCHANGED status

\* Every later poll and the lookup worker, which is not stopped, persist a
\* running summary: while the first poll is under way, and after shutdown as
\* long as the process lives.
Persist(i) == /\ proc[i] = "daemon" /\ step[i] \in {"boot", "serve", "closing", "leaving", "drain"}
              /\ summary' = i
              /\ unclean' = (step[i] \in {"leaving", "drain"})
              /\ UNCHANGED <<proc, step, status>>

\* Mutant: shutdown writes no summary.
FinalSilent(i) == /\ proc[i] = "daemon" /\ step[i] = "closing"
                  /\ Moves(i, "leaving")
                  /\ UNCHANGED files

\* shutdown: the last summary.
FinalSummary(i) == /\ proc[i] = "daemon" /\ step[i] = "closing"
                   /\ Moves(i, "leaving")
                   /\ summary' = Stopped
                   /\ UNCHANGED <<status, unclean>>

\* Mutant: the status is not removed.
StatusKept(i) == /\ proc[i] = "daemon" /\ step[i] = "leaving"
                 /\ Moves(i, "drain")
                 /\ UNCHANGED files

\* removeStatus.  The process lives on until its test traffic has ended, which
\* takes some seconds.
RemoveStatus(i) == /\ proc[i] = "daemon" /\ step[i] = "leaving"
                   /\ Moves(i, "drain")
                   /\ status' = NoFile
                   /\ UNCHANGED <<summary, unclean>>

\* RunDaemon returns early, the status still there: the first poll failed, or
\* the last summary, or the removal.
Fail(i) == /\ "crash" \in Habits /\ proc[i] = "daemon"
           /\ step[i] \in {"boot", "closing", "leaving"}
           /\ Moves(i, "drain")
           /\ unclean' = TRUE
           /\ UNCHANGED <<status, summary>>

Return(i) == proc[i] = "daemon" /\ step[i] = "drain" /\ Ends(i) /\ UNCHANGED files

\* The daemon ends on the spot: SIGKILL or a panic.
Crash(i) == /\ "crash" \in Habits /\ proc[i] = "daemon"
            /\ Ends(i) /\ Leaves(i)
            /\ UNCHANGED <<status, summary>>

Next == \E i \in Ids :
          \/ \E kind \in Commands : Run(i, kind)
          \/ RunOther(i) \/ EndOther(i)
          \/ CleanCheck(i) \/ CleanRemove(i)
          \/ Look(i) \/ Refuse(i) \/ Spawn(i) \/ StopNothing(i) \/ StopSignal(i)
          \/ OpenStatus(i) \/ WriteStatus(i) \/ Boot(i) \/ Persist(i)
          \/ FinalSummary(i) \/ RemoveStatus(i) \/ Fail(i) \/ Return(i) \/ Crash(i)

Spec == Init /\ [][Next]_vars

-----------------------------------------------------------------------------
(* Properties *)

\* Every variable keeps to its type.
TypeOK == /\ proc \in [Ids -> Kinds]
          /\ step \in [Ids -> Steps]
          /\ status \in Ids \cup {NoFile, Truncated}
          /\ summary \in Ids \cup {NoFile, Stopped}
          /\ unclean \in BOOLEAN

\* The watcher is one background process: start never adds a second one
\* (startWatcher relies on the status that only the daemon writes).
OneDaemon == Cardinality(Watching) <= 1

\* A daemon that serves can be found: status.json names it, so that stop
\* reaches it and start refuses, whatever process of whatever namespace has
\* cleaned up a status in its init, and whatever earlier daemons left behind.
DaemonFindable == Quiet => \A i \in Watching : status = i

\* LoadSummary: what summary tells in namespace s.
Running(s) == summary \in Ids /\ (Verifiable(summary, s) => Live(<<s, summary[2]>>))

\* summary tells the truth in every namespace, whether the watcher runs, unless
\* a daemon that crashed, or the worker of one on its way out, wrote it last.
SummaryHonest == Quiet /\ ~unclean => \A s \in Spaces : Running(s) <=> Watching # {}

\* stop ends the watcher and nothing else, unless a daemon that ended without
\* its clean-up left a pid for an unrelated program to take.
StopSparesOthers ==
  [][~unclean => \A i, t \in Ids : StopSignal(i) /\ t # i /\ proc[t] = "other"
                                     => proc'[t] = "other"]_vars

\* start works when nothing runs: but for such a pid it refuses only in favour
\* of a daemon, and never of one on its way out.
RefusesForDaemon == [][\A i \in Ids : Refuse(i) /\ ~unclean => Watching # {}]_vars
=============================================================================
