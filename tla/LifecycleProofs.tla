-------------------------- MODULE LifecycleProofs --------------------------
(***************************************************************************)
(* Proofs about Lifecycle.tla, for any namespaces and pids: when commands   *)
(* are given one after the other and start and stop in one namespace, there *)
(* is one daemon, status.json leads to it and to nothing else, and the      *)
(* summary tells the truth, through crashes and reused pids.                *)
(***************************************************************************)
EXTENDS Lifecycle, FiniteSetTheorems, TLAPS

Orderly == "hurry" \notin Habits /\ "foreign" \notin Habits

\* The files of the daemon name their namespace, or there is but one.
Known == Home \notin Blind \/ Spaces = {Home}

Watches(i) == proc[i] = "daemon" /\ step[i] # "drain"
Serves(i)  == step[i] \in {"boot", "serve", "closing", "leaving"}

\* Who runs: one command at a time, one daemon that is not on its way out, and
\* while a command runs the daemon serves and no clean-up is about to remove
\* its status.
Order == /\ \A i, j \in Ids : proc[i] \in Commands /\ proc[j] \in Commands => i = j
         /\ \A i, j \in Ids : Watches(i) /\ Watches(j) => i = j
         /\ \A i, j \in Ids : proc[i] \in Commands /\ proc[j] = "daemon" =>
                                step[j] = "drain" \/ (step[j] = "serve" /\ step[i] # "remove")
         /\ \A i \in Ids : proc[i] \in {"free", "other"} => step[i] = "init"

\* Where: start, stop and daemons in the home namespace, and so is the status.
AtHome == /\ \A i \in Ids : proc[i] \in {"start", "stop", "daemon"} => i[1] = Home
          /\ status \in Ids => status[1] = Home

\* What the files say: the status names the daemon once it has written it, and
\* they name nothing else unless a daemon that ended, or is about to, has left
\* them so.
Truth == /\ \A i \in Ids : proc[i] = "daemon" /\ Serves(i) => status = i
         /\ \A i \in Ids : proc[i] = "daemon" /\ step[i] = "serve" => summary = i \/ unclean
         /\ ~unclean /\ status \in Ids => proc[status] = "daemon" /\ step[status] # "drain"
         /\ ~unclean /\ summary \in Ids =>
              proc[summary] = "daemon" /\ step[summary] \notin {"leaving", "drain"}

LifecycleInv == TypeOK /\ Order /\ AtHome /\ Truth

\* The pid of a status of the home namespace, taken there, is its process.
LEMMA HomeMeant == ASSUME AtHome, status \in Ids PROVE Meant(Home) = status
  BY DEF AtHome, Meant, Ids

LEMMA NoFileNames == NoFile \notin Ids /\ Truncated \notin Ids /\ Stopped \notin Ids
  BY FileAssumption DEF Ids

\* A status that names a daemon is not stale, for no process.
LEMMA NotStale ==
  ASSUME Known, LifecycleInv, NEW i \in Ids, NEW j \in Ids, proc[j] = "daemon", status = j
  PROVE  ~Stale(i)
<1>1. Meant(Home) = j
  BY HomeMeant DEF LifecycleInv
<1>2. j[1] = Home
  BY DEF LifecycleInv, AtHome
<1>3. Verifiable(status, i[1]) => i[1] = Home
  BY <1>2 DEF Known, Verifiable, Space, Ids
<1> QED BY <1>1, <1>3 DEF Stale, Space, InUse, Live

LEMMA InitInv == Init => LifecycleInv
  BY NoFileNames DEF Init, LifecycleInv, TypeOK, Order, Watches, AtHome, Truth, Kinds, Steps, Commands

-----------------------------------------------------------------------------
(* One lemma for each group of actions *)

LEMMA RunStep ==
  ASSUME Orderly, LifecycleInv, NEW i \in Ids, NEW kind \in Commands, Run(i, kind)
  PROVE  LifecycleInv'
<1> USE DEF Commands, Are, Live, Becomes, files
<1>1. /\ proc[i] = "free" /\ Quiet
      /\ kind = "look" \/ i[1] = Home
      /\ proc' = [proc EXCEPT ![i] = kind] /\ step' = [step EXCEPT ![i] = "init"]
      /\ UNCHANGED <<status, summary, unclean>>
  BY DEF Orderly, Run, Space
<1>2. /\ \A j \in Ids : proc[j] \notin Commands
      /\ \A j \in Ids : proc[j] = "daemon" => step[j] \in {"serve", "drain"}
  BY <1>1 DEF Quiet, Watching
<1>3. TypeOK'
  BY <1>1 DEF LifecycleInv, TypeOK, Kinds, Steps
<1>4. Order'
  BY <1>1, <1>2 DEF LifecycleInv, TypeOK, Order, Watches
<1>5. AtHome'
  BY <1>1 DEF LifecycleInv, TypeOK, AtHome
<1>6. Truth'
  BY <1>1 DEF LifecycleInv, TypeOK, Truth, Serves
<1> QED BY <1>3, <1>4, <1>5, <1>6 DEF LifecycleInv

LEMMA OtherStep ==
  ASSUME LifecycleInv, NEW i \in Ids, RunOther(i) \/ EndOther(i) PROVE LifecycleInv'
<1> USE DEF RunOther, EndOther, Ends, Becomes, Live, files, Commands
<1>1. TypeOK'
  BY DEF LifecycleInv, TypeOK, Kinds, Steps
<1>2. Order'
  BY DEF LifecycleInv, TypeOK, Order, Watches
<1>3. AtHome'
  BY DEF LifecycleInv, TypeOK, AtHome
<1>4. Truth'
  BY DEF LifecycleInv, TypeOK, Truth, Serves
<1> QED BY <1>1, <1>2, <1>3, <1>4 DEF LifecycleInv

LEMMA CleanStep ==
  ASSUME Known, LifecycleInv, NEW i \in Ids, CleanCheck(i) \/ CleanRemove(i) PROVE LifecycleInv'
<1> USE DEF Commands, Moves, files, Live
<1>1. CASE CleanCheck(i)
  <2>1. step[i] = "init" /\ UNCHANGED <<proc, status, summary, unclean>>
        /\ proc[i] \in Commands \cup {"daemon"}
    BY <1>1 DEF CleanCheck
  <2>2. step' = [step EXCEPT ![i] = IF Stale(i) THEN "remove" ELSE "body"]
    BY <1>1 DEF CleanCheck
  <2>3. \A j \in Ids : proc[i] \in Commands /\ Watches(j) => ~Stale(i)
    BY NotStale DEF LifecycleInv, Order, Watches, Truth, Serves
  <2>4. TypeOK'
    BY <2>1, <2>2 DEF LifecycleInv, TypeOK, Steps
  <2>5. Order'
    BY <2>1, <2>2, <2>3 DEF LifecycleInv, TypeOK, Order, Watches
  <2>6. AtHome'
    BY <2>1 DEF LifecycleInv, AtHome
  <2>7. Truth'
    BY <2>1, <2>2 DEF LifecycleInv, TypeOK, Truth, Serves
  <2> QED BY <2>4, <2>5, <2>6, <2>7 DEF LifecycleInv
<1>2. CASE CleanRemove(i)
  <2>1. /\ step[i] = "remove" /\ proc[i] # "free" /\ step' = [step EXCEPT ![i] = "body"]
        /\ status' = NoFile /\ UNCHANGED <<proc, summary, unclean>>
    BY <1>2 DEF CleanRemove
  <2>2. proc[i] \in Commands \cup {"daemon"}
    BY <2>1 DEF LifecycleInv, TypeOK, Kinds, Order, Watches
  <2>3. \A j \in Ids : proc[j] = "daemon" => ~Serves(j)
    BY <2>1, <2>2 DEF LifecycleInv, Order, Watches, Serves
  <2>4. TypeOK'
    BY <2>1 DEF LifecycleInv, TypeOK, Steps
  <2>5. Order'
    BY <2>1, <2>2 DEF LifecycleInv, TypeOK, Order, Watches
  <2>6. AtHome'
    BY <2>1, NoFileNames DEF LifecycleInv, AtHome
  <2>7. Truth'
    BY <2>1, <2>2, <2>3, NoFileNames DEF LifecycleInv, TypeOK, Truth, Serves
  <2> QED BY <2>4, <2>5, <2>6, <2>7 DEF LifecycleInv
<1> QED BY <1>1, <1>2

\* A command that ends and leaves everything else as it is.
LEMMA LeaveStep ==
  ASSUME LifecycleInv, NEW i \in Ids, Look(i) \/ Refuse(i) \/ StopNothing(i)
  PROVE  LifecycleInv'
<1> USE DEF Commands, files
<1>1. /\ proc[i] \in Commands
      /\ proc' = [proc EXCEPT ![i] = "free"] /\ step' = [step EXCEPT ![i] = "init"]
      /\ UNCHANGED <<status, summary, unclean>>
  BY DEF Look, Refuse, StopNothing, Ends, Becomes
<1>2. TypeOK'
  BY <1>1 DEF LifecycleInv, TypeOK, Kinds, Steps
<1>3. Order'
  BY <1>1 DEF LifecycleInv, TypeOK, Order, Watches
<1>4. AtHome'
  BY <1>1 DEF LifecycleInv, TypeOK, AtHome
<1>5. Truth'
  BY <1>1 DEF LifecycleInv, TypeOK, Truth, Serves
<1> QED BY <1>2, <1>3, <1>4, <1>5 DEF LifecycleInv

\* start does not find a process under the pid of the status: no daemon runs but
\* those on their way out.
LEMMA SpawnStep ==
  ASSUME LifecycleInv, NEW i \in Ids, Spawn(i) PROVE LifecycleInv'
<1> USE DEF Commands, files
<1>1. proc[i] = "start" /\ i[1] = Home /\ ~InUse(Home) /\ UNCHANGED <<status, summary, unclean>>
  BY DEF Spawn, LifecycleInv, AtHome, Space
<1>2. \A j \in Ids : proc[j] = "daemon" => step[j] = "drain"
  <2> SUFFICES ASSUME NEW j \in Ids, proc[j] = "daemon", step[j] # "drain" PROVE FALSE
    OBVIOUS
  <2>1. status = j
    BY <1>1 DEF LifecycleInv, Order, Watches, Truth, Serves
  <2>2. Meant(Home) = j
    BY <2>1, HomeMeant DEF LifecycleInv
  <2> QED BY <1>1, <2>1, <2>2 DEF InUse, Live, Named
<1>3. PICK j \in Ids : /\ j[1] = Home /\ proc[j] = "free"
                       /\ proc' = [proc EXCEPT ![i] = "free", ![j] = "daemon"]
                       /\ step' = [step EXCEPT ![i] = "init", ![j] = "init"]
  BY <1>1 DEF Spawn, Space, Live
<1>4. \A k \in Ids : k # i => proc[k] \notin Commands
  BY <1>1 DEF LifecycleInv, Order, Watches
<1>5. /\ i # j
      /\ \A k \in Ids : proc'[k] = IF k = j THEN "daemon" ELSE IF k = i THEN "free" ELSE proc[k]
      /\ \A k \in Ids : step'[k] = IF k = j \/ k = i THEN "init" ELSE step[k]
  BY <1>1, <1>3 DEF LifecycleInv, TypeOK
<1>6. TypeOK'
  BY <1>1, <1>3 DEF LifecycleInv, TypeOK, Kinds, Steps
<1>7. Order'
  BY <1>2, <1>4, <1>5 DEF LifecycleInv, Order, Watches
<1>8. AtHome'
  BY <1>1, <1>3, <1>5 DEF LifecycleInv, AtHome
<1>9. Truth'
  BY <1>1, <1>2, <1>5 DEF LifecycleInv, Truth, Serves
<1> QED BY <1>6, <1>7, <1>8, <1>9 DEF LifecycleInv

\* stop: the process it signals is the one of the status.
LEMMA StopStep ==
  ASSUME LifecycleInv, NEW i \in Ids, StopSignal(i) PROVE LifecycleInv'
<1> USE DEF Commands
<1>1. /\ proc[i] = "stop" /\ i[1] = Home /\ InUse(Home) /\ status \in Ids
      /\ UNCHANGED <<status, summary>>
  BY DEF StopSignal, LifecycleInv, AtHome, Space, InUse, Named
<1>2. Meant(i[1]) = status
  BY <1>1, HomeMeant DEF LifecycleInv
<1>3. CASE proc[status] = "daemon" /\ step[status] = "serve"
  <2>1. /\ i # status /\ UNCHANGED unclean
        /\ proc' = [proc EXCEPT ![i] = "free"]
        /\ step' = [step EXCEPT ![i] = "init", ![status] = "closing"]
    BY <1>1, <1>2, <1>3 DEF StopSignal, Space
  <2>2. /\ \A k \in Ids : proc'[k] = IF k = i THEN "free" ELSE proc[k]
        /\ \A k \in Ids : step'[k] = IF k = i THEN "init"
                                       ELSE IF k = status THEN "closing" ELSE step[k]
    BY <1>1, <2>1 DEF LifecycleInv, TypeOK
  <2>3. TypeOK'
    BY <1>1, <2>1 DEF LifecycleInv, TypeOK, Kinds, Steps
  <2>4. Order'
    BY <1>1, <1>3, <2>2 DEF LifecycleInv, Order, Watches
  <2>5. AtHome'
    BY <1>1, <2>2 DEF LifecycleInv, AtHome
  <2>6. Truth'
    <3>1. ASSUME NEW k \in Ids, proc'[k] = "daemon"
          PROVE  Serves(k)' => status' = k /\ step'[k] # "serve"
      <4>1. k # i /\ proc[k] = "daemon"
        BY <2>2, <3>1
      <4>2. (k = status /\ step'[k] = "closing") \/ step'[k] = "drain"
        BY <1>1, <1>3, <2>2, <4>1 DEF LifecycleInv, Order, Watches
      <4> QED BY <1>1, <4>2 DEF Serves
    <3>2. ASSUME NEW k \in Ids, Watches(k) PROVE proc'[k] = "daemon" /\ step'[k] \in {step[k], "closing"}
      BY <1>1, <2>2, <3>2 DEF Watches
    <3>3. ~unclean => (status \in Ids => Watches(status)) /\ (summary \in Ids => Watches(summary) /\ step[summary] # "leaving")
      BY DEF LifecycleInv, Truth, Watches
    <3>4. unclean' = unclean /\ status' = status /\ summary' = summary
      BY <1>1, <2>1
    <3>5. ASSUME ~unclean' PROVE status' \in Ids => Watches(status)'
      BY <3>2, <3>3, <3>4, <3>5 DEF Watches
    <3>6. ASSUME ~unclean', summary' \in Ids
          PROVE  Watches(summary)' /\ step'[summary'] # "leaving"
      BY <3>2, <3>3, <3>4, <3>6 DEF Watches
    <3> QED BY <3>1, <3>5, <3>6 DEF Truth, Watches, Serves
  <2> QED BY <2>3, <2>4, <2>5, <2>6 DEF LifecycleInv
<1>4. CASE ~(proc[status] = "daemon" /\ step[status] = "serve")
  <2>1. /\ proc' = [proc EXCEPT ![i] = "free", ![status] = "free"]
        /\ step' = [step EXCEPT ![i] = "init", ![status] = "init"]
        /\ unclean' = TRUE
    BY <1>1, <1>2, <1>4 DEF StopSignal, Space, Leaves
  <2>2. /\ \A k \in Ids : proc'[k] = IF k = i \/ k = status THEN "free" ELSE proc[k]
        /\ \A k \in Ids : step'[k] = IF k = i \/ k = status THEN "init" ELSE step[k]
    BY <1>1, <2>1 DEF LifecycleInv, TypeOK
  <2>3. TypeOK'
    BY <1>1, <2>1 DEF LifecycleInv, TypeOK, Kinds, Steps
  <2>4. Order'
    BY <1>1, <2>2 DEF LifecycleInv, Order, Watches
  <2>5. AtHome'
    BY <1>1, <2>2 DEF LifecycleInv, AtHome
  <2>6. Truth'
    <3>1. ASSUME NEW k \in Ids, proc'[k] = "daemon", Serves(k)'
          PROVE  status' = k
      <4>1. k # i /\ k # status /\ proc[k] = "daemon" /\ step'[k] = step[k]
        BY <2>2, <3>1
      <4>2. Serves(k)
        BY <3>1, <4>1 DEF Serves
      <4>3. status = k
        BY <4>1, <4>2 DEF LifecycleInv, Truth
      <4> QED BY <4>1, <4>3
    <3> QED BY <2>1, <3>1 DEF Truth, Serves
  <2> QED BY <2>3, <2>4, <2>5, <2>6 DEF LifecycleInv
<1> QED BY <1>3, <1>4

\* The daemon writes its status, and its first and its last summary: no command
\* runs.
LEMMA DaemonStep ==
  ASSUME LifecycleInv, NEW i \in Ids,
         OpenStatus(i) \/ WriteStatus(i) \/ Boot(i) \/ FinalSummary(i)
  PROVE  LifecycleInv'
<1> USE DEF Moves, Commands
<1>1. /\ proc[i] = "daemon" /\ step[i] \in {"body", "write", "boot", "closing"}
      /\ UNCHANGED proc /\ i[1] = Home
      /\ \A j \in Ids : proc[j] \notin {"start", "stop", "look"}
      /\ \A j \in Ids : proc[j] = "daemon" => j = i \/ step[j] = "drain"
  BY DEF OpenStatus, WriteStatus, Boot, FinalSummary, LifecycleInv, Order, Watches, AtHome
<1>2. CASE OpenStatus(i)
  <2>1. /\ step[i] = "body" /\ step' = [step EXCEPT ![i] = "write"]
        /\ status' = Truncated /\ UNCHANGED <<summary, unclean>>
    BY <1>2 DEF OpenStatus
  <2>2. TypeOK' /\ Order'
    BY <1>1, <2>1 DEF LifecycleInv, TypeOK, Steps, Order, Watches
  <2>3. AtHome' /\ Truth'
    BY <1>1, <2>1, NoFileNames DEF LifecycleInv, TypeOK, AtHome, Truth, Serves
  <2> QED BY <2>2, <2>3 DEF LifecycleInv
<1>3. CASE WriteStatus(i)
  <2>1. /\ step[i] = "write" /\ step' = [step EXCEPT ![i] = "boot"]
        /\ status' = i /\ UNCHANGED <<summary, unclean>>
    BY <1>3 DEF WriteStatus
  <2>2. TypeOK' /\ Order'
    BY <1>1, <2>1 DEF LifecycleInv, TypeOK, Steps, Order, Watches
  <2>3. AtHome' /\ Truth'
    BY <1>1, <2>1 DEF LifecycleInv, TypeOK, AtHome, Truth, Serves
  <2> QED BY <2>2, <2>3 DEF LifecycleInv
<1>4. CASE Boot(i)
  <2>1. /\ step[i] = "boot" /\ step' = [step EXCEPT ![i] = "serve"]
        /\ summary' = i /\ unclean' = FALSE /\ UNCHANGED status
    BY <1>4 DEF Boot
  <2>2. status = i
    BY <1>1, <2>1 DEF LifecycleInv, Truth, Serves
  <2>3. TypeOK' /\ Order'
    BY <1>1, <2>1 DEF LifecycleInv, TypeOK, Steps, Order, Watches
  <2>4. AtHome' /\ Truth'
    BY <1>1, <2>1, <2>2 DEF LifecycleInv, TypeOK, AtHome, Truth, Serves
  <2> QED BY <2>3, <2>4 DEF LifecycleInv
<1>5. CASE FinalSummary(i)
  <2>1. /\ step[i] = "closing" /\ step' = [step EXCEPT ![i] = "leaving"]
        /\ summary' = Stopped /\ UNCHANGED <<status, unclean>>
    BY <1>5 DEF FinalSummary
  <2>2. TypeOK' /\ Order'
    BY <1>1, <2>1 DEF LifecycleInv, TypeOK, Steps, Order, Watches
  <2>3. AtHome' /\ Truth'
    BY <1>1, <2>1, NoFileNames DEF LifecycleInv, TypeOK, AtHome, Truth, Serves
  <2> QED BY <2>2, <2>3 DEF LifecycleInv
<1> QED BY <1>2, <1>3, <1>4, <1>5

\* A running summary that the daemon writes before its last one is the truth,
\* and a later one is not.
LEMMA PersistStep ==
  ASSUME LifecycleInv, NEW i \in Ids, Persist(i) PROVE LifecycleInv'
<1>1. /\ proc[i] = "daemon" /\ summary' = i /\ UNCHANGED <<proc, step, status>>
      /\ unclean' = (step[i] \in {"leaving", "drain"}) /\ (step[i] = "drain" \/ Serves(i))
  BY DEF Persist, Serves
<1>2. TypeOK' /\ Order' /\ AtHome'
  BY <1>1 DEF LifecycleInv, TypeOK, Order, Watches, AtHome
<1>3. CASE step[i] \in {"leaving", "drain"}
  BY <1>1, <1>2, <1>3 DEF LifecycleInv, Truth, Serves
<1>4. CASE step[i] \notin {"leaving", "drain"}
  <2>1. status = i /\ ~unclean'
    BY <1>1, <1>4 DEF LifecycleInv, Truth
  <2>2. \A j \in Ids : proc[j] = "daemon" => j = i \/ step[j] = "drain"
    BY <1>1, <1>4 DEF LifecycleInv, Order, Watches
  <2> QED BY <1>1, <1>2, <1>4, <2>1, <2>2 DEF LifecycleInv, Truth, Serves
<1> QED BY <1>3, <1>4

\* The daemon is on its way out: it has removed its status and named itself in
\* no summary since, or is unclean.
LEMMA DrainStep ==
  ASSUME LifecycleInv, NEW i \in Ids, RemoveStatus(i) \/ Fail(i) PROVE LifecycleInv'
<1>1. /\ proc[i] = "daemon" /\ step[i] \in {"boot", "closing", "leaving"}
      /\ UNCHANGED proc /\ step' = [step EXCEPT ![i] = "drain"]
      /\ \A j \in Ids : proc[j] = "daemon" => j = i \/ step[j] = "drain"
      /\ \A j \in Ids : proc[j] \notin Commands
  BY DEF RemoveStatus, Fail, Moves, LifecycleInv, Order, Watches
<1>2. \A k \in Ids : step'[k] = IF k = i THEN "drain" ELSE step[k]
  BY <1>1 DEF LifecycleInv, TypeOK
<1>3. Order'
  BY <1>1, <1>2 DEF LifecycleInv, Order, Watches, Commands
<1>4. CASE RemoveStatus(i)
  <2>1. /\ status' = NoFile /\ step[i] = "leaving" /\ UNCHANGED <<summary, unclean>>
    BY <1>4 DEF RemoveStatus
  <2>2. TypeOK'
    BY <1>1, <2>1 DEF LifecycleInv, TypeOK, Steps
  <2>3. summary = i => unclean
    BY <1>1, <2>1 DEF LifecycleInv, Truth
  <2>4. AtHome' /\ Truth'
    BY <1>1, <1>2, <2>1, <2>3, NoFileNames DEF LifecycleInv, AtHome, Truth, Serves
  <2> QED BY <1>3, <2>2, <2>4 DEF LifecycleInv
<1>5. CASE Fail(i)
  <2>1. unclean' = TRUE /\ UNCHANGED <<status, summary>>
    BY <1>5 DEF Fail
  <2>2. TypeOK' /\ AtHome'
    BY <1>1, <2>1 DEF LifecycleInv, TypeOK, Steps, AtHome
  <2>3. Truth'
    BY <1>1, <1>2, <2>1 DEF LifecycleInv, Truth, Serves
  <2> QED BY <1>3, <2>2, <2>3 DEF LifecycleInv
<1> QED BY <1>4, <1>5

\* The daemon ends: it leaves no file that names it, or is unclean.
LEMMA EndStep ==
  ASSUME LifecycleInv, NEW i \in Ids, Return(i) \/ Crash(i) PROVE LifecycleInv'
<1> USE DEF Ends, Becomes, Commands
<1>1. /\ proc[i] = "daemon" /\ UNCHANGED <<status, summary>>
      /\ proc' = [proc EXCEPT ![i] = "free"] /\ step' = [step EXCEPT ![i] = "init"]
  BY DEF Return, Crash, files
<1>2. /\ \A k \in Ids : proc'[k] = IF k = i THEN "free" ELSE proc[k]
      /\ \A k \in Ids : step'[k] = IF k = i THEN "init" ELSE step[k]
  BY <1>1 DEF LifecycleInv, TypeOK
<1>3. Order'
  BY <1>1, <1>2 DEF LifecycleInv, Order, Watches
<1>4. AtHome'
  BY <1>1, <1>2 DEF LifecycleInv, AtHome
<1>5. unclean' \in BOOLEAN /\ (unclean => unclean')
  BY DEF Return, Crash, Leaves, files, LifecycleInv, TypeOK
<1>6. TypeOK'
  BY <1>1, <1>5 DEF LifecycleInv, TypeOK, Kinds, Steps
<1>7. ~unclean' => status # i /\ summary # i
  <2>1. CASE Return(i)
    BY <2>1 DEF Return, files, LifecycleInv, Truth
  <2>2. CASE Crash(i)
    BY <2>2 DEF Crash, Leaves
  <2> QED BY <2>1, <2>2
<1>8. Truth'
  BY <1>1, <1>2, <1>5, <1>7 DEF LifecycleInv, Truth, Serves
<1> QED BY <1>3, <1>4, <1>6, <1>8 DEF LifecycleInv

LEMMA LifecycleStep ==
  ASSUME Orderly, Known PROVE LifecycleInv /\ [Next]_vars => LifecycleInv'
<1> SUFFICES ASSUME LifecycleInv, [Next]_vars PROVE LifecycleInv'
  OBVIOUS
<1>1. CASE UNCHANGED vars
  BY <1>1 DEF vars, LifecycleInv, TypeOK, Order, Watches, AtHome, Truth, Serves
<1>2. CASE Next
  BY <1>2, RunStep, OtherStep, CleanStep, LeaveStep, SpawnStep, StopStep, DaemonStep, PersistStep,
     DrainStep, EndStep
     DEF Next
<1> QED BY <1>1, <1>2

-----------------------------------------------------------------------------
(* The properties *)

LEMMA LifecycleCorrect == ASSUME Orderly, Known PROVE Spec => []LifecycleInv
<1> QED BY InitInv, LifecycleStep, PTL DEF Spec

\* Every variable keeps to its type; status.json in particular holds the pid
\* with its namespace or is being written.
THEOREM LifecycleTypeCorrect == ASSUME Orderly, Known PROVE Spec => []TypeOK
<1>1. LifecycleInv => TypeOK
  BY DEF LifecycleInv
<1> QED BY <1>1, LifecycleCorrect, PTL

\* start never adds a second daemon: it spawns one only when the pid of the
\* status is not in use, and a daemon's is.
THEOREM OneDaemonCorrect == ASSUME Orderly, Known PROVE Spec => []OneDaemon
<1>1. LifecycleInv => OneDaemon
  <2> SUFFICES ASSUME LifecycleInv PROVE Cardinality(Watching) <= 1
    BY DEF OneDaemon
  <2>1. CASE Watching = {}
    BY <2>1, FS_EmptySet
  <2>2. CASE Watching # {}
    <3>1. PICK i : i \in Watching
      BY <2>2
    <3>2. Watching = {i}
      BY <3>1 DEF LifecycleInv, Order, Watches, Watching, Are
    <3>3. Cardinality({i}) = 1
      BY FS_Singleton
    <3> QED BY <3>2, <3>3
  <2> QED BY <2>1, <2>2
<1> QED BY <1>1, LifecycleCorrect, PTL

\* A daemon that serves is the one status.json names.
THEOREM FindableCorrect == ASSUME Orderly, Known PROVE Spec => []DaemonFindable
<1>1. LifecycleInv => DaemonFindable
  BY DEF LifecycleInv, Truth, Serves, DaemonFindable, Quiet, Watching, Are
<1> QED BY <1>1, LifecycleCorrect, PTL

\* summary says in every namespace whether the watcher runs, unless a daemon
\* that ended, or was about to, wrote it last.
THEOREM SummaryCorrect == ASSUME Orderly, Known PROVE Spec => []SummaryHonest
<1>1. LifecycleInv => SummaryHonest
  <2> SUFFICES ASSUME LifecycleInv, Quiet, ~unclean, NEW s \in Spaces
               PROVE  Running(s) <=> Watching # {}
    BY DEF SummaryHonest
  <2>1. ASSUME NEW i \in Watching PROVE Running(s)
    <3>1. i \in Ids /\ proc[i] = "daemon" /\ summary = i
      BY <2>1 DEF Quiet, LifecycleInv, Truth, Watching, Are
    <3>2. i = <<i[1], i[2]>>
      BY <3>1 DEF Ids
    <3>3. Verifiable(summary, s) => s = i[1]
      BY <3>1 DEF LifecycleInv, AtHome, Known, Verifiable, Space
    <3> QED BY <3>1, <3>2, <3>3 DEF Running, Live
  <2>2. ASSUME Running(s) PROVE Watching # {}
    BY <2>2 DEF Running, LifecycleInv, Truth, Watching, Are
  <2> QED BY <2>1, <2>2
<1> QED BY <1>1, LifecycleCorrect, PTL

\* stop signals the process of the status, which is a daemon unless one ended
\* without its clean-up.
THEOREM StopCorrect == ASSUME Orderly, Known PROVE Spec => StopSparesOthers
<1>1. LifecycleInv => (~unclean => \A i, t \in Ids : StopSignal(i) /\ t # i /\ proc[t] = "other"
                                                      => proc'[t] = "other")
  <2> SUFFICES ASSUME LifecycleInv, ~unclean, NEW i \in Ids, NEW t \in Ids, StopSignal(i),
                      t # i, proc[t] = "other"
               PROVE  proc'[t] = "other"
    OBVIOUS
  <2>1. status \in Ids /\ i[1] = Home /\ Meant(i[1]) = status
    BY HomeMeant DEF StopSignal, LifecycleInv, AtHome, Space, InUse, Named
  <2>2. proc[status] = "daemon"
    BY <2>1 DEF LifecycleInv, Truth
  <2>3. proc' = [proc EXCEPT ![i] = "free"] \/ proc' = [proc EXCEPT ![i] = "free", ![status] = "free"]
    BY <2>1 DEF StopSignal, Space
  <2> QED BY <2>2, <2>3 DEF LifecycleInv, TypeOK
<1> QED BY <1>1, LifecycleCorrect, PTL DEF Spec, StopSparesOthers

\* start refuses only in favour of a daemon, unless one ended without its
\* clean-up.
THEOREM RefuseCorrect == ASSUME Orderly, Known PROVE Spec => RefusesForDaemon
<1>1. LifecycleInv => \A i \in Ids : Refuse(i) /\ ~unclean => Watching # {}
  BY DEF LifecycleInv, Truth, AtHome, Refuse, InUse, Named, Watching, Are
<1> QED BY <1>1, LifecycleCorrect, PTL DEF Spec, RefusesForDaemon
=============================================================================
