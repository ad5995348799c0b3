--------------------------- MODULE ServiceProofs ---------------------------
(***************************************************************************)
(* Proofs about Service.tla for every set of hosts, owners and names, every *)
(* channel capacity and every combination of faults.                        *)
(***************************************************************************)
EXTENDS Service, TLAPS

\* A connection key ends in a host.
LEMMA KeyHost == \A k \in Keys : k[2] \in Hosts
  BY DEF Keys

\* What persist writes has the shape of a summary.
LEMMA SummaryType == ASSUME TypeOK, NEW r \in BOOLEAN
                     PROVE  CurrentSummary(r) \in Summaries
<1> DEFINE D == {<<h, domains[h]>> : h \in {g \in Hosts : Included(g, domains[g])}}
           C == {<<k, conns[k]>> : k \in {c \in Keys : Included(c[2], conns[c])}}
<1>1. D \in SUBSET (Hosts \X Shown)
  BY DEF Included, Shown
<1>2. C \in SUBSET (Keys \X Shown)
  BY DEF Included, Shown
<1>3. polls \in 0 .. PollLimit - 1 /\ procs \in Readings \cup {NoProcesses}
  BY DEF TypeOK
<1>4. CurrentSummary(r) = [running |-> r, polls |-> polls, processes |-> procs,
                           domains |-> D, connections |-> C]
  BY DEF CurrentSummary, SummaryWith
<1> HIDE DEF D, C
<1> QED BY <1>1, <1>2, <1>3, <1>4 DEF Summaries

\* A summary depends on these and on the processes it is given.
LEMMA SummaryFrame ==
  ASSUME UNCHANGED <<polls, domains, conns>>
  PROVE  /\ \A r, x : SummaryWith(r, x)' = SummaryWith(r, x)
         /\ procs' = procs => \A r : CurrentSummary(r)' = CurrentSummary(r)
<1>1. \A r, x : SummaryWith(r, x)' = SummaryWith(r, x)
  BY DEF SummaryWith
<1>2. ASSUME procs' = procs, NEW r PROVE CurrentSummary(r)' = CurrentSummary(r)
  BY <1>2 DEF CurrentSummary, SummaryWith
<1> QED BY <1>1, <1>2

\* The window takes names that are shown, and may be emptied at any time.
LEMMA WindowType ==
  /\ EmptyWindow \in Windows
  /\ TypeOK /\ Flushes => window' \in Windows
  /\ \A k \in Keys : TypeOK /\ RecordNames(k) => window' \in Windows
<1>1. EmptyWindow \in Windows
  BY DEF EmptyWindow, Windows
<1>2. TypeOK /\ Flushes => window' \in Windows
  BY <1>1 DEF TypeOK, Flushes
<1>3. ASSUME NEW k \in Keys, TypeOK, RecordNames(k) PROVE window' \in Windows
  <2>1. k[2] \in Hosts /\ cache[k[2]] \in Shown
    BY <1>3, KeyHost DEF TypeOK
  <2>2. [window.domains EXCEPT ![k[2]] = cache[k[2]]] \in [Hosts -> Shown \cup {Untracked}]
    BY <1>3, <2>1 DEF TypeOK, Windows
  <2>3. [window.conns EXCEPT ![k] = cache[k[2]]] \in [Keys -> Shown \cup {Untracked}]
    BY <1>3, <2>1 DEF TypeOK, Windows
  <2> QED BY <1>3, <2>2, <2>3 DEF RecordNames, TypeOK, Windows
<1> QED BY <1>1, <1>2, <1>3

\* TypeOK is inductive.
LEMMA TypeInit == Init => TypeOK
  BY LimitAssumption, HostAssumption, WindowType DEF Init, TypeOK, Shown, Keys

LEMMA TypeStep == TypeOK /\ [Next]_vars => TypeOK'
<1> SUFFICES ASSUME TypeOK, [Next]_vars PROVE TypeOK'
  OBVIOUS
<1> USE LimitAssumption, HostAssumption
<1>1. CASE ListFails
  BY <1>1 DEF TypeOK, ListFails, AfterError, lookups, memory, polling
<1>2. CASE PollProcesses
  BY <1>2 DEF TypeOK, PollProcesses, lookups, memory, polling
<1>3. CASE CollectFails
  BY <1>3 DEF TypeOK, CollectFails, lookups, memory, polling
<1>4. CASE Collect
  BY <1>4 DEF TypeOK, Collect, lookups, memory
<1>5. ASSUME NEW k \in Keys, Observe(k) PROVE TypeOK'
  <2>1. k[2] \in Hosts
    BY KeyHost
  <2>2. queue' \in Seq(PublicIPs) /\ Len(queue') <= QueueCap /\ pending' \in SUBSET PublicIPs
    <3>1. RequestLookup(k[2])
      BY <1>5 DEF Observe
    <3>2. CASE Wanted(k[2]) /\ Len(queue) < QueueCap
      <4>1. queue' = Append(queue, k[2]) /\ pending' = pending \cup {k[2]}
        BY <3>1, <3>2 DEF RequestLookup
      <4>2. k[2] \in PublicIPs /\ Len(queue) < QueueCap
        BY <3>2 DEF Wanted
      <4>3. queue \in Seq(PublicIPs) /\ pending \in SUBSET PublicIPs
        BY DEF TypeOK
      <4>4. queue' \in Seq(PublicIPs) /\ Len(queue') = Len(queue) + 1
        BY <4>1, <4>2, <4>3
      <4> QED BY <4>1, <4>2, <4>3, <4>4
    <3>3. CASE ~(Wanted(k[2]) /\ Len(queue) < QueueCap)
      BY <3>1, <3>3 DEF RequestLookup, TypeOK
    <3> QED BY <3>2, <3>3
  <2>3. domains' \in [Hosts -> Shown \cup {Untracked}] /\ conns' \in [Keys -> Shown \cup {Untracked}]
    BY <1>5, <2>1 DEF TypeOK, Observe
  <2>4. window' \in Windows
    BY <1>5, WindowType DEF Observe
  <2> QED BY <1>5, <2>2, <2>3, <2>4 DEF TypeOK, Observe
<1>6. CASE Evict
  <2>1. domains' \in [Hosts -> Shown \cup {Untracked}] /\ conns' \in [Keys -> Shown \cup {Untracked}]
    BY <1>6 DEF TypeOK, Evict
  <2> QED BY <1>6, <2>1 DEF TypeOK, Evict, lookups
<1>7. CASE Publish
  BY <1>7 DEF TypeOK, Publish, Opens, OpenFails, lookups, memory, polling
<1>8. CASE PublishWrite
  <2>1. disk' \in Summaries \cup {Absent, Empty, Garbled}
    BY <1>8, SummaryType DEF TypeOK, PublishWrite, Writes, WriteFails
  <2> QED BY <1>8, <2>1 DEF TypeOK, PublishWrite, lookups, memory, polling
<1>9. CASE RetrySnapshot
  <2>1. snap' \in Summaries \cup {Absent, Garbled}
    BY <1>9, SummaryType DEF TypeOK, RetrySnapshot
  <2> QED BY <1>9, <2>1 DEF TypeOK, RetrySnapshot, Opens, lookups, memory, polling
<1>10. CASE RetryFails
  BY <1>10 DEF TypeOK, RetryFails, OpenFails, lookups, memory, polling
<1>11. CASE RetryPanics
  BY <1>11 DEF TypeOK, RetryPanics, lookups, memory, polling
<1>12. CASE RetryWrite
  BY <1>12 DEF TypeOK, RetryWrite, Writes, WriteFails, lookups, memory, polling
<1>13. CASE Tick
  BY <1>13 DEF TypeOK, Tick, lookups, memory, polling
<1>14. CASE ReceiveStop
  BY <1>14 DEF TypeOK, ReceiveStop, lookups, memory, polling
<1>15. CASE Shutdown
  BY <1>15, WindowType DEF TypeOK, Shutdown, lookups, memory
<1>16. CASE FinalPersist
  BY <1>16 DEF TypeOK, FinalPersist, Opens, OpenFails, lookups, memory, polling
<1>17. CASE FinalWrite
  <2>1. disk' \in Summaries \cup {Absent, Empty, Garbled}
    BY <1>17, SummaryType DEF TypeOK, FinalWrite, Writes, WriteFails
  <2> QED BY <1>17, <2>1 DEF TypeOK, FinalWrite, lookups, memory, polling
<1>18. CASE Exit
  BY <1>18 DEF TypeOK, Exit, lookups, memory, polling
<1>19. CASE Receive
  BY <1>19 DEF TypeOK, Receive, memory, polling
<1>20. CASE WorkerLock
  BY <1>20 DEF TypeOK, WorkerLock, memory, polling
<1>21. CASE Update
  <2> PICK n \in Shown :
        /\ cache' = [cache EXCEPT ![ip] = n]
        /\ domains' = [domains EXCEPT ![ip] = IF @ = Untracked THEN @ ELSE n]
        /\ conns' = [k \in Keys |-> IF k[2] = ip /\ conns[k] # Untracked
                                      THEN n ELSE conns[k]]
    BY <1>21 DEF Update, Learn
  <2>1. cache' \in [Hosts -> Shown] /\ domains' \in [Hosts -> Shown \cup {Untracked}]
    BY DEF TypeOK
  <2>2. conns' \in [Keys -> Shown \cup {Untracked}]
    BY DEF TypeOK
  <2> QED BY <1>21, <2>1, <2>2 DEF TypeOK, Update, Learn, Opens, OpenFails, polling
<1>22. CASE WorkerWrite
  <2>1. disk' \in Summaries \cup {Absent, Empty, Garbled}
    BY <1>22, SummaryType DEF TypeOK, WorkerWrite, Writes, WriteFails
  <2> QED BY <1>22, <2>1 DEF TypeOK, WorkerWrite, memory, polling
<1>23. CASE Terminate
  BY <1>23 DEF TypeOK, Terminate, lookups, memory, polling
<1>24. ASSUME NEW l \in TestLoops, LoopDrives(l) \/ LoopRests(l) \/ LoopEnds(l) PROVE TypeOK'
  <2>1. loops' \in [TestLoops -> {"wait", "drive", "done"}]
    BY <1>24 DEF TypeOK, LoopDrives, LoopRests, LoopEnds
  <2> QED BY <1>24, <2>1 DEF TypeOK, LoopDrives, LoopRests, LoopEnds, others, lookups, memory, polling
<1>25. CASE Flush
  BY <1>25, WindowType DEF TypeOK, Flush, AfterError, AfterSuccess, lookups, memory
<1>26. CASE UNCHANGED vars
  BY <1>26 DEF TypeOK, vars
<1> QED
  BY <1>1, <1>2, <1>3, <1>4, <1>5, <1>6, <1>7, <1>8, <1>9, <1>10, <1>11, <1>12,
     <1>13, <1>14, <1>15, <1>16, <1>17, <1>18, <1>19, <1>20, <1>21, <1>22, <1>23,
     <1>24, <1>25, <1>26 DEF Next, MainRuns, MainLocks, WorkerRuns, TestTraffic, Done

\* Every variable keeps to its type, in every behaviour of the daemon.
THEOREM TypeCorrect == Spec => []TypeOK
  BY TypeInit, TypeStep, PTL DEF Spec
-----------------------------------------------------------------------------
(***************************************************************************)
(* LookupOnce.  It is inductive together with TypeOK.  Only four actions   *)
(* touch the channel, the pending set, the host in flight or the cache; the *)
(* others leave it alone (LookupFrame).                                    *)
(***************************************************************************)
lookupVars == <<queue, ip, pending, cache, InFlight>>

LEMMA LookupFrame == LookupOnce /\ UNCHANGED lookupVars => LookupOnce'
  BY DEF LookupOnce, lookupVars

\* Sending: the host is not pending, so it is neither in the channel nor in
\* flight, and the cache has no name for it.
LEMMA LookupObserve == ASSUME TypeOK, LookupOnce, NEW k \in Keys, Observe(k)
                       PROVE  LookupOnce'
<1> DEFINE h == k[2]
<1>1. InFlight' = InFlight /\ cache' = cache
  BY DEF Observe, InFlight
<1>2. CASE Wanted(h) /\ Len(queue) < QueueCap
  <2>1. queue' = Append(queue, h) /\ pending' = pending \cup {h}
    BY <1>2 DEF Observe, RequestLookup
  <2>2. h \in Hosts /\ h \notin pending /\ cache[h] = NoName
    BY <1>2, KeyHost DEF Wanted
  <2>3. queue \in Seq(PublicIPs) /\ Len(queue) \in Nat /\ h \in PublicIPs
    BY <1>2 DEF TypeOK, Wanted
  <2>4. /\ Len(queue') = Len(queue) + 1
        /\ queue'[Len(queue) + 1] = h
        /\ \A i \in 1 .. Len(queue) : queue'[i] = queue[i]
    BY <2>1, <2>3
  <2>5. /\ h \notin InFlight
        /\ \A i \in 1 .. Len(queue) : queue[i] # h
    BY <2>2 DEF LookupOnce
  <2>6. \A i, j \in 1 .. Len(queue') : queue'[i] = queue'[j] => i = j
    BY <2>3, <2>4, <2>5 DEF LookupOnce
  <2>7. \A i \in 1 .. Len(queue') : queue'[i] \notin InFlight'
    BY <1>1, <2>3, <2>4, <2>5 DEF LookupOnce
  <2>8. ASSUME NEW g \in Hosts
        PROVE  g \in pending' <=> g \in InFlight' \/ \E i \in 1 .. Len(queue') : queue'[i] = g
    <3>1. g \in pending <=> g \in InFlight \/ \E i \in 1 .. Len(queue) : queue[i] = g
      BY DEF LookupOnce
    <3>2. (\E i \in 1 .. Len(queue') : queue'[i] = g)
            <=> g = h \/ \E i \in 1 .. Len(queue) : queue[i] = g
      BY <2>3, <2>4
    <3> QED BY <1>1, <2>1, <3>1, <3>2
  <2>9. \A g \in pending' : cache'[g] = NoName
    BY <1>1, <2>1, <2>2 DEF LookupOnce
  <2> HIDE DEF h
  <2> QED BY <2>6, <2>7, <2>8, <2>9 DEF LookupOnce
<1>3. CASE ~(Wanted(h) /\ Len(queue) < QueueCap)
  <2>1. UNCHANGED lookupVars
    BY <1>1, <1>3 DEF Observe, RequestLookup, lookupVars
  <2> QED BY <2>1, LookupFrame
<1> QED BY <1>2, <1>3

\* Receiving: the head of the channel goes in flight and stays pending.
LEMMA LookupReceive == TypeOK /\ LookupOnce /\ Receive => LookupOnce'
<1> SUFFICES ASSUME TypeOK, LookupOnce, Receive PROVE LookupOnce'
  OBVIOUS
<1>1. queue \in Seq(PublicIPs) /\ queue # <<>>
  BY DEF TypeOK, Receive
<1>2. /\ Len(queue) \in Nat \ {0}
      /\ Len(queue') = Len(queue) - 1
      /\ \A i \in 1 .. Len(queue') : queue'[i] = queue[i + 1]
      /\ ip' = queue[1]
  BY <1>1 DEF Receive
<1>3. InFlight = {} /\ InFlight' = {queue[1]}
  BY <1>2 DEF InFlight, Receive
<1>4. pending' = pending /\ cache' = cache
  BY DEF Receive, memory
<1>5. \A i, j \in 1 .. Len(queue') : queue'[i] = queue'[j] => i = j
  BY <1>2 DEF LookupOnce
<1>6. \A i \in 1 .. Len(queue') : queue'[i] \notin InFlight'
  BY <1>2, <1>3 DEF LookupOnce
<1>7. ASSUME NEW g \in Hosts
      PROVE  g \in pending' <=> g \in InFlight' \/ \E i \in 1 .. Len(queue') : queue'[i] = g
  <2>1. g \in pending <=> \E i \in 1 .. Len(queue) : queue[i] = g
    BY <1>3 DEF LookupOnce
  <2>2. (\E i \in 1 .. Len(queue) : queue[i] = g)
          <=> g = queue[1] \/ \E i \in 1 .. Len(queue') : queue'[i] = g
    <3>1. ASSUME NEW i \in 1 .. Len(queue), queue[i] = g, i # 1
          PROVE  \E j \in 1 .. Len(queue') : queue'[j] = g
      <4>1. i - 1 \in 1 .. Len(queue') /\ queue'[i - 1] = queue[(i - 1) + 1]
        BY <1>2, <3>1
      <4> QED BY <3>1, <4>1, <1>2
    <3>2. ASSUME NEW j \in 1 .. Len(queue'), queue'[j] = g
          PROVE  \E i \in 1 .. Len(queue) : queue[i] = g
      <4>1. j + 1 \in 1 .. Len(queue) /\ queue[j + 1] = g
        BY <1>2, <3>2
      <4> QED BY <4>1
    <3>3. 1 \in 1 .. Len(queue)
      BY <1>2
    <3> QED BY <3>1, <3>2, <3>3
  <2> QED BY <1>3, <1>4, <2>1, <2>2
<1> QED BY <1>4, <1>5, <1>6, <1>7 DEF LookupOnce

\* Answering: the host in flight is in the channel nowhere, so when its
\* pending entry is cleared and its cache entry set nothing else refers to it.
LEMMA LookupUpdate == TypeOK /\ LookupOnce /\ Update => LookupOnce'
<1> SUFFICES ASSUME TypeOK, LookupOnce, Update PROVE LookupOnce'
  OBVIOUS
<1>1. InFlight = {ip} /\ InFlight' = {} /\ queue' = queue /\ pending' = pending \ {ip}
  BY DEF InFlight, Update, Learn, Opens, OpenFails
<1>2. \A g \in Hosts : g # ip => cache'[g] = cache[g]
  BY DEF TypeOK, Update, Learn
<1>3. pending \subseteq Hosts
  BY HostAssumption DEF TypeOK
<1> QED BY <1>1, <1>2, <1>3 DEF LookupOnce

LEMMA LookupStep == TypeOK /\ LookupOnce /\ [Next]_vars => LookupOnce'
<1> SUFFICES ASSUME TypeOK, LookupOnce, [Next]_vars PROVE LookupOnce'
  OBVIOUS
<1>1. ASSUME NEW k \in Keys, Observe(k) PROVE LookupOnce'
  BY <1>1, LookupObserve
<1>2. CASE Receive
  BY <1>2, LookupReceive
<1>3. CASE Update
  BY <1>3, LookupUpdate
<1>4. CASE WorkerLock \/ WorkerWrite
  <2>1. UNCHANGED lookupVars
    BY <1>4 DEF WorkerLock, WorkerWrite, lookupVars, InFlight, memory
  <2> QED BY <2>1, LookupFrame
<1>5. CASE Evict
  <2>1. UNCHANGED lookupVars
    BY <1>5 DEF Evict, lookups, lookupVars, InFlight
  <2> QED BY <2>1, LookupFrame
<1>6. CASE \/ ListFails \/ CollectFails \/ PublishWrite \/ Flush \/ RetrySnapshot
           \/ RetryFails \/ RetryPanics \/ RetryWrite \/ Tick \/ FinalPersist
           \/ FinalWrite \/ Exit \/ MainLocks \/ ReceiveStop \/ Terminate \/ TestTraffic
           \/ UNCHANGED vars
  <2>1. UNCHANGED <<worker, queue, ip, pending, cache>>
    BY <1>6 DEF ListFails, CollectFails, PublishWrite, Flush, RetrySnapshot, RetryFails,
      RetryPanics, RetryWrite, Tick, FinalPersist, FinalWrite, Exit, MainLocks,
      PollProcesses, Collect, Publish, Shutdown, ReceiveStop, Terminate, vars,
      TestTraffic, LoopDrives, LoopRests, LoopEnds, others, lookups, memory
  <2>2. UNCHANGED lookupVars
    BY <2>1 DEF lookupVars, InFlight
  <2> QED BY <2>2, LookupFrame
<1> QED BY <1>1, <1>2, <1>3, <1>4, <1>5, <1>6 DEF Next, MainRuns, WorkerRuns, Done

\* lookupPending is exact and no host is ever looked up twice at a time, for
\* every channel capacity and whatever fails.
THEOREM LookupsExact == Spec => []LookupOnce
<1>1. Init => LookupOnce
  BY HostAssumption DEF Init, LookupOnce, InFlight
<1>2. TypeOK /\ LookupOnce /\ [Next]_vars => LookupOnce'
  BY LookupStep
<1> QED BY <1>1, <1>2, TypeCorrect, PTL DEF Spec

-----------------------------------------------------------------------------
(***************************************************************************)
(* NamesAgree and the refinement of Resolution.                            *)
(***************************************************************************)
LEMMA NamesStep == TypeOK /\ NamesAgree /\ [Next]_vars => NamesAgree'
<1> SUFFICES ASSUME TypeOK, NamesAgree, [Next]_vars PROVE NamesAgree'
  OBVIOUS
<1>1. ASSUME NEW k \in Keys, Observe(k) PROVE NamesAgree'
  <2>1. k[2] \in Hosts
    BY KeyHost
  <2>2. cache' = cache
    BY <1>1 DEF Observe
  <2>3. ASSUME NEW h \in Hosts PROVE domains'[h] \in {Untracked, cache'[h]}
    BY <1>1, <2>1, <2>2 DEF Observe, TypeOK, NamesAgree
  <2>4. ASSUME NEW c \in Keys PROVE conns'[c] \in {Untracked, cache'[c[2]]}
    BY <1>1, <2>2 DEF Observe, TypeOK, NamesAgree
  <2> QED BY <2>3, <2>4 DEF NamesAgree
<1>2. CASE Evict
  BY <1>2 DEF Evict, NamesAgree
<1>3. CASE Update
  <2> PICK n \in Shown :
        /\ cache' = [cache EXCEPT ![ip] = n]
        /\ domains' = [domains EXCEPT ![ip] = IF @ = Untracked THEN @ ELSE n]
        /\ conns' = [k \in Keys |-> IF k[2] = ip /\ conns[k] # Untracked
                                      THEN n ELSE conns[k]]
    BY <1>3 DEF Update, Learn
  <2>1. ASSUME NEW h \in Hosts PROVE domains'[h] \in {Untracked, cache'[h]}
    BY DEF TypeOK, NamesAgree
  <2>2. ASSUME NEW c \in Keys PROVE conns'[c] \in {Untracked, cache'[c[2]]}
    <3>1. c[2] \in Hosts
      BY KeyHost
    <3> QED BY <3>1 DEF TypeOK, NamesAgree
  <2> QED BY <2>1, <2>2 DEF NamesAgree
<1>4. CASE \/ ListFails \/ CollectFails \/ PublishWrite \/ Flush \/ RetrySnapshot
           \/ RetryFails \/ RetryPanics \/ RetryWrite \/ Tick \/ FinalPersist
           \/ FinalWrite \/ Exit \/ MainLocks \/ ReceiveStop \/ Terminate \/ TestTraffic
           \/ Receive \/ WorkerLock \/ WorkerWrite \/ UNCHANGED vars
  <2>1. UNCHANGED <<cache, domains, conns>>
    BY <1>4 DEF ListFails, CollectFails, PublishWrite, Flush, RetrySnapshot, RetryFails,
      RetryPanics, RetryWrite, Tick, FinalPersist, FinalWrite, Exit, MainLocks,
      PollProcesses, Collect, Publish, Shutdown, ReceiveStop, Terminate, Receive,
      WorkerLock, WorkerWrite, TestTraffic, LoopDrives, LoopRests, LoopEnds, others, vars,
      memory
  <2> QED BY <2>1 DEF NamesAgree
<1> QED BY <1>1, <1>2, <1>3, <1>4 DEF Next, MainRuns, WorkerRuns, Done

\* Domains, connections and the cache never disagree about a name.
THEOREM NamesCorrect == Spec => []NamesAgree
<1>1. Init => NamesAgree
  BY DEF Init, NamesAgree
<1> QED BY <1>1, NamesStep, TypeCorrect, PTL DEF Spec

LEMMA ResolutionInit == Init => Resolved!Init
  BY DEF Init, Resolved!Init

LEMMA ResolutionStep ==
  TypeOK /\ LookupOnce /\ [Next]_vars => [Resolved!Next]_(Resolved!vars)
<1> SUFFICES ASSUME TypeOK, LookupOnce, [Next]_vars
             PROVE  [Resolved!Next]_(Resolved!vars)
  OBVIOUS
<1>1. ASSUME NEW k \in Keys, Observe(k) PROVE [Resolved!Next]_(Resolved!vars)
  <2>1. k[2] \in Hosts /\ cache' = cache
    BY <1>1, KeyHost DEF Observe
  <2>2. Resolved!Ask(k[2]) \/ UNCHANGED <<pending, cache>>
    BY <1>1, <2>1 DEF Observe, RequestLookup, Wanted, Resolved!Ask
  <2> QED BY <2>1, <2>2 DEF Resolved!Next, Resolved!vars
<1>2. CASE Update
  <2>1. ip \in Hosts /\ ip \in pending
    BY <1>2 DEF TypeOK, Update, Learn, LookupOnce, InFlight
  <2>2. Resolved!Answer(ip)
    BY <1>2, <2>1 DEF Update, Learn, Shown, Resolved!Answer
  <2> QED BY <2>1, <2>2 DEF Resolved!Next
<1>3. CASE \/ ListFails \/ CollectFails \/ PublishWrite \/ Flush \/ RetrySnapshot
           \/ RetryFails \/ RetryPanics \/ RetryWrite \/ Tick \/ FinalPersist
           \/ FinalWrite \/ Exit \/ MainLocks \/ ReceiveStop \/ Terminate \/ TestTraffic
           \/ Evict \/ Receive \/ WorkerLock \/ WorkerWrite \/ UNCHANGED vars
  <2>1. UNCHANGED <<pending, cache>>
    BY <1>3 DEF ListFails, CollectFails, PublishWrite, Flush, RetrySnapshot, RetryFails,
      RetryPanics, RetryWrite, Tick, FinalPersist, FinalWrite, Exit, MainLocks,
      PollProcesses, Collect, Publish, Shutdown, ReceiveStop, Terminate, Evict,
      Receive, WorkerLock, WorkerWrite, TestTraffic, LoopDrives, LoopRests, LoopEnds,
      others, vars, memory
  <2> QED BY <2>1 DEF Resolved!vars
<1> QED BY <1>1, <1>2, <1>3 DEF Next, MainRuns, WorkerRuns, Done

\* The channel, the pending set, the worker and the cache together implement
\* the abstract resolution cache: at most one question per host at a time, and
\* a name once found is kept.
THEOREM ImplementsResolution == Spec => ResolutionSpec
<1>1. TypeOK /\ LookupOnce /\ [Next]_vars => [Resolved!Next]_(Resolved!vars)
  BY ResolutionStep
<1> QED
  BY <1>1, ResolutionInit, TypeCorrect, LookupsExact, PTL
     DEF Spec, ResolutionSpec, Resolved!Spec

-----------------------------------------------------------------------------
(***************************************************************************)
(* The summary file.  When the process list can be read and the file can   *)
(* be written, the persist outside the mutex never happens; then the mutex  *)
(* keeps the writers of the file apart, and whoever releases it last has    *)
(* written the summary of the memory.                                       *)
(***************************************************************************)
DiskSafe ==
  /\ LockHeld
  /\ main \notin {"retry", "rewrite"}
  /\ main \in {"stopping", "closing", "closewrite"} => ~Serving
  /\ Alive /\ (main \in {"write", "closewrite"} \/ worker = "write") => disk = Empty
  /\ Alive /\ (Serving \/ main = "flush") /\ disk \notin Summaries => main = "write" \/ worker = "write"
  /\ Alive /\ main = "flush" /\ mu = "free" => disk = CurrentSummary(TRUE)
  /\ main # "flushbad"
  /\ DiskCurrent

SoundDisk == "list" \notin Faults /\ "write" \notin Faults

\* Steps of the main goroutine that write the file.
LEMMA DiskMainWrites ==
  ASSUME SoundDisk, TypeOK, DiskSafe, Publish \/ PublishWrite \/ FinalPersist \/ FinalWrite
  PROVE  DiskSafe'
<1>1. CASE Publish
  BY <1>1 DEF SoundDisk, DiskSafe, Publish, Opens, OpenFails, LockHeld, DiskCurrent, Alive,
     Serving, TypeOK, lookups
<1>2. CASE PublishWrite
  <2>1. disk' = CurrentSummary(TRUE) /\ main' = "flush"
    BY <1>2 DEF SoundDisk, DiskSafe, PublishWrite, Writes, WriteFails, Alive
  <2>2. CurrentSummary(TRUE)' = CurrentSummary(TRUE)
    BY <1>2, SummaryFrame DEF PublishWrite, memory, polling
  <2>3. CurrentSummary(TRUE) \in Summaries
    BY SummaryType
  <2> QED BY <1>2, <2>1, <2>2, <2>3 DEF DiskSafe, PublishWrite, LockHeld, DiskCurrent, Alive,
          Serving, TypeOK, lookups
<1>3. CASE FinalPersist
  BY <1>3 DEF SoundDisk, DiskSafe, FinalPersist, Opens, OpenFails, LockHeld, DiskCurrent, Alive,
     Serving, TypeOK, lookups
<1>4. CASE FinalWrite
  <2>1. disk' = CurrentSummary(FALSE)
    BY <1>4 DEF SoundDisk, DiskSafe, FinalWrite, Writes, WriteFails, Alive
  <2>2. CurrentSummary(FALSE) \in Summaries
    BY SummaryType
  <2> QED BY <1>4, <2>1, <2>2 DEF DiskSafe, FinalWrite, LockHeld, DiskCurrent, Alive,
          Serving, TypeOK, lookups
<1> QED BY <1>1, <1>2, <1>3, <1>4

\* Steps of the worker.  What it writes lists the processes of the table.
LEMMA DiskWorker ==
  ASSUME SoundDisk, TypeOK, DiskSafe, Receive \/ WorkerLock \/ Update \/ WorkerWrite
  PROVE  DiskSafe'
<1>1. CASE Receive \/ WorkerLock
  <2>1. /\ UNCHANGED <<polls, domains, conns, procs, main, sig, disk>>
        /\ mu' = "free" => mu = "free"
        /\ worker' = "write" <=> worker = "write"
        /\ worker' \in {"update", "write"} => mu' = "worker"
        /\ LockHeld'
    BY <1>1 DEF Receive, WorkerLock, memory, polling, DiskSafe, LockHeld, Alive
  <2>2. CurrentSummary(TRUE)' = CurrentSummary(TRUE) /\ \A x : SummaryWith(TRUE, x)' = SummaryWith(TRUE, x)
    BY <2>1, SummaryFrame
  <2> QED BY <2>1, <2>2 DEF DiskSafe, DiskCurrent, Alive, Serving
<1>2. CASE Update
  <2>1. disk' = Empty /\ worker' = "write" /\ UNCHANGED <<main, mu, sig>>
    BY <1>2 DEF SoundDisk, Update, Learn, Opens, OpenFails
  <2>2. mu = "worker" /\ main \notin {"write", "closewrite"}
    BY <1>2 DEF DiskSafe, LockHeld, Update, Learn, Alive
  <2> QED BY <2>1, <2>2 DEF DiskSafe, LockHeld, DiskCurrent, Alive, Serving
<1>3. CASE WorkerWrite
  <2>1. disk' = CurrentSummary(TRUE)
    BY <1>3 DEF SoundDisk, DiskSafe, WorkerWrite, Writes, WriteFails, Alive
  <2>2. CurrentSummary(TRUE)' = CurrentSummary(TRUE)
    BY <1>3, SummaryFrame DEF WorkerWrite, memory, polling
  <2>3. CurrentSummary(TRUE) \in Summaries
    BY SummaryType
  <2>4. disk' = SummaryWith(TRUE, procs)' /\ procs' \in Readings \cup {NoProcesses}
    BY <1>3, <2>1, <2>2 DEF CurrentSummary, WorkerWrite, polling, TypeOK
  <2> QED BY <1>3, <2>1, <2>2, <2>3, <2>4 DEF DiskSafe, WorkerWrite, LockHeld, DiskCurrent, Alive,
          Serving
<1> QED BY <1>1, <1>2, <1>3

\* The poll lists the processes: what was current now has the processes of the
\* poll before.
LEMMA DiskPollProcesses == ASSUME TypeOK, DiskSafe, PollProcesses PROVE DiskSafe'
<1>1. \A x : SummaryWith(TRUE, x)' = SummaryWith(TRUE, x)
  BY SummaryFrame DEF PollProcesses, memory
<1>2. Serving' => \E old \in Readings \cup {NoProcesses} : disk' = SummaryWith(TRUE, old)'
  BY <1>1 DEF PollProcesses, DiskSafe, DiskCurrent, Serving, CurrentSummary, TypeOK
<1> QED BY <1>2 DEF PollProcesses, DiskSafe, LockHeld, DiskCurrent, Alive, Serving, lookups

LEMMA DiskStep == SoundDisk /\ TypeOK /\ DiskSafe /\ [Next]_vars => DiskSafe'
<1> SUFFICES ASSUME SoundDisk, TypeOK, DiskSafe, [Next]_vars PROVE DiskSafe'
  OBVIOUS
<1>1. CASE Publish \/ PublishWrite \/ FinalPersist \/ FinalWrite
  BY <1>1, DiskMainWrites
<1>2. CASE Receive \/ WorkerLock \/ Update \/ WorkerWrite
  BY <1>2, DiskWorker
<1>3. ~(ListFails \/ RetrySnapshot \/ RetryFails \/ RetryPanics \/ RetryWrite)
  BY DEF SoundDisk, DiskSafe, ListFails, RetrySnapshot, RetryFails, RetryPanics, RetryWrite
<1>4. ASSUME NEW k \in Keys, Observe(k) PROVE DiskSafe'
  BY <1>4 DEF Observe, DiskSafe, LockHeld, DiskCurrent, Alive, Serving
<1>5. CASE Evict
  BY <1>5 DEF Evict, DiskSafe, LockHeld, DiskCurrent, Alive, Serving, lookups
<1>6. CASE Collect
  BY <1>6 DEF Collect, DiskSafe, LockHeld, DiskCurrent, Alive, Serving, lookups
<1>7. CASE Shutdown \/ Exit \/ ReceiveStop
  BY <1>7 DEF Shutdown, Exit, ReceiveStop, DiskSafe, LockHeld, DiskCurrent, Alive, Serving, lookups
<1>8. CASE PollProcesses
  BY <1>8, DiskPollProcesses
<1>9. CASE Flush \/ CollectFails \/ Tick \/ Terminate \/ TestTraffic \/ UNCHANGED vars
  <2>1. UNCHANGED <<polls, domains, conns, procs, disk, worker, mu>>
    BY <1>9 DEF Flush, CollectFails, Tick, Terminate, TestTraffic, LoopDrives,
      LoopRests, LoopEnds, others, vars, lookups, memory, polling
  <2>2. CurrentSummary(TRUE)' = CurrentSummary(TRUE) /\ \A x : SummaryWith(TRUE, x)' = SummaryWith(TRUE, x)
    BY <2>1, SummaryFrame
  <2>3. CASE Flush
    BY <2>1, <2>2, <2>3 DEF Flush, AfterSuccess, DiskSafe, LockHeld, DiskCurrent, Alive, Serving, Booting
  <2>4. CASE CollectFails \/ Tick \/ Terminate
    BY <2>1, <2>2, <2>4 DEF CollectFails, Tick, Terminate, DiskSafe, LockHeld, DiskCurrent, Alive, Serving
  <2>5. CASE TestTraffic \/ UNCHANGED vars
    <3>1. UNCHANGED <<main, sig>>
      BY <2>5 DEF TestTraffic, LoopDrives, LoopRests, LoopEnds, others, vars
    <3> QED BY <2>1, <2>2, <3>1 DEF DiskSafe, LockHeld, DiskCurrent, Alive, Serving
  <2> QED BY <1>9, <2>3, <2>4, <2>5
<1> QED BY <1>1, <1>2, <1>3, <1>4, <1>5, <1>6, <1>7, <1>8, <1>9
        DEF Next, MainRuns, MainLocks, WorkerRuns, Done

LEMMA DiskIsSafe == ASSUME SoundDisk PROVE Spec => []DiskSafe
<1>1. Init => DiskSafe
  BY DEF Init, DiskSafe, LockHeld, DiskCurrent, Alive, Serving
<1>2. TypeOK /\ DiskSafe /\ [Next]_vars => DiskSafe'
  BY DiskStep
<1> QED BY <1>1, <1>2, TypeCorrect, PTL DEF Spec

\* Without a failing process list or a failing write, summary.json between polls
\* is the summary of the memory, whatever the worker did in between.
THEOREM DiskCorrect == ASSUME SoundDisk PROVE Spec => []DiskCurrent
<1>1. DiskSafe => DiskCurrent
  BY DEF DiskSafe
<1> QED BY <1>1, DiskIsSafe, PTL

\* Nor is it ever left truncated or mixed when the mutex is free.
THEOREM DiskWhole == ASSUME SoundDisk PROVE Spec => []DiskConsistent
<1>1. DiskSafe => DiskConsistent
  BY DEF DiskSafe, DiskConsistent, LockHeld
<1> QED BY <1>1, DiskIsSafe, PTL

-----------------------------------------------------------------------------
(***************************************************************************)
(* The mutex, and the file while the poll persists, whatever fails.  The    *)
(* mutex keeps the worker out between the two halves of the poll's write,   *)
(* and the main goroutine does not persist without it meanwhile.            *)
(***************************************************************************)
Guarded == LockHeld /\ (main = "write" => disk = Empty)

LEMMA GuardedMain ==
  ASSUME TypeOK, Guarded, MainRuns \/ MainLocks \/ ReceiveStop
  PROVE  Guarded'
<1> USE DEF Guarded, LockHeld, Alive, TypeOK
<1>1. CASE ListFails \/ PollProcesses \/ CollectFails \/ Collect
  BY <1>1 DEF ListFails, AfterError, PollProcesses, CollectFails, Collect, lookups
<1>2. CASE (\E k \in Keys : Observe(k)) \/ Evict
  BY <1>2 DEF Observe, Evict, lookups
<1>3. CASE Publish
  BY <1>3 DEF Publish, Opens, OpenFails, lookups
<1>4. CASE PublishWrite \/ Flush
  BY <1>4 DEF PublishWrite, Flush, AfterError, AfterSuccess, lookups
<1>5. CASE RetrySnapshot \/ RetryFails \/ RetryPanics \/ RetryWrite \/ Tick
  BY <1>5 DEF RetrySnapshot, RetryFails, RetryPanics, RetryWrite, Tick, lookups
<1>6. CASE ReceiveStop \/ Shutdown
  BY <1>6 DEF ReceiveStop, Shutdown, lookups
<1>7. CASE FinalPersist \/ FinalWrite \/ Exit
  BY <1>7 DEF FinalPersist, FinalWrite, Exit, lookups
<1> QED BY <1>1, <1>2, <1>3, <1>4, <1>5, <1>6, <1>7 DEF MainRuns, MainLocks

LEMMA GuardedStep == TypeOK /\ Guarded /\ [Next]_vars => Guarded'
<1> SUFFICES ASSUME TypeOK, Guarded, [Next]_vars PROVE Guarded'
  OBVIOUS
<1>1. CASE MainRuns \/ MainLocks \/ ReceiveStop
  BY <1>1, GuardedMain
<1>2. CASE Receive \/ WorkerLock
  BY <1>2 DEF Receive, WorkerLock, Guarded, LockHeld, Alive
<1>3. CASE Update
  <2>1. mu = "worker" /\ main # "write" /\ main' = main
    BY <1>3 DEF Update, Learn, Guarded, LockHeld, Alive
  <2> QED BY <1>3, <2>1 DEF Update, Learn, Guarded, LockHeld, Alive
<1>4. CASE WorkerWrite
  <2>1. mu = "worker" /\ main # "write" /\ main' = main
    BY <1>4 DEF WorkerWrite, Guarded, LockHeld, Alive
  <2> QED BY <1>4, <2>1 DEF WorkerWrite, Guarded, LockHeld, Alive
<1>5. CASE TestTraffic
  BY <1>5 DEF TestTraffic, LoopDrives, LoopRests, LoopEnds, others, lookups, Guarded, LockHeld, Alive
<1>6. CASE Terminate \/ UNCHANGED vars
  BY <1>6 DEF Terminate, vars, lookups, Guarded, LockHeld, Alive
<1> QED BY <1>1, <1>2, <1>3, <1>4, <1>5, <1>6 DEF Next, WorkerRuns, Done

\* The mutex is held by the goroutine that is in a critical section, and by
\* nobody else, for every fault and every interleaving.
THEOREM MutexHeld == Spec => []LockHeld
<1>1. Init => Guarded
  BY DEF Init, Guarded, LockHeld, Alive
<1>2. Guarded => LockHeld
  BY DEF Guarded
<1> QED BY <1>1, <1>2, GuardedStep, TypeCorrect, PTL DEF Spec

\* A poll that succeeds leaves the summary of the memory in summary.json, for
\* every fault before it.
THEOREM PollsRepair == Spec => PollRepairs
<1>1. Init => Guarded
  BY DEF Init, Guarded, LockHeld, Alive
<1>2. ASSUME TypeOK, Guarded, [Next]_vars
      PROVE  [main = "write" /\ main' = "flush" => disk' = CurrentSummary(TRUE)']_vars
  <2>1. SUFFICES ASSUME main = "write", main' = "flush"
                 PROVE  disk' = CurrentSummary(TRUE)'
    OBVIOUS
  <2>2. PublishWrite
    <3>1. ~(WorkerRuns \/ WorkerLock \/ TestTraffic)
      BY <2>1 DEF WorkerRuns, WorkerLock, Receive, Update, Learn, WorkerWrite, TestTraffic,
        LoopDrives, LoopRests, LoopEnds, others
    <3>2. ~(MainLocks \/ ReceiveStop \/ Terminate \/ UNCHANGED vars)
      BY <2>1 DEF MainLocks, PollProcesses, Collect, Publish, Shutdown, ReceiveStop, Terminate, vars
    <3>3. \/ ListFails \/ CollectFails \/ \E k \in Keys : Observe(k)
          \/ Evict \/ PublishWrite \/ Flush \/ RetrySnapshot \/ RetryFails
          \/ RetryPanics \/ RetryWrite \/ Tick \/ FinalPersist \/ FinalWrite \/ Exit
      BY <1>2, <2>1, <3>1, <3>2 DEF Next, MainRuns, Done, Alive
    <3> QED BY <2>1, <3>3 DEF ListFails, CollectFails, Observe, Evict, Flush, RetrySnapshot, RetryFails,
          RetryPanics, RetryWrite, Tick, FinalPersist, FinalWrite, Exit
  <2>3. disk' \in {CurrentSummary(TRUE)}
    BY <1>2, <2>1, <2>2 DEF PublishWrite, Writes, AfterError, Guarded
  <2>4. CurrentSummary(TRUE)' = CurrentSummary(TRUE)
    BY <2>2, SummaryFrame DEF PublishWrite, memory, polling
  <2> QED BY <2>3, <2>4
<1> QED BY <1>1, <1>2, GuardedStep, TypeCorrect, PTL DEF Spec, PollRepairs

-----------------------------------------------------------------------------
(***************************************************************************)
(* The names of the upload.  The poll records them with the mutex held, so  *)
(* they are still those of the cache when it has recorded them all; a name  *)
(* changes from none to some and never again, so what the window keeps is   *)
(* none or the name.                                                        *)
(***************************************************************************)
UploadInv == UploadNames /\ (todo # batch => main \in {"observe", "killed"})

LEMMA UploadObserve == ASSUME TypeOK, UploadInv, NEW k \in Keys, Observe(k) PROVE UploadNames'
<1>1. k[2] \in Hosts /\ cache' = cache /\ batch' = batch /\ todo' = todo \ {k}
  BY KeyHost DEF Observe
<1>2. CASE ~Uploading
  BY <1>1, <1>2 DEF Observe, RecordNames, UploadInv, UploadNames
<1>3. CASE Uploading
  <2>1. \A h \in Hosts : /\ window'.domains[h] = IF h = k[2] THEN cache[h] ELSE window.domains[h]
                         /\ domains'[h] = IF h = k[2] THEN cache[h] ELSE domains[h]
    BY <1>3 DEF Observe, RecordNames, TypeOK, Windows
  <2>2. \A c \in Keys : /\ window'.conns[c] = IF c = k THEN cache[k[2]] ELSE window.conns[c]
                        /\ conns'[c] = IF c = k THEN cache[k[2]] ELSE conns[c]
    BY <1>3 DEF Observe, RecordNames, TypeOK, Windows
  <2>3. cache[k[2]] \in Shown /\ cache[k[2]] # Untracked
    BY <1>1, NameAssumption DEF TypeOK, Shown
  <2>4. \A h \in Hosts : window'.domains[h] \in {Untracked, NoName, cache'[h]}
    BY <1>1, <2>1 DEF UploadInv, UploadNames
  <2>5. ASSUME NEW c \in Keys
        PROVE  /\ window'.conns[c] \in {Untracked, NoName, window'.domains[c[2]]}
               /\ window'.conns[c] # Untracked => window'.domains[c[2]] # Untracked
    <3>1. c[2] \in Hosts
      BY KeyHost
    <3>2. CASE c = k
      BY <1>1, <2>1, <2>2, <2>3, <3>2
    <3>3. CASE c # k
      BY <1>1, <2>1, <2>2, <2>3, <3>1, <3>3 DEF UploadInv, UploadNames
    <3> QED BY <3>2, <3>3
  <2>6. ASSUME NEW c \in batch' \ todo', c \in Keys
        PROVE  window'.domains[c[2]] = domains'[c[2]] /\ window'.conns[c] = conns'[c]
    <3>1. c[2] \in Hosts
      BY <2>6, KeyHost
    <3>2. CASE c = k
      BY <1>1, <2>1, <2>2, <3>2
    <3>3. CASE c # k
      BY <1>1, <1>3, <2>1, <2>2, <2>6, <3>1, <3>3 DEF UploadInv, UploadNames
    <3> QED BY <3>2, <3>3
  <2> QED BY <2>4, <2>5, <2>6 DEF UploadNames
<1> QED BY <1>2, <1>3

\* The window is kept or emptied once the observations are recorded.
LEMMA UploadFlush == ASSUME UploadInv, Flushes, UNCHANGED <<cache, todo, batch>>,
                            main \in {"flush", "flushbad", "stopping"}
                     PROVE  UploadNames'
<1>1. batch' \ todo' = {}
  BY DEF UploadInv
<1>2. CASE window' = window
  BY <1>1, <1>2 DEF UploadInv, UploadNames
<1>3. CASE window' = EmptyWindow
  BY <1>1, <1>3, KeyHost DEF EmptyWindow, UploadNames
<1> QED BY <1>2, <1>3 DEF Flushes

\* The host that is answered had no name, so the window has none for it.
LEMMA UploadUpdate == ASSUME TypeOK, LookupOnce, LockHeld, UploadInv, Update PROVE UploadNames'
<1>1. ip \in Hosts /\ cache[ip] = NoName
  BY DEF TypeOK, LookupOnce, InFlight, Update
<1>2. \A h \in Hosts : h # ip => cache'[h] = cache[h]
  BY DEF TypeOK, Update, Learn
<1>3. batch \ todo = {} /\ UNCHANGED <<window, todo, batch>>
  BY DEF UploadInv, Update, LockHeld, Alive, polling
<1>4. \A h \in Hosts : window.domains[h] \in {Untracked, NoName, cache'[h]}
  BY <1>1, <1>2 DEF UploadInv, UploadNames
<1> QED BY <1>3, <1>4 DEF UploadInv, UploadNames

LEMMA UploadStep == TypeOK /\ LookupOnce /\ LockHeld /\ UploadInv /\ [Next]_vars => UploadInv'
<1> SUFFICES ASSUME TypeOK, LookupOnce, LockHeld, UploadInv, [Next]_vars PROVE UploadInv'
  OBVIOUS
<1>1. ASSUME NEW k \in Keys, Observe(k) PROVE UploadInv'
  <2>1. UploadNames'
    BY <1>1, UploadObserve
  <2> QED BY <1>1, <2>1 DEF Observe, UploadInv
<1>2. CASE Flush \/ Shutdown
  <2>1. UploadNames'
    BY <1>2, UploadFlush DEF Flush, Shutdown, memory
  <2> QED BY <1>2, <2>1 DEF Flush, Shutdown, UploadInv
<1>3. CASE Update
  <2>1. UploadNames'
    BY <1>3, UploadUpdate
  <2> QED BY <1>3, <2>1 DEF Update, Learn, UploadInv, polling
<1>4. CASE Collect \/ Evict
  <2>1. UNCHANGED <<cache, window>> /\ batch' \ todo' = {} /\ todo' = batch'
    BY <1>4 DEF Collect, Evict, memory
  <2> QED BY <2>1 DEF UploadInv, UploadNames
<1>5. CASE \/ ListFails \/ CollectFails \/ PublishWrite \/ RetrySnapshot
           \/ RetryFails \/ RetryPanics \/ RetryWrite \/ Tick \/ FinalPersist
           \/ FinalWrite \/ Exit \/ PollProcesses \/ Publish \/ ReceiveStop
  <2>1. UNCHANGED <<cache, domains, conns, window, todo, batch>> /\ main # "observe"
    BY <1>5 DEF ListFails, CollectFails, PublishWrite, RetrySnapshot,
      RetryFails, RetryPanics, RetryWrite, Tick, FinalPersist, FinalWrite, Exit, PollProcesses,
      Publish, ReceiveStop, memory, polling
  <2>2. main # "killed"
    BY <1>5 DEF ListFails, CollectFails, PublishWrite, RetrySnapshot,
      RetryFails, RetryPanics, RetryWrite, Tick, FinalPersist, FinalWrite, Exit, PollProcesses,
      Publish, ReceiveStop
  <2> QED BY <2>1, <2>2 DEF UploadInv, UploadNames
<1>6. CASE Receive \/ WorkerLock \/ WorkerWrite \/ TestTraffic \/ Terminate \/ UNCHANGED vars
  <2>1. UNCHANGED <<cache, domains, conns, window, todo, batch>> /\ main' \in {main, "killed"}
    BY <1>6 DEF Receive, WorkerLock, WorkerWrite, TestTraffic, LoopDrives, LoopRests, LoopEnds,
      others, Terminate, vars, memory, polling
  <2> QED BY <2>1 DEF UploadInv, UploadNames
<1> QED BY <1>1, <1>2, <1>3, <1>4, <1>5, <1>6 DEF Next, MainRuns, MainLocks, WorkerRuns, Done

\* An upload gives a host one name at most, the one it was found to have: for
\* every fault, every interleaving and every upload that fails.
THEOREM UploadNamesCorrect == Spec => []UploadNames
<1>1. Init => UploadInv
  BY KeyHost DEF Init, EmptyWindow, UploadInv, UploadNames
<1>2. UploadInv => UploadNames
  BY DEF UploadInv
<1> QED BY <1>1, <1>2, UploadStep, TypeCorrect, LookupsExact, MutexHeld, PTL DEF Spec
=============================================================================
