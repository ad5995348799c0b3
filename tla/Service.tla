------------------------------ MODULE Service ------------------------------
(***************************************************************************)
(* The daemon of dialtone-watcher (internal/watcher/watcher.go): the main  *)
(* goroutine that polls every five seconds, the reverse-lookup worker      *)
(* goroutine (internal/watcher/resolver.go), the mutex, the channel and    *)
(* the summary file they share, and the SIGTERM that stops the daemon.     *)
(*                                                                         *)
(* Steps are as large as the code lets nobody look inside: a critical      *)
(* section that touches memory only is one step; one that also writes the  *)
(* file is split at the write, because os.WriteFile truncates and then     *)
(* writes, and at each send to the channel, because the worker receives    *)
(* without the mutex.  Of the process table and of the upload's window,    *)
(* which only the main goroutine touches, this module keeps what others    *)
(* see of them: the processes that a summary lists, and the names that an  *)
(* upload gives.  Left out are the process name of a connection and the    *)
(* counters of the records, which change only where the records do.        *)
(***************************************************************************)
EXTENDS Naturals, Sequences, FiniteSets

CONSTANTS Hosts,      \* remote endpoints an observation may name
          PublicIPs,  \* those isPublicIP holds of: only they are looked up
          Owners,     \* pid|protocol pairs; with a host they key a connection
          Names,      \* names a lookup may return
          Numeric,    \* those among them that are public addresses themselves
          NoName,     \* the empty display name
          Untracked,  \* no record in s.domains or s.connections
          Absent,     \* summary.json does not exist
          Empty,      \* summary.json is truncated, its bytes not yet written
          Garbled,    \* summary.json encodes no single consistent summary
          QueueCap,   \* capacity of the lookup channel (256 in the code)
          TestLoops,  \* goroutines of the test traffic
          PollLimit,  \* poll counts are taken modulo this (2^64 in the code)
          Readings,   \* what a summary may list of the processes of one poll
          NoProcesses, \* what it lists before the first
          Uploading,  \* whether there is an uploader (s.uploader # nil)
          Faults      \* what may fail: "list", "net", "write"

ASSUME HostAssumption == PublicIPs \subseteq Hosts
ASSUME NameAssumption == /\ NoName \notin Names
                         /\ Untracked \notin Names \cup {NoName}
                         /\ Numeric \subseteq Names
ASSUME LimitAssumption == /\ QueueCap \in Nat
                          /\ PollLimit \in Nat \ {0}
ASSUME UploadAssumption == Uploading \in BOOLEAN
ASSUME FaultAssumption == Faults \subseteq {"list", "net", "write"}

VARIABLES main,       \* where the main goroutine is
          worker,     \* where the worker goroutine is
          mu,         \* holder of s.mu: "free", "main" or "worker"
          sig,        \* SIGTERM: "default" action, "notify" installed, "queued"
          queue,      \* the buffered channel of hosts to look up
          ip,         \* the host the worker received last
          pending,    \* hosts whose lookupPending entry is true
          cache,      \* lookupCache, NoName where there is no ready entry
          domains,    \* display name of each tracked domain
          conns,      \* display name of each tracked connection
          todo,       \* observations of this poll still to be recorded
          batch,      \* all observations of this poll
          procs,      \* s.pids, as a summary lists it
          window,     \* display names in the upload's window
          polls,      \* s.polls
          disk,       \* content of summary.json
          snap,       \* summary computed by the persist outside the mutex
          loops       \* where each goroutine of the test traffic is

vars == <<main, worker, mu, sig, queue, ip, pending, cache, domains, conns,
          todo, batch, procs, window, polls, disk, snap, loops>>

memory   == <<pending, cache, domains, conns>>
lookups  == <<worker, queue, ip>>
polling  == <<todo, batch, procs, window>>

Keys  == Owners \X Hosts
Shown == Names \cup {NoName}

Alive   == main \notin {"exited", "killed"}

\* The signal handler is installed once the first poll has succeeded and until
\* a stop is received; a pollOnce without it is the one at boot.
Serving == sig # "default"
Booting == ~Serving

\* shouldIncludeDomainRecord, shouldIncludeConnectionRecord: a record is
\* listed when it has a name that is no public address, or when its host is a
\* host name (private addresses are not observed).
Included(h, n) == n \in Names \ Numeric \/ (n \in Shown /\ h \notin PublicIPs)

SummaryWith(running, processes) ==
  [running     |-> running,
   polls       |-> polls,
   processes   |-> processes,
   domains     |-> {<<h, domains[h]>> : h \in {g \in Hosts : Included(g, domains[g])}},
   connections |-> {<<k, conns[k]>> : k \in {c \in Keys : Included(c[2], conns[c])}}]

CurrentSummary(running) == SummaryWith(running, procs)

Summaries == [running     : BOOLEAN,
              polls       : 0 .. PollLimit - 1,
              processes   : Readings \cup {NoProcesses},
              domains     : SUBSET (Hosts \X Shown),
              connections : SUBSET (Keys \X Shown)]

\* The upload's window has records of its own, and loses them all at once.
EmptyWindow == [domains |-> [h \in Hosts |-> Untracked],
                conns   |-> [k \in Keys |-> Untracked]]
Windows == [domains : [Hosts -> Shown \cup {Untracked}],
            conns   : [Keys -> Shown \cup {Untracked}]]

\* writeJSONFile.  First half of os.WriteFile: the file is opened and
\* truncated, or (a fault) it cannot be opened and keeps its content.
Opens     == disk' = Empty
OpenFails == "write" \in Faults /\ disk' = disk

\* Second half: the bytes are written, or (a fault) none or some of them.
\* When another writer has put bytes in the file since the truncation the two
\* contents overlap.
Writes(content) ==
  disk' \in {content} \cup (IF disk = Empty THEN {} ELSE {Garbled})
WriteFails == "write" \in Faults /\ disk' \in {disk, Garbled}

-----------------------------------------------------------------------------
Init == /\ main = "list" /\ worker = "recv" /\ mu = "free"
        /\ sig = "default"
        /\ queue = <<>> /\ ip \in Hosts
        /\ pending = {}
        /\ cache = [h \in Hosts |-> NoName]
        /\ domains = [h \in Hosts |-> Untracked]
        /\ conns = [k \in Keys |-> Untracked]
        /\ todo = {} /\ batch = {}
        /\ procs = NoProcesses /\ window = EmptyWindow
        /\ polls = 0
        /\ disk = Absent /\ snap = Absent
        /\ loops = [l \in TestLoops |-> "wait"]

-----------------------------------------------------------------------------
(* The main goroutine: pollOnce *)

\* pollOnce returned an error: fatal at boot, otherwise persist(true) again.
AfterError == main' = IF Booting THEN "drain" ELSE "retry"

\* pollOnce succeeded: at boot the signal handler is installed.
AfterSuccess == /\ main' = "idle"
                /\ sig' = IF Booting THEN "notify" ELSE sig

ListFails == /\ main = "list"
             /\ "list" \in Faults
             /\ AfterError
             /\ UNCHANGED <<lookups, mu, sig, memory, polling, polls, disk, snap, loops>>

\* process.Processes, then pollProcessesLocked in its own critical section: the
\* table changes, and the mutex is free again before anything is persisted.
PollProcesses == /\ main = "list" /\ mu = "free"
                 /\ procs' \in Readings
                 /\ main' = "collect"
                 /\ UNCHANGED <<lookups, mu, sig, memory, todo, batch, window, polls, disk, snap, loops>>

\* collectNetworkSamples fails: the domain section is skipped.
CollectFails == /\ main = "collect"
                /\ "net" \in Faults
                /\ main' = "publish"
                /\ UNCHANGED <<lookups, mu, sig, memory, polling, polls, disk, snap, loops>>

\* collectNetworkSamples, then s.mu.Lock before pollDomainsLocked.
Collect == /\ main = "collect" /\ mu = "free"
           /\ \E obs \in SUBSET Keys : todo' = obs /\ batch' = obs
           /\ mu' = "main" /\ main' = "observe"
           /\ UNCHANGED <<lookups, sig, memory, procs, window, polls, disk, snap, loops>>

\* Mutants: a host with a name is asked for again; a host whose request found
\* the channel full stays pending; a request too many is queued.
WantedAgain(h) == h \in PublicIPs /\ h \notin pending

\* cachedDisplayNameLocked: when the host must be asked for, a send that
\* never blocks; a full channel drops the request.
Wanted(h) == h \in PublicIPs /\ cache[h] = NoName /\ h \notin pending

RequestLookupStuck(h) ==
  /\ pending' = IF Wanted(h) THEN pending \cup {h} ELSE pending
  /\ queue' = IF Wanted(h) /\ Len(queue) < QueueCap THEN Append(queue, h) ELSE queue
RequestLookupOverfull(h) ==
  IF Wanted(h) /\ Len(queue) <= QueueCap
    THEN queue' = Append(queue, h) /\ pending' = pending \cup {h}
    ELSE UNCHANGED <<queue, pending>>

RequestLookup(h) ==
  IF Wanted(h) /\ Len(queue) < QueueCap
    THEN queue' = Append(queue, h) /\ pending' = pending \cup {h}
    ELSE UNCHANGED <<queue, pending>>

\* recordNetwork: the window's records of the observation, made when they are
\* missing, take the name that the cache has now.
RecordNamesOnce(k) ==   \* mutant: an existing record keeps its name
  window' = IF ~Uploading THEN window ELSE
    [domains |-> [window.domains EXCEPT ![k[2]] = IF @ = Untracked THEN cache[k[2]] ELSE @],
     conns   |-> [window.conns EXCEPT ![k] = IF @ = Untracked THEN cache[k[2]] ELSE @]]
RecordNames(k) ==
  window' = IF ~Uploading THEN window ELSE
    [domains |-> [window.domains EXCEPT ![k[2]] = cache[k[2]]],
     conns   |-> [window.conns EXCEPT ![k] = cache[k[2]]]]

\* One iteration of the loop over the observations, in map order.
Observe(k) == /\ main = "observe" /\ k \in todo
              /\ todo' = todo \ {k}
              /\ RequestLookup(k[2])
              /\ domains' = [domains EXCEPT ![k[2]] = cache[k[2]]]
              /\ conns' = [conns EXCEPT ![k] = cache[k[2]]]
              /\ RecordNames(k)
              /\ UNCHANGED <<main, worker, mu, sig, ip, cache, batch, procs, polls, disk, snap, loops>>

\* Records not seen for a minute are deleted; a connection is never seen
\* later than its domain.  Then the mutex is released.
Evict == /\ main = "observe" /\ todo = {}
         /\ \E old \in SUBSET (Keys \ batch), gone \in SUBSET Hosts :
              /\ \A k \in Keys : k[2] \in gone => k \in old
              /\ domains' = [h \in Hosts |-> IF h \in gone THEN Untracked ELSE domains[h]]
              /\ conns' = [k \in Keys |-> IF k \in old THEN Untracked ELSE conns[k]]
         /\ batch' = {}
         /\ mu' = "free" /\ main' = "publish"
         /\ UNCHANGED <<lookups, sig, pending, cache, todo, procs, window, polls, disk, snap, loops>>

\* Mutant: the mutex is released before the summary is persisted.
PublishUnlocked == /\ main = "publish" /\ mu = "free"
                   /\ polls' = (polls + 1) % PollLimit
                   /\ \/ Opens /\ main' = "write"
                      \/ OpenFails /\ main' = "flushbad"
                   /\ UNCHANGED <<lookups, mu, sig, memory, polling, snap, loops>>

\* Last section of pollOnce: count the poll and start to persist.
Publish == /\ main = "publish" /\ mu = "free"
           /\ polls' = (polls + 1) % PollLimit
           /\ \/ Opens /\ mu' = "main" /\ main' = "write"
              \/ OpenFails /\ main' = "flushbad" /\ UNCHANGED mu
           /\ UNCHANGED <<lookups, sig, memory, polling, snap, loops>>

PublishWrite == /\ main = "write"
                /\ mu' = "free"
                /\ \/ Writes(CurrentSummary(TRUE)) /\ main' = "flush"
                   \/ WriteFails /\ main' = "flushbad"
                /\ UNCHANGED <<lookups, sig, memory, polling, polls, snap, loops>>

\* uploader.flush: an upload that is due and is accepted empties the window,
\* and any other leaves it as it is.
Flushes == window' \in {window, EmptyWindow}

\* The flush of pollOnce comes after the mutex is released, whether or not the
\* summary was persisted, whose error pollOnce then returns.
Flush == /\ \/ main = "flush" /\ AfterSuccess
            \/ main = "flushbad" /\ AfterError /\ UNCHANGED sig
         /\ Flushes
         /\ UNCHANGED <<lookups, mu, memory, todo, batch, procs, polls, disk, snap, loops>>

-----------------------------------------------------------------------------
(* The main goroutine: the persist(true) outside the mutex, and the select *)

\* A read of the records while the worker is assigning their names is a data
\* race: the summary may mix old and new names.
RetrySnapshot == /\ main = "retry"
                 /\ snap' \in {CurrentSummary(TRUE)} \cup
                              (IF worker = "update" THEN {Garbled} ELSE {})
                 /\ Opens
                 /\ main' = "rewrite"
                 /\ UNCHANGED <<lookups, mu, sig, memory, polling, polls, loops>>

RetryFails == /\ main = "retry"
              /\ OpenFails
              /\ main' = "idle"
              /\ UNCHANGED <<lookups, mu, sig, memory, polling, polls, snap, loops>>

\* The same race may read a string whose pointer and length do not belong
\* together, and panic.
RetryPanics == /\ main = "retry" /\ worker = "update"
               /\ main' = "killed"
               /\ UNCHANGED <<lookups, mu, sig, memory, polling, polls, disk, snap, loops>>

RetryWrite == /\ main = "rewrite"
              /\ Writes(snap) \/ WriteFails
              /\ snap' = Absent
              /\ main' = "idle"
              /\ UNCHANGED <<lookups, mu, sig, memory, polling, polls, loops>>

Tick == /\ main = "idle"
        /\ main' = "list"
        /\ UNCHANGED <<lookups, mu, sig, memory, polling, polls, disk, snap, loops>>

\* case <-stop: signal.Stop restores the default action of SIGTERM.
ReceiveStop == /\ main = "idle" /\ sig = "queued"
               /\ sig' = "default" /\ main' = "stopping"
               /\ UNCHANGED <<lookups, mu, memory, polling, polls, disk, snap, loops>>

\* shutdown: take the mutex, build the summary, upload it (for as long as the
\* upload timeout allows) with the mutex held.
Shutdown == /\ main = "stopping" /\ mu = "free"
            /\ mu' = "main" /\ main' = "closing"
            /\ Flushes
            /\ UNCHANGED <<lookups, sig, memory, todo, batch, procs, polls, disk, snap, loops>>

\* Mutant: the persist of shutdown takes the mutex that shutdown holds.
FinalPersistLocks == /\ main = "closing" /\ mu = "free"
                     /\ \/ Opens /\ main' = "closewrite" /\ UNCHANGED mu
                        \/ OpenFails /\ main' = "drain" /\ mu' = "free"
                     /\ UNCHANGED <<lookups, sig, memory, polling, polls, snap, loops>>

FinalPersist == /\ main = "closing"
                /\ \/ Opens /\ main' = "closewrite" /\ UNCHANGED mu
                   \/ OpenFails /\ main' = "drain" /\ mu' = "free"
                /\ UNCHANGED <<lookups, sig, memory, polling, polls, snap, loops>>

FinalWrite == /\ main = "closewrite"
              /\ Writes(CurrentSummary(FALSE)) \/ WriteFails
              /\ mu' = "free" /\ main' = "drain"
              /\ UNCHANGED <<lookups, sig, memory, polling, polls, snap, loops>>

\* removeStatus, the deferred stopTestTraffic, which cancels the loops of the
\* test traffic and waits for them, return from main.main: the worker goes with
\* the process, wherever it is.
Exit == /\ main = "drain"
        /\ \A l \in TestLoops : loops[l] = "done"
        /\ main' = "exited"
        /\ UNCHANGED <<lookups, mu, sig, memory, polling, polls, disk, snap, loops>>

-----------------------------------------------------------------------------
(* The reverse-lookup worker *)

Receive == /\ Alive /\ worker = "recv" /\ queue # <<>>
           /\ ip' = Head(queue) /\ queue' = Tail(queue)
           /\ worker' = "lookup"
           /\ UNCHANGED <<main, mu, sig, memory, polling, polls, disk, snap, loops>>

\* Mutant: the worker does not take the mutex.
WorkerBarges == /\ Alive /\ worker = "lookup"
                /\ worker' = "update"
                /\ UNCHANGED <<main, mu, sig, queue, ip, memory, polling, polls, disk, snap, loops>>

\* lookupAddrName has returned; s.mu.Lock.
WorkerLock == /\ Alive /\ worker = "lookup" /\ mu = "free"
              /\ mu' = "worker" /\ worker' = "update"
              /\ UNCHANGED <<main, sig, queue, ip, memory, polling, polls, disk, snap, loops>>

\* The name n goes to the cache and to the records of the host.
LearnDomainsOnly(n) ==   \* mutant
  /\ cache' = [cache EXCEPT ![ip] = n]
  /\ domains' = [domains EXCEPT ![ip] = IF @ = Untracked THEN @ ELSE n]
  /\ UNCHANGED conns
Learn(n) ==
  /\ cache' = [cache EXCEPT ![ip] = n]
  /\ domains' = [domains EXCEPT ![ip] = IF @ = Untracked THEN @ ELSE n]
  /\ conns' = [k \in Keys |-> IF k[2] = ip /\ conns[k] # Untracked THEN n ELSE conns[k]]

\* Mutants: the new names are not persisted; the mutex is released before the
\* file is written.
UpdateUnsaved == /\ Alive /\ worker = "update"
                 /\ pending' = pending \ {ip}
                 /\ \E n \in Shown : Learn(n)
                 /\ worker' = "recv" /\ mu' = "free"
                 /\ UNCHANGED <<main, sig, queue, ip, polling, polls, disk, snap, loops>>
UpdateUnlocks == /\ Alive /\ worker = "update"
                 /\ pending' = pending \ {ip}
                 /\ \E n \in Shown : Learn(n)
                 /\ Opens /\ worker' = "write" /\ mu' = "free"
                 /\ UNCHANGED <<main, sig, queue, ip, polling, polls, snap, loops>>

\* The answer of the lookup is recorded, then the summary is persisted.
Update == /\ Alive /\ worker = "update"
          /\ pending' = pending \ {ip}
          /\ \E n \in Shown : Learn(n)
          /\ \/ Opens /\ worker' = "write" /\ UNCHANGED mu
             \/ OpenFails /\ worker' = "recv" /\ mu' = "free"
          /\ UNCHANGED <<main, sig, queue, ip, polling, polls, snap, loops>>

WorkerWrite == /\ Alive /\ worker = "write"
               /\ Writes(CurrentSummary(TRUE)) \/ WriteFails
               /\ mu' = "free" /\ worker' = "recv"
               /\ UNCHANGED <<main, sig, queue, ip, memory, polling, polls, snap, loops>>

-----------------------------------------------------------------------------
(* The test traffic (test_traffic_linux.go): loops that wait for a timer or the *)
(* context, then drive one connection, query or burst of work                  *)

others == <<main, mu, sig, lookups, memory, polling, polls, disk, snap>>

\* When both are ready select takes either, so a loop may drive once more after
\* the context is done.
LoopDrives(l) == /\ Alive /\ loops[l] = "wait"
                 /\ loops' = [loops EXCEPT ![l] = "drive"]
                 /\ UNCHANGED others

\* Every read, dial and sleep of a round is bounded.
LoopRests(l) == /\ Alive /\ loops[l] = "drive"
                /\ loops' = [loops EXCEPT ![l] = "wait"]
                /\ UNCHANGED others

LoopEnds(l) == /\ main = "drain" /\ loops[l] = "wait"
               /\ loops' = [loops EXCEPT ![l] = "done"]
               /\ UNCHANGED others

TestTraffic == \E l \in TestLoops : LoopDrives(l) \/ LoopRests(l) \/ LoopEnds(l)

-----------------------------------------------------------------------------
(* SIGTERM from the stop command (or SIGINT) *)

Terminate == /\ Alive
             /\ \/ sig = "default" /\ main' = "killed" /\ UNCHANGED sig
                \/ sig = "notify" /\ sig' = "queued" /\ UNCHANGED main
             /\ UNCHANGED <<lookups, mu, memory, polling, polls, disk, snap, loops>>

Done == ~Alive /\ UNCHANGED vars

-----------------------------------------------------------------------------
\* What the main goroutine does between two waits, and where it waits.
MainRuns == \/ ListFails \/ CollectFails \/ \E k \in Keys : Observe(k)
            \/ Evict \/ PublishWrite \/ Flush \/ RetrySnapshot \/ RetryFails
            \/ RetryPanics \/ RetryWrite \/ Tick \/ FinalPersist \/ FinalWrite \/ Exit
MainLocks == PollProcesses \/ Collect \/ Publish \/ Shutdown
WorkerRuns == Receive \/ Update \/ WorkerWrite

Next == MainRuns \/ MainLocks \/ ReceiveStop \/ WorkerRuns \/ WorkerLock
        \/ TestTraffic \/ Terminate \/ Done

\* A goroutine that can run does.  sync.Mutex hands the lock to a waiter that
\* has starved, and select picks among ready cases at random, so a step that
\* waits for either is taken when it is enabled again and again.  What leaves
\* the process ends: the tools, the lookups and the uploads have timeouts.
Fairness == /\ WF_vars(MainRuns) /\ WF_vars(WorkerRuns)
            /\ SF_vars(MainLocks) /\ SF_vars(WorkerLock) /\ SF_vars(ReceiveStop)
            /\ \A l \in TestLoops : WF_vars(LoopRests(l)) /\ SF_vars(LoopEnds(l))

Spec == Init /\ [][Next]_vars
FairSpec == Spec /\ Fairness

-----------------------------------------------------------------------------
(* Properties *)

\* Every variable keeps to its type.
TypeOK == /\ main \in {"list", "collect", "observe", "publish", "write", "flush",
                       "flushbad", "idle", "retry", "rewrite", "stopping",
                       "closing", "closewrite", "drain", "exited", "killed"}
          /\ worker \in {"recv", "lookup", "update", "write"}
          /\ mu \in {"free", "main", "worker"}
          /\ sig \in {"default", "notify", "queued"}
          /\ queue \in Seq(PublicIPs) /\ Len(queue) <= QueueCap
          /\ ip \in Hosts
          /\ pending \in SUBSET PublicIPs
          /\ cache \in [Hosts -> Shown]
          /\ domains \in [Hosts -> Shown \cup {Untracked}]
          /\ conns \in [Keys -> Shown \cup {Untracked}]
          /\ batch \in SUBSET Keys /\ todo \in SUBSET batch
          /\ procs \in Readings \cup {NoProcesses}
          /\ window \in Windows
          /\ polls \in 0 .. PollLimit - 1
          /\ disk \in Summaries \cup {Absent, Empty, Garbled}
          /\ snap \in Summaries \cup {Absent, Garbled}
          /\ loops \in [TestLoops -> {"wait", "drive", "done"}]

\* The mutex is held by whoever is inside a critical section, and by nobody
\* else: main between Lock and Unlock of pollOnce and shutdown, the worker
\* between those of its loop.
LockHeld == /\ Alive => (mu = "main" <=> main \in {"observe", "write", "closing", "closewrite"})
            /\ mu = "worker" <=> worker \in {"update", "write"}

\* The host the worker holds, outside the channel, with its answer to come.
InFlight == IF worker \in {"lookup", "update"} THEN {ip} ELSE {}

\* lookupPending says exactly which hosts wait for an answer, each of them
\* once: in the channel or in the worker's hands, never both, never twice,
\* and never with a name already in the cache (cachedDisplayNameLocked and
\* the worker of resolver.go clear and set the entry in different critical
\* sections, with the channel in between).
LookupOnce == /\ \A i, j \in 1 .. Len(queue) : queue[i] = queue[j] => i = j
              /\ \A i \in 1 .. Len(queue) : queue[i] \notin InFlight
              /\ \A h \in Hosts : h \in pending <=>
                   h \in InFlight \/ \E i \in 1 .. Len(queue) : queue[i] = h
              /\ \A h \in pending : cache[h] = NoName

\* A name is shown the same everywhere: each tracked domain and each tracked
\* connection to it carries what the cache has for the host, whichever of the
\* poll and the worker came last, and after eviction and return.
NamesAgree == /\ \A h \in Hosts : domains[h] \in {Untracked, cache[h]}
              /\ \A k \in Keys : conns[k] \in {Untracked, cache[k[2]]}

\* The names of an upload are those of the summary or missing, never others:
\* no host has two names in one upload, no connection is without its domain,
\* and what was observed in this poll has the name the summary gives it.  A
\* name that comes later reaches the tables at once, and the window only with
\* the next observation.
UploadNames ==
  /\ \A h \in Hosts : window.domains[h] \in {Untracked, NoName, cache[h]}
  /\ \A k \in Keys :
       /\ window.conns[k] \in {Untracked, NoName, window.domains[k[2]]}
       /\ window.conns[k] # Untracked => window.domains[k[2]] # Untracked
       /\ Uploading /\ k \in batch \ todo =>
            window.domains[k[2]] = domains[k[2]] /\ window.conns[k] = conns[k]

\* From the end of a poll until the next one has listed the processes, whenever
\* nobody holds the mutex the summary file is the summary of the memory: the
\* poll's persist and the worker's, in either order, leave the last word to the
\* later.  While the poll then collects, only the processes listed may be those
\* of the poll before.  Nothing is said of the file between the records of the
\* poll and their persist.
DiskCurrent ==
  Serving /\ mu = "free" =>
    /\ main \in {"flush", "idle", "list"} => disk = CurrentSummary(TRUE)
    /\ main = "collect" => \E old \in Readings \cup {NoProcesses} :
                             disk = SummaryWith(TRUE, old)

\* From the first poll to the stop, a reader that comes while nobody holds the mutex
\* finds one consistent summary in the file.
DiskConsistent == Alive /\ Serving /\ mu = "free" => disk \in Summaries

\* A poll that succeeds leaves the summary of the memory in the file, whatever
\* failed before it: what a persist outside the mutex mixed up or left truncated
\* lasts until then and no longer.
PollRepairs ==
  [][main = "write" /\ main' = "flush" => disk' = CurrentSummary(TRUE)']_vars

\* Once the daemon has stopped, summary.json still holds a summary.
StoppedReadable == main = "exited" => disk \in Summaries

\* Lookups implement the resolution cache: a host is asked for at most once at
\* a time, and a name once found is never lost or changed.
Resolved == INSTANCE Resolution WITH asked <- pending, name <- cache
ResolutionSpec == Resolved!Spec

\* Every host that is asked for is answered, though polls keep taking the
\* mutex, unless the daemon ends first.
LookupsFinish == \A h \in Hosts : h \in pending ~> h \notin pending \/ ~Alive

\* A stop signal that has been queued ends the daemon, though ticks keep
\* coming and the worker keeps taking the mutex.
StopEnds == sig = "queued" ~> ~Alive
=============================================================================
