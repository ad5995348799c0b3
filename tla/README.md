# Verification of dialtone-watcher

dialtone-watcher is a background process for Linux and macOS. Every five seconds
it lists the processes of its machine and their network connections, finds names
for the remote addresses, writes a summary to a file and, once per interval,
uploads a rollup to a backend. This directory holds TLA+ models of it, the TLC
configurations that check them on small instances, and proofs of the properties
that matter most, checked by TLAPS. `PROJECT.json` lists the runs, the
source lines each definition stands for, the hazards of the code and the
theorems; this page explains them.

To run everything: `tlc -config ServiceFaults.cfg MCService.tla` for a run (the
table under "The runs" names module and configuration), `tlapm
ServiceProofs.tla` for a file of proofs.

## 1. Inventory

Paths are below `src/`; `watcher/` stands for `internal/watcher/`.

| Component | State | Operations | Modules |
|---|---|---|---|
| Daemon service (`watcher/watcher.go`, `resolver.go`) | `s.mu`, `s.polls`, `s.domains`, `s.connections`, `s.lookupCache`, `s.lookupPending`, the process list of a summary, the names in `u.window`, the lookup channel, `summary.json`, the signal handler | `RunDaemon`, `pollOnce`, `persist`, `shutdown`, the worker loop | Service |
| Reverse lookup cache (part of it) | cache, pending set, channel of 256 | `cachedDisplayNameLocked`, worker | Service, Resolution |
| Test traffic (`test_traffic_linux.go`) | its loops | start, a round, stop and wait | Service |
| Name lookup (`watcher/resolver.go`) | none that outlives a call | `lookupAddrName`, its six sources, candidate choice, normalization | Lookup |
| Summary ranking (`watcher.go`, `upload.go`) | none | the worker's assignment of a name, `topProcesses` and its kin, `allUpload*` | Summary |
| Uploader (`watcher/upload.go`) | `u.window` | `record*`, `incrementPoll`, `shouldUpload`, `flush`, `send`, `resetWindow` | Uploader, Ledger |
| Collectors (`network_linux.go`, `network_darwin.go`, `network_stub.go`, `network.go`) | none; they read the kernel's | `collectNetworkSamples` of each build | Collector |
| Network accounting (`watcher.go`, `upload.go`) | `s.networkSamples`, byte counts of domains and connections, the window's totals | `pollDomainsLocked`, `recordNetwork` | Traffic |
| Process table (`watcher.go`, `upload.go`) | `s.pids`, the window's processes | `pollProcessesLocked`, `recordProcesses` | Processes |
| Command line and lifecycle (`main.go`, `state.go`, `watcher.go`) | `status.json`, the running flag of `summary.json` | `start`, `stop`, `summary`, `__run`, `CleanStaleStatus` | Lifecycle |
| Machine identity (`state.go`) | `machine-id.json` | `MachineID` | Identity |
| Printing, hardware profile | none | | not modelled |

### How they interact

* `start` spawns `__run`, the daemon, as a process of its own session. The two
  share only files: `start` and `stop` look at `status.json`, which only the
  daemon writes, and `stop` sends SIGTERM to the pid it names. The `init` of
  package watcher runs in *every* process, also for `help`, and removes a stale
  status.
* In the daemon the main goroutine polls and selects between ticker and signal;
  one worker goroutine looks names up. They share the maps under `s.mu` and a
  buffered channel, to which the main goroutine sends with the mutex held and
  without blocking. Both write `summary.json`, with `os.WriteFile` (truncate,
  then write), under the mutex, except for the `persist(true)` after a failed
  poll (`watcher.go:111`), which takes no mutex.
* The main goroutine alone owns the byte counters, the process table and the
  uploader. `flush` posts to the backend from inside `pollOnce`, and from
  `shutdown` with the mutex held.
* A poll reads the kernel more than once. On linux `ss` and conntrack are read
  first and the sockets of each process listed afterwards; processes are listed
  first and read afterwards. The machine goes on in between.
* The goroutines of the test traffic share no state with the rest, but
  `RunDaemon` returns only when all of them have ended: seconds after the status
  is gone, the process and the worker in it are still there.
* The summary and the upload have tables of their own, with filters and
  comparisons of their own. The summary's (`s.domains`, `s.connections`) keep a
  record for a minute and are named by the worker as soon as it has a name; the
  upload's (`u.window`) are emptied by each upload and named only when a poll
  records an observation. So a record the summary shows may be missing from an
  upload, and a record named after its last observation is left out of it, while
  its bytes are in the totals.
* The backend is outside the repository. The models assume only that it may
  process a request at any time after it was sent, also one the client gave up
  on, or never.

### What is hard, and what makes each part correct

* **Service.** The interleaving of poll, worker, signal, test traffic and exit. A
  host must be asked for once at a time and be answered; the tracked records of
  a host must all show its name, and an upload no other; the file must hold one consistent and current summary
  after each poll whenever nobody is writing it, and the next poll must repair it after faults;
  a stop must end the daemon.
* **Uploader.** Failed and late requests, crashes, restarts. A payload must hold
  exactly the polls of its period; periods must not overlap except as a retry
  that extends an earlier one, or the backend counts polls twice.
* **Collectors and accounting.** Kernel counters of sockets that close, reopen
  under the same key, are shared by processes, open between the read of the
  counters and the listing, go unlisted, or read as zero; conntrack's flows
  outlive their sockets. No byte may be counted twice and none be lost; the three
  places a byte is added to must agree; records and samples are evicted by three
  loops that must keep step.
* **Process table.** It outlives windows and keeps processes that have ended,
  and a pid changes hands between polls or within one. An upload must not report
  a process in more polls than the window has, nor much longer than it was seen,
  nor under a name that is not from this window or the poll before it.
* **Lifecycle.** Check-then-act on a file across processes, reuse of pids, pid
  namespaces that share a home. There must be one daemon, `stop` must find it
  and hit nothing else, and `summary` must tell whether it runs.
* **Identity.** First calls that overlap, and a crash between truncation and
  write. An identity once settled must stay.
* **Name lookup and ranking.** A loop over a Go map and sorts, none of them
  stable, of lists that come in any order must give one answer; a name must pass
  the filters applied later; with five comparisons and three filters each list
  must hold the busiest of what it may list.

The hazards, with their lines and the properties that cover each, are in
`PROJECT.json`. A few have no property, each with a note saying why.

## 2. Modules

The models are split along what the code lets run in between. Only the main
goroutine touches the counters, the process table and the uploader, so these are
modules of their own, in which the daemon is sequential and the machine
interleaves with its reads; Service has the goroutines, the mutex and the file,
and keeps of those only what others see: the processes that a summary lists,
and the names in the upload's window. Lifecycle and Identity have several processes and only
files. Two modules build on another: Traffic EXTENDS Collector and counts what a
poll observes, Summary EXTENDS Lookup and lists records under the name a lookup
found. The two abstract specifications are instantiated by the detailed ones.

| Module | Stands for | Correspondence |
|---|---|---|
| `Resolution` | what the lookup cache promises | hosts are unknown, asked for, or named |
| `Service` | `watcher.go`, `resolver.go` worker, `test_traffic_linux.go` | `main` and `worker` are the two program counters, `loops` those of the test traffic; `mu` the holder of `s.mu`; `queue` the channel; `pending`, `cache`, `domains`, `conns`, `polls` the fields; `procs` what a summary lists of `s.pids`, changed by `PollProcesses` in a critical section of its own; `window` the names in `u.window`, written by `RecordNames` and emptied by `Flush` and `Shutdown`; `disk` the file. A critical section in memory is one action; sends and the two halves of a file write are actions of their own |
| `Ledger` | what uploads promise to the backend | polls are numbered, reports are intervals of them |
| `Uploader` | `upload.go` and its callers | `window` is `u.window` with `start`, `polls` and `bytes`; `Poll`, `Send`, `Accepted`, `Failed`, `Shutdown`, `Start`, `Crash`; `Arrive` is the backend; `log` is history |
| `Collector` | the three builds of `collectNetworkSamples` | `Open`, `Close`, `Carry`, `Expire` are the kernel; `Glance` the read of `ss` and conntrack, `Listings` the listing after it; `ReadRow` the loop over the rows of `nettop`; `owed`, `sighted`, `whole` are history |
| `Traffic` | accounting of bytes | `Poll` is `pollDomainsLocked` and `recordNetwork` on an observation; `PollBlind` is the error path, `ResetWindow` the upload |
| `Processes` | process table and its upload counts | `List`, then `Poll`, which is the reads, `pollProcessesLocked` and `recordProcesses`; `Begin` and `End` are the machine; `ListFails` the early return |
| `Lifecycle` | `main.go`, status and clean-up | one action per step of each command between two accesses to a file; `FinalSummary` and `RemoveStatus` are the two halves of a clean end; `drain` is a daemon that has removed its status and waits for its test traffic; `Blind` are namespaces whose processes cannot read `/proc/self/ns/pid` |
| `Identity` | `MachineID` | `Load*`, `Create` (truncate), `Write`; `Unnamed` is a file without an id |
| `Lookup` | names from the outputs of tools | the cascade, one iteration of the whois map loop per step; hosts are sequences of labels |
| `Summary` | naming and listing of records | `Assign` is the worker's update; `List` makes any one of the six lists from any table, the upload's from records that have the name (`named`) or were last recorded before it was found; `Sorts` has every order that `sort.Slice` may leave |
| `MC*` | instances for TLC | model values and small sets |
| `ServiceProofs`, `LedgerProofs`, `UploaderProofs`, `IdentityProofs`, `ProcessesProofs`, `LifecycleProofs`, `TrafficProofs`, `LookupProofs` | proofs | section 5 |

Operators marked "mutant" in the modules are slips the code might have made (a
dropped guard, a missing reset). No specification uses them; each is
substituted for the operator it stands beside to see that a property fails.

### What the models leave out of the parts they cover

* Service: the values of counters, and the process name of a connection. A
  summary is its running flag, poll count, process list (one value of `Readings`
  for what one poll read) and the records that pass the include filters; their
  order and number are in Summary. The byte counts, polls seen and tracked
  counts of a summary change only where the records do, between `Collect` and
  the persist, of which DiskCurrent says nothing. When an upload is due is in
  Uploader: here any flush may empty the window. A hang inside `ss` or a lookup is bounded by its
  timeout in the code and by fairness here. Of the test traffic only its loops
  are there: wait, drive, end.
* Service, panics: the only data race is between `persist(true)` at
  `watcher.go:111` and the worker's update. Its outcomes in the model are a
  correct summary, a mixed one (`Garbled`) and a panic.
* Collector and Traffic: RX and TX are alike, one counter stands for both. The
  file descriptor in the keys of linux is left out, so a process holds a socket
  once. The text of outputs is left out: a parser yields the rows that are there.
* Processes: CPU and memory are alike, one load stands for both; the size of the
  largest table of a window is left out. A program stands for its name and its
  command; the reads of one poll are one step, in which a process may be gone, be
  another one, or go between the read of its name and that of its command.
* Lifecycle: file errors of `status.json` writes, and the time `start` waits,
  are left out. `start` reads the status and spawns in one step: two starts
  that overlap there do what two starts before the status is written do, and
  that gap, the daemon's boot, is modelled.
* Lookup: running tools and matching their output; case, brackets and wildcard
  prefixes. Hosts have at most one trailing dot, as in DNS output:
  `normalizeResolvedHost` removes one only (HostAssumption).
* Summary: the six lists are made from tables that do not depend on each other,
  and nothing is said of two lists together: how the names in the tables of the
  summary and of the upload relate is UploadNames of Service.
  Names of programs and domains are compared by their place in the alphabet.

## 3. The runs

Passing runs:

| Run | Module, configuration | Properties | What it shows |
|---|---|---|---|
| service_faults | MCService, ServiceFaults | TypeOK, LockHeld, LookupOnce, NamesAgree, ResolutionSpec, UploadNames, PollRepairs | With failing process lists, network collection and file writes (hence the unlocked persist), the mutex and the lookup pipeline stay consistent and implement Resolution, and a poll that succeeds leaves a current summary whatever was in the file. Through uploads, lookups and eviction the window's records have the name that was found or none yet, a connection none without its domain's, and what a poll has just observed the name of the summary |
| service_sound | MCService, ServiceSound | DiskCurrent, DiskConsistent, LookupsFinish, StopEnds | Without list and write faults the file is whole whenever the mutex is free. It is the summary of the memory from the end of a poll until the next has listed the processes; while that one collects, the process list in it may be older. Lookups end; a stop ends the daemon, its test traffic included |
| uploader | MCUploader, Uploader | TypeOK, PayloadExact, AckedSpaced, PeriodsNest, LedgerSpec | Through failures, late arrivals, crashes and restarts, payloads are exact and nest, and the windows implement Ledger |
| traffic | MCTraffic, Traffic | TypeOK, CountedOnce, NoneLost, RightHolder, WindowAgrees, ConnsWithinDomains, SamplesCounted | In all three builds records, samples and totals keep step under every fault; no byte is counted twice or lost as long as polls miss nothing; rows of nettop go to the process that holds the socket |
| processes | MCProcesses, Processes | ExcessBounded, UsageSound, NamedTogether, ReadReported | What an upload says of a process exceeds what was seen by no more than the eviction age, is consistent with the window, and names a program that the pid had then |
| lifecycle | MCLifecycle, Lifecycle | TypeOK, OneDaemon, DaemonFindable, SummaryHonest, StopSparesOthers, RefusesForDaemon | Commands given one after another, in two pid namespaces, one of them unreadable, with crashes, early returns, slow ends and other programs |
| identity | MCIdentity, Identity | TypeOK, SettledForever | Overlapping and crashing first calls, with no file or one without an id |
| lookup | MCLookup, Lookup | WhoisOrderFree, NameUsable, MostSpecific, BusiestListed | All outputs of up to three hosts; then each of the six lists, of all small tables with the name that was found |

Runs that find a violation, each of one sentence of the repository:

| Run | Property | What happens |
|---|---|---|
| service_stopped | StoppedReadable | The worker is not stopped at shutdown. It may have truncated `summary.json` and not yet written it when the process exits; `summary` then fails to decode an empty file |
| traffic_blind | NoneInvented | An `ss` that fails or takes more than four seconds reports every connection with zero; the next poll counts the whole counter of each connection again |
| lifecycle_hurry | OneDaemon | `status.json` is written by the daemon, after it has profiled the hardware. A second `start` before that starts a second daemon |
| identity_overlap | SameId | Two processes that find no `machine-id.json` make an id each, and one returns an id that is not on disk |

### Bounds and why they are enough

* Service: two public hosts make the worker's host differ from the poll's and,
  with a channel of capacity one, fill it. In service_faults two owners give each
  host two connections, so that one can be observed, named or evicted without
  the other; hosts, and owners, are alike, and the run uses that symmetry. One
  name and no name tell what was looked up from what was not: that a second
  name never takes the place of the first is ImplementsResolution, for any names. service_sound has one owner and
  no uploader, so that liveness can be checked, and two readings of the process
  table, which tell the list of a poll from that of the poll before. Host names
  and names that are addresses only decide whether a summary has a record; they
  are in service_stopped and, exhaustively, in the run lookup. `PollLimit` makes the
  poll count a residue: 2 tells a summary from the one before in service_sound,
  where only the last two polls can be in play, and 1 drops it in service_faults,
  where the names tell summaries apart. One loop
  of test traffic can be waiting or driving when the stop comes; several do not
  depend on each other, and service_faults has none.
* Uploader: an interval of 2 and gaps of 1 and 2 give windows that are due at
  once, one poll late, and not due. A clock to 6 has room for three windows with
  a retry and a restart between them. Volumes 0 and 3 tell a lost poll from a
  poll without bytes.
* Traffic: two processes, a TCP socket that both may hold and a UDP socket of
  one, all to one host, on each build: the least with which a socket is shared, a
  connection can outlive its domain and sums can differ. The constraint
  `TwoInUse` keeps two keys in use at a time, since sockets depend on each other
  only through the records of a common host. One byte to carry and to wait
  (`MaxCount`, `MaxOwed`) tells counted, lost and counted twice apart; three time
  units with `EvictAfter` 1 let a record be seen, kept and evicted. `InPlay` checks
  the states of the last time unit and does not go on from them: no poll would
  see what follows.
* Processes: one pid, since no record depends on another's, and two programs that
  may take it. `KeepFor` is 2 as in the code (in intervals). Eight time units
  let a process be kept, dropped, come back as another program and be kept again,
  over an upload. Loads 0 and 2 tell a process that could not be read.
* Lifecycle: two namespaces of three pids, of which the one that only summary
  runs in is blind, hold a command, its daemon and another
  program at once, and pids are reused without bound.
* Identity: three callers and three ids. Lookup: the host set has two hosts of
  equal length below one domain, a country-code domain, an ignored registry,
  both kinds of addresses and a trailing dot; three hosts per output allow a tie
  of two and a majority. Summary: two processes or connections and three hosts (the
  one looked up, an address without a name, a domain), amounts 0 to 2, one or two
  polls and a list of one: every tie and every overflow of the list.

### Fairness

Only service_sound states liveness. A goroutine that can run is run by the Go
scheduler: weak fairness of the steps of each. A step that waits for the mutex
is strongly fair, since `sync.Mutex` hands the lock to a waiter that has starved
for a millisecond, and so is receiving the stop signal, since `select` chooses
at random among ready cases. A round of the test traffic ends, since each of its
reads, dials and sleeps is bounded, and a loop that sees the stop between two
rounds takes it, again by `select`. SIGTERM, faults and what the machine does are
never fair. Tools, lookups and uploads end by their timeouts; with the mutex held only the
last upload runs.

### Mutants

Each property of a passing run has a mutant in `PROJECT.json`: with the operator
named "of" replaced by the one named "as" the run finds the property violated.

### What was met on the way

Beyond the four findings above, and modelled as the code does it unless said:

* `persist(true)` after a failed poll (`watcher.go:111`) takes no mutex. With it
  DiskConsistent does not hold, which is why service_sound leaves list and write
  faults out; service_faults has them, and PollRepairs says how long the damage
  lasts.
* A second daemon also results from `__run` given directly and from `start` in a
  second namespace, where the recorded pid means another process. Lifecycle has
  the latter as the habit "foreign", which no run uses. A `start` right after
  `stop` refuses, since the daemon is still closing; a second SIGTERM in that
  time kills it before its final summary.
* After a crash another program may get the daemon's pid; then `start` refuses
  and `stop` ends that program. StopSparesOthers and RefusesForDaemon exclude
  exactly these histories, by the variable `unclean`.
* A crash between truncation and write leaves an empty `machine-id.json`, after
  which every call of `MachineID` fails (LoadFails).
* `README.md:245-249` says uploads are bounded to 12 processes, 20 domains and
  20 connections; `upload.go:415-499` sends all. `main.go:47` always sets test
  mode, so the production interval of `README.md:253` is never the default.
* `README.md:81` speaks of six top domains; `watcher.go` lists sixty.
* The worker outlives the shutdown: while the test traffic ends it may persist a
  summary that says a watcher runs. `LoadSummary` corrects that by the pid once
  the process has gone, but only in its namespace; SummaryHonest excludes it by
  `unclean`.
* A process that ends between the listing and its read is in the table without a
  name, and the window takes the empty name over: unless read again it is not
  uploaded, although earlier polls had named it (ReadReported says exactly this).
* A UDP flow that conntrack still has is counted for the next socket with the
  same addresses, and `Expire` between the two reads can do the same;
  `sighted` excludes both.
* On darwin UDP port 443 is called HTTPS as TCP is, and shares a connection key
  with it (`Protocol`).
* `ss` spells an IPv4-mapped local address otherwise than gopsutil, so that such
  sockets never match their counters (not modelled: addresses are values).
* A name that is itself a public address is uploaded but not listed in the
  summary.
* A summary that is written while a poll collects, by the worker, has the
  processes of that poll and the poll count of the one before (DiskCurrent).
* A status or summary without a namespace, from a daemon that cannot read its
  own, is believed everywhere: with such a daemon and a second, readable
  namespace a command there would remove its status. The theorems about
  Lifecycle exclude it (Known); where no process has a namespace to read, as on
  macOS, there is only one.
* `seen` of a domain or connection counts observations, not polls.
* A window whose upload failed is posted again at every poll.
* `registrableDomain` of an address is its last two numbers ("8.8").

## 4. Plan

Done: `Resolution` and `Service` with faults, liveness and test traffic; `Ledger`
and `Uploader`; `Collector` and `Traffic`; `Lifecycle`; `Identity`; `Processes`;
`Lookup` and `Summary`; and the proofs of each.

What is left, in this order:

1. The two entry points of a daemon that Lifecycle leaves out of its runs (`__run`
   given directly, the habit "foreign"), with the collisions of two daemons on
 with the collisions of two daemons on
   one summary.
2. `Service` with the process table and the window of Processes and Uploader
   instead of what it keeps of them, to relate the counters of a summary to
   those of the upload made after it.
 of the prover are the two liveness properties (section 5).

## 5. What is proved

The proofs hold for every value of the constants that satisfies the assumptions
named in the modules (for Service: public addresses among the hosts, `NoName`
and `Untracked` no names, capacity and poll limit numbers; for Uploader: a
positive interval and positive gaps; for Collector and Traffic: finitely many
processes, keys that are a process and a socket, and bounds that are numbers; for
Lookup: hosts end in one dot at most, no private address has two or three labels,
and the alphabet lists each host and each domain once). Each safety and action
property of a passing run is a theorem, under a hypothesis on the constants that
the run meets where one is named below; SameId and the Ledger's own guarantee are
proved besides.

**ServiceProofs.**
* `TypeCorrect`: Spec => []TypeOK, one step per action.
* `LookupsExact`: LookupOnce, inductive together with TypeOK. Its argument: a
  host enters the channel only when it is not pending, and pending is the union
  of the channel and the worker's hands, so the channel never holds it twice;
  receiving moves it from one to the other; only the worker's update clears it.
* `NamesCorrect`: NamesAgree, inductive: both writers write what the cache holds
  at that moment.
* `ImplementsResolution`: every step maps to Ask, Answer or a stutter. It needs
  LookupOnce: the worker's update is an Answer only because the host it holds
  is pending and has no name.
* `MutexHeld`: LockHeld, inductive: each program counter that is inside a
  critical section was reached by taking the mutex, and left by giving it back.
* `PollsRepair`: PollRepairs, from Guarded: at "write" the main goroutine holds the
  mutex and has truncated the file, so that its write meets no other bytes and
  the memory is still the one it took.
* `DiskCorrect` and `DiskWhole`: DiskCurrent and DiskConsistent, under the
  hypothesis SoundDisk (no "list" and no "write" in Faults). DiskCurrent is
  stated for the end of a poll and the time until the next has collected, and
  claims nothing between the records of a poll and their persist. It is not
  inductive: DiskSafe adds who holds the mutex at which step, that a writer inside it has truncated
  the file (so its write meets no other bytes), and that the main goroutine is
  never at the unlocked persist.
* `UploadNamesCorrect`: UploadNames, with LookupOnce and LockHeld. A name that is
  found is found for a host that had none, so the window cannot have another
  (UploadUpdate); the worker cannot find one while the poll records, since the
  poll has the mutex; and the window loses names only all at once (UploadFlush).

**LedgerProofs.** `LedgerCorrect`: two reports never overlap unless they start
together, and an acknowledged one is the longest of its start. The strengthening
says that reports end at or before the base or start at it, and that no report
is longer than what was recorded.

**UploaderProofs.**
* `UploadTypeCorrect`: Spec => []TypeOK.
* `PeriodsCorrect`, `SpacingCorrect`: PeriodsNest and AckedSpaced. Both follow
  from TimeInv: each payload either belongs to the open window, with its start,
  or ended before that window opened; once acknowledged it is of the second
  kind; and a payload about to be posted by a running daemon is an interval old.
* `PayloadCorrect`: PayloadExact. The log keeps each poll's time and the bytes up
  to it, so that the bytes of a period are a difference and not a sum. LogInv says
  that the polls of the window, and of every payload, are consecutive ones at the
  end of the log of their time, and just those whose times fall into the period;
  a poll at the very start belongs to it unless a payload that ended there was
  acknowledged.
* `ImplementsLedger`: the refinement mapping numbers polls by their place in the
  log, and takes the base from the open window's poll count.
* `NothingCountedTwice`: LedgerCorrect under that mapping, by ImplementsLedger.

**IdentityProofs.**
* `IdentityTypeCorrect`: needs that what is in the file or about to be written
  was made by some call (Written).
* `SettledCorrect`: SettledForever. No step leads away from a settled identity,
  since LoadNothing needs a file without an id.
* `SequentialSameId`: SameId, under the hypothesis that calls do not overlap,
  with crashes anywhere. One caller at a time is inside the call, the file
  has no id until it creates it and is empty until it writes it (OneByOne). So
  identity_overlap shows the only way to two ids.

**ProcessesProofs.**
* `ProcessesTypeCorrect` and `UsageCorrect` (UsageSound): every record of the
  window is consistent with the window's poll count, and one more poll keeps it
  so. The step that matters is the product of polls and peak when the peak grows.
* `NamesTold` and `ReadIsReported` (NamedTogether, ReadReported), from NamesKept:
  an entry of the table is what its last listing read, the record of the window
  has its name, and both are told.
* `ExcessIsBounded` (ExcessBounded), from Bounded: a process the last poll carried
  began a spell, and since it was last listed was counted at most once for each
  unit of time; the table drops it after KeepFor of them.

**TrafficProofs.** TrafficInv has two halves.

CollectorInv is about single keys. It compares what a key is owed with what the
polls will still count for it: now, or in two parts when the counters of the
poll have been read and the listing is to come. It is never less, and of a key
whose counter runs all the time it is held it is equal. A poll that fails changes
neither side. On darwin it needs RightHolder, which is a fact about one state:
the loop over the rows is followed row by row (Reads); the rows of one process
add its sockets under its pid, whatever was read before (ReadsProcess); reading
two sequences one after the other reads both (ReadsConcat); so each process that
is done has just the sockets it holds, whatever order they come in (HolderRight).
* `RightHolderCorrect`, `CountedOnceCorrect`, `NoneLostCorrect`: for any
  processes and sockets, and on every build.

TablesInv is about the tables that a poll adds to. To WindowAgrees,
ConnsWithinDomains and SamplesCounted it adds that the tables are finite, without
which their sums mean nothing, and that no domain was seen after the clock. That
is what makes eviction sound: a connection that is kept was seen recently, hence
so was its domain, which is no older; and a domain that this poll touched is
kept.
* `WindowCorrect`, `ConnsCorrect`, `SamplesCorrect`, `TrafficTypeCorrect`.

The sums are those of the community modules, which are defined by recursion over
sets. What is known of them is proved in the module: each is the sum of its parts
(SumUnion), is monotone (SumLess), and grows by what a poll adds when the records
grow key by key (SumGrown). Induction theorems take an operator as a parameter,
which no installed prover can instantiate; NatInduct and SetInduct state
induction for a *set* of numbers, or of finite sets, and rest on the well-founded
order of Nat (WFMin, NatLessThanWellFounded).

**LookupProofs.**
* `WhoisCorrect` (WhoisOrderFree): the loop invariant is that `best` leads the
  candidates visited so far (Leads), which is the same whoever comes next since
  counts, then the alphabet, order the candidates (AheadOrders).
* `NameCorrect` (NameUsable): normalizing a host, and taking its registrable
  domain, yields a good one (NormalGood, RegistrableGood); each source answers
  with one of these.
* `MostSpecificCorrect` (MostSpecific): PreferredOrders says that the order of
  bestHostnameCandidate, below the domain first, then the shorter text, then the
  alphabet, tells any two hosts apart, so that at most one host comes first;
  FirstPreferred that one does, by taking the least number three times
  (LeastNumber); and a host below the domain comes before all that are not.
* `BusiestCorrect` (BusiestListed), for each of the six lists: every order that
  sort.Slice may leave is falling in the amount that ranks it (BusyFalls), and
  the beginning of a falling sequence of all of a set has the largest of it
  (CutLeads).

**LifecycleProofs.** `LifecycleTypeCorrect`, `OneDaemonCorrect`,
`FindableCorrect`, `SummaryCorrect`, `StopCorrect` and `RefuseCorrect`, for any namespaces and pids, under the
hypotheses Orderly (no "hurry" and no "foreign" in Habits; crashes and other
programs are allowed) and Known (the daemon's namespace can be read, or is the
only one). They follow from one invariant, LifecycleInv: a command
runs alone and while the daemon serves, so no clean-up has found its status
stale (Order: `start` spawns only if the pid of the status is free, and
a serving daemon's is not; a daemon that drains no longer counts); daemons and
the status belong to the home namespace (AtHome); and the files name the daemon once it has
written them, and nothing else unless a daemon left them so uncleanly (Truth).

Only model-checked are the liveness properties, LookupsFinish and StopEnds:
fairness and ENABLED are beyond the prover. The safety half of the lookups, that
none is lost or made twice on the way, is LookupsExact.

## 6. What is not modelled

* Printing, help and `formatBytes`: they format what they read.
* The hardware profile: one read of the machine at start.
* The text of `ss`, `conntrack`, `nettop`, `whois` and the other tools: what a
  parser finds in it is what the models choose.
* What the test traffic sends, and to whom: its sockets are sockets like others.
* RX apart from TX, and CPU apart from memory: the code treats each pair alike,
  but for the comparisons of the lists, where Summary has both.
