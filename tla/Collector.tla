----------------------------- MODULE Collector -----------------------------
(***************************************************************************)
(* What a poll of dialtone-watcher sees of the sockets of the machine:      *)
(* collectNetworkSamples in its three builds.  On linux (network_linux.go)  *)
(* ss and conntrack are asked for the byte counters first, and the sockets  *)
(* of each process are listed afterwards; on darwin (network_darwin.go) one *)
(* output of nettop has both; elsewhere (network_stub.go) there is nothing. *)
(*                                                                         *)
(* A key of an observation is a process and a socket it holds; a socket     *)
(* that processes share has a key for each.  The file descriptor of linux   *)
(* keys is left out: a process holds a socket once.  RX and TX are counted  *)
(* alike and apart; the model has one counter.  Sockets are those whose     *)
(* remote address normalizes to a host, the others are skipped.             *)
(*                                                                         *)
(* Sockets do not depend on each other, so that the two reads of linux may  *)
(* each be taken as one step for all of them.                               *)
(***************************************************************************)
EXTENDS Integers, FiniteSets, SequencesExt

CONSTANTS Pids,        \* processes that hold sockets
          Sockets,     \* sockets, by their addresses and ports
          Keys,        \* which process may hold which socket
          Datagrams,   \* the UDP sockets among them
          Port,        \* the remote port of a socket
          HostOf,      \* its remote host
          Builds,      \* the builds considered: "linux", "darwin", "other"
          MaxCount,    \* bound on a counter
          MaxOwed,     \* bound on the bytes a key waits to be counted for
          Faults       \* what may fail: "ss", "conntrack", "missed", "net"

ASSUME KeyAssumption    == /\ Pids \subseteq Nat \ {0} /\ IsFiniteSet(Pids)
                           /\ Keys \subseteq Pids \X Sockets
ASSUME SocketAssumption == Datagrams \subseteq Sockets /\ Port \in [Sockets -> Nat]
ASSUME BuildAssumption  == Builds \subseteq {"linux", "darwin", "other"}
ASSUME BoundAssumption  == MaxCount \in Nat /\ MaxOwed \in Nat
ASSUME FaultAssumption  == Faults \subseteq {"ss", "conntrack", "missed", "net"}

VARIABLES build,       \* the build that runs
          open,        \* keys that exist now
          counter,     \* bytes ss (UDP: conntrack) has for each socket
          at,          \* the poll: "idle", or "list" between the two reads
          glance,      \* linux: the counters read first, of this poll
          samples,     \* s.networkSamples: counters of the last poll
          owed,        \* history: bytes of each key carried and not counted
          sighted,     \* history: no poll so far has missed anything or taken
                       \* one flow for another
          whole        \* history: keys held since before their first sample,
                       \* their counters running all the time

kernel == <<open, counter>>
collector == <<build, kernel, at, glance, samples, owed, sighted, whole>>

PidOf(k)    == k[1]
SocketOf(k) == k[2]
Hosts       == {HostOf[s] : s \in Sockets}

\* inferProtocol and inferSocketProtocol, which darwin does not use: there a
\* UDP socket has the name that its port has with TCP.
InferProtocol(port) ==
  CASE port = 22 -> "SSH" [] port = 53 -> "DNS" [] port = 80 -> "HTTP" [] port = 443 -> "HTTPS"
    [] port = 853 -> "DNS-over-TLS" [] port = 3306 -> "MySQL" [] port = 5432 -> "Postgres"
    [] port = 6379 -> "Redis" [] port \in {784, 4433} -> "QUIC" [] OTHER -> "TCP"
InferSocketProtocol(s) ==
  IF s \in Datagrams
    THEN CASE Port[s] = 53 -> "DNS" [] Port[s] \in {443, 784, 4433} -> "QUIC" [] OTHER -> "UDP"
    ELSE InferProtocol(Port[s])
Protocol(s) == IF build = "darwin" THEN InferProtocol(Port[s]) ELSE InferSocketProtocol(s)

\* observedConnectionKey.
ConnOf(k)     == <<PidOf(k), Protocol(SocketOf(k)), HostOf[SocketOf(k)]>>
HostOfConn(c) == c[3]

\* Maps of the code are functions whose domain is the set of keys present; a
\* key that is missing reads as zero.
NoEntries == [x \in {} |-> 0]
At(f, x)  == IF x \in DOMAIN f THEN f[x] ELSE 0

-----------------------------------------------------------------------------
(* The kernel *)

CollectorInit == /\ build \in Builds
                 /\ open = {} /\ counter = [s \in Sockets |-> 0]
                 /\ at = "idle"
                 /\ glance = [streams |-> NoEntries, flows |-> NoEntries]
                 /\ samples = NoEntries
                 /\ owed = [k \in Keys |-> 0] /\ sighted = TRUE /\ whole = {}

Holders(s) == {k \in open : SocketOf(k) = s}

\* A process opens a socket, or is given one that another holds: the key is
\* owed what the socket has carried.  A stream starts at zero; conntrack may
\* still have the flow of an earlier datagram socket with the same addresses,
\* whose bytes the polls will take for those of the new one.
Inherits(k) == /\ SocketOf(k) \in Datagrams /\ Holders(SocketOf(k)) = {}
               /\ counter[SocketOf(k)] # 0
Open(k) ==
  LET s == SocketOf(k) IN
  /\ k \in Keys \ open
  /\ open' = open \cup {k}
  /\ counter' = IF s \in Datagrams \/ Holders(s) # {} THEN counter
                ELSE [counter EXCEPT ![s] = 0]
  /\ owed[k] + counter'[s] <= MaxOwed
  /\ owed' = IF Inherits(k) THEN owed ELSE [owed EXCEPT ![k] = @ + counter'[s]]
  /\ sighted' = (sighted /\ ~Inherits(k))
  /\ whole' = IF owed[k] = 0 /\ k \notin DOMAIN samples THEN whole \cup {k} ELSE whole
  /\ UNCHANGED <<build, at, glance, samples>>

Close(k) == /\ k \in open
            /\ open' = open \ {k}
            /\ whole' = whole \ {k}
            /\ UNCHANGED <<build, counter, at, glance, samples, owed, sighted>>

Carry(s) == /\ Holders(s) # {} /\ counter[s] < MaxCount
            /\ \A k \in Holders(s) : owed[k] < MaxOwed
            /\ counter' = [counter EXCEPT ![s] = @ + 1]
            /\ owed' = [k \in Keys |-> IF k \in Holders(s) THEN owed[k] + 1 ELSE owed[k]]
            /\ UNCHANGED <<build, open, at, glance, samples, sighted, whole>>

\* conntrack forgets an idle flow.  Between the two reads of a poll that makes
\* the counter read the one of a flow that is gone, which a socket opened
\* since may be charged with: the polls miss that the flow is another one.
Expire(s) == /\ s \in Datagrams /\ counter[s] # 0
             /\ counter' = [counter EXCEPT ![s] = 0]
             /\ whole' = {k \in whole : SocketOf(k) # s}
             /\ sighted' = (sighted /\ at = "idle")
             /\ UNCHANGED <<build, open, at, glance, samples, owed>>

Kernel == \/ \E k \in Keys : Open(k) \/ Close(k)
          \/ \E s \in Sockets : Carry(s) \/ Expire(s)

-----------------------------------------------------------------------------
(* linux: first the counters *)

\* Mutant: of the processes that share a socket one is found.
StreamCountsFirstUser ==
  [k \in {j \in open : /\ SocketOf(j) \notin Datagrams /\ counter[SocketOf(j)] # 0
                       /\ \A i \in Holders(SocketOf(j)) : PidOf(j) <= PidOf(i)} |->
     counter[SocketOf(k)]]

\* parseLinuxSocketByteSamples: each line of ss with a counter other than zero,
\* for every user of the socket.
StreamCounts ==
  [k \in {j \in open : SocketOf(j) \notin Datagrams /\ counter[SocketOf(j)] # 0} |->
     counter[SocketOf(k)]]

\* parseLinuxConntrackSamples: each udp flow, found by its addresses and ports
\* whoever holds it now.
FlowCounts == [s \in {d \in Datagrams : counter[d] # 0} |-> counter[s]]

\* ss that fails or runs past four seconds and files of conntrack that cannot
\* be opened give empty maps and no error.
Glance == /\ build = "linux" /\ at = "idle"
          /\ at' = "list"
          /\ \E f \in SUBSET (Faults \cap {"ss", "conntrack"}) :
               /\ glance' = [streams |-> IF "ss" \in f THEN NoEntries ELSE StreamCounts,
                             flows   |-> IF "conntrack" \in f THEN NoEntries ELSE FlowCounts]
               /\ sighted' = (sighted /\ f = {})
          /\ UNCHANGED <<build, kernel, samples, owed, whole>>

\* Then the sockets of each process; the ones of a process whose listing fails
\* this time are missing.
SampleOf(k) == IF SocketOf(k) \in Datagrams THEN At(glance.flows, SocketOf(k))
               ELSE At(glance.streams, k)
Listings == {[k \in S |-> SampleOf(k)] : S \in IF "missed" \in Faults THEN SUBSET open
                                               ELSE {open}}

-----------------------------------------------------------------------------
(* darwin: the rows of nettop, the one of a process before those of its sockets *)

ProcessRow(p)    == [kind |-> "process", pid |-> p]
SocketRow(s)     == [kind |-> "socket", socket |-> s, bytes |-> counter[s]]
RowsOf(p)        == <<ProcessRow(p)>> \o
                      SetToSeq({SocketRow(s) : s \in {t \in Sockets : <<p, t>> \in open}})
Outputs          == {FlattenSeq([i \in DOMAIN o |-> RowsOf(o[i])]) : o \in SetToSeqs(Pids)}

\* One turn of the loop over the rows.  Mutant: currentProcessID stays the
\* first one.
ReadRowOnce(acc, row) ==
  IF row.kind = "process" THEN [acc EXCEPT !.pid = IF @ = 0 THEN row.pid ELSE @]
  ELSE IF acc.pid = 0 THEN acc
  ELSE [acc EXCEPT !.seen = [x \in DOMAIN @ \cup {<<acc.pid, row.socket>>} |->
                               IF x = <<acc.pid, row.socket>> THEN row.bytes ELSE @[x]]]
ReadRow(acc, row) ==
  IF row.kind = "process" THEN [acc EXCEPT !.pid = row.pid]
  ELSE IF acc.pid = 0 THEN acc
  ELSE [acc EXCEPT !.seen = [x \in DOMAIN @ \cup {<<acc.pid, row.socket>>} |->
                               IF x = <<acc.pid, row.socket>> THEN row.bytes ELSE @[x]]]

ReadRows(rows) ==
  LET acc[i \in 0..Len(rows)] == IF i = 0 THEN [pid |-> 0, seen |-> NoEntries]
                                 ELSE ReadRow(acc[i - 1], rows[i])
  IN  acc[Len(rows)].seen

-----------------------------------------------------------------------------
\* The observations a poll may get, when it is ready to.
Ready == at = IF build = "linux" THEN "list" ELSE "idle"
Observations == CASE build = "linux"  -> Listings
                  [] build = "darwin" -> {ReadRows(rows) : rows \in Outputs}
                  [] build = "other"  -> {NoEntries}

\* Mutants: the difference is taken even when the counter has restarted; the
\* counter is taken for the difference.
DeltaUnguarded(obs, k) == IF k \in DOMAIN samples THEN obs[k] - samples[k] ELSE obs[k]
DeltaWhole(obs, k) == obs[k]

\* diffOrCurrent against the sample of the last poll, if there is one.
Delta(obs, k) ==
  IF k \in DOMAIN samples /\ obs[k] >= samples[k] THEN obs[k] - samples[k] ELSE obs[k]

\* What a poll with observations obs changes here.
Collect(obs) == /\ at' = "idle"
                /\ glance' = [streams |-> NoEntries, flows |-> NoEntries]
                /\ owed' = [k \in Keys |-> IF k \in DOMAIN obs THEN owed[k] - Delta(obs, k)
                                           ELSE owed[k]]
                /\ sighted' = (sighted /\ DOMAIN obs = open)
                /\ UNCHANGED <<build, kernel, whole>>

\* collectNetworkSamples returns an error: nothing is counted.
CollectFails == /\ "net" \in Faults /\ Ready
                /\ at' = "idle"
                /\ glance' = [streams |-> NoEntries, flows |-> NoEntries]
                /\ UNCHANGED <<build, kernel, samples, owed, sighted, whole>>

-----------------------------------------------------------------------------
(* Properties *)

CollectorTypeOK ==
  /\ build \in Builds /\ at \in {"idle", "list"}
  /\ open \in SUBSET Keys /\ whole \in SUBSET open
  /\ counter \in [Sockets -> Nat]
  /\ DOMAIN glance.streams \subseteq Keys /\ DOMAIN glance.flows \subseteq Datagrams
  /\ \A k \in DOMAIN glance.streams : glance.streams[k] \in Nat
  /\ \A s \in DOMAIN glance.flows : glance.flows[s] \in Nat
  /\ DOMAIN samples \subseteq Keys /\ \A k \in DOMAIN samples : samples[k] \in Nat
  /\ owed \in [Keys -> Int] /\ sighted \in BOOLEAN

\* What a poll would count for k if it saw n.
Due(k, n) == IF k \in DOMAIN samples /\ n >= samples[k] THEN n - samples[k] ELSE n

\* No key is ever charged with bytes it did not carry, however processes share
\* sockets, counters restart, keys come again under the same addresses and
\* sockets open and close between the read of the counters and the listing.
NoneInvented == \A k \in Keys : owed[k] >= 0

\* So it is as long as no tool failed and nothing was missed.
CountedOnce == sighted => NoneInvented

\* Nothing is lost of a socket while it is held and its counter runs: what was
\* not counted yet is what the next poll will count, through polls that fail
\* and polls that overlap with its opening.
NoneLost == sighted /\ at = "idle" /\ build # "other" =>
              \A k \in whole : owed[k] = Due(k, counter[SocketOf(k)])

\* Whatever order nettop names the processes in, each socket is charged to the
\* process that holds it.
RightHolder ==
  build = "darwin" => \A rows \in Outputs :
    ReadRows(rows) = [k \in open |-> counter[SocketOf(k)]]
=============================================================================
