------------------------------ MODULE Traffic ------------------------------
(***************************************************************************)
(* Byte accounting of dialtone-watcher on top of what the polls observe     *)
(* (Collector.tla): how pollDomainsLocked (watcher.go) turns the kernel's    *)
(* running counters into per-domain and per-connection totals, and what     *)
(* recordNetwork (upload.go) adds to the upload window.                     *)
(*                                                                         *)
(* RX and TX are counted alike and apart; the model has one counter.  A     *)
(* poll's work is one step: nothing else reads or writes this state while   *)
(* the main goroutine is in it, and its loops add in any order.             *)
(***************************************************************************)
EXTENDS Collector

CONSTANTS Gaps,        \* time that may pass between two polls
          EvictAfter,  \* age at which a record is dropped (12 intervals)
          MaxTime      \* bound on the clock

ASSUME TimeAssumption == Gaps \subseteq Nat \ {0} /\ EvictAfter \in Nat /\ MaxTime \in Nat

VARIABLES clock,       \* now of the latest poll
          domains,     \* s.domains: bytes, polls seen, last seen
          conns,       \* s.connections
          window       \* u.window: totals since the last upload

tables == <<domains, conns, window>>
vars   == <<collector, clock, tables>>

Fresh       == [bytes |-> 0, seen |-> 0, last |-> 0]
EmptyUpload == [total |-> 0, domains |-> NoEntries, conns |-> NoEntries]

-----------------------------------------------------------------------------
Init == /\ CollectorInit
        /\ clock = 0
        /\ domains = NoEntries /\ conns = NoEntries
        /\ window = EmptyUpload

-----------------------------------------------------------------------------
Sum(obs, S) == SumFunctionOnSet([k \in DOMAIN obs |-> Delta(obs, k)], S)
OfConn(obs, c) == {k \in DOMAIN obs : ConnOf(k) = c}
OfHost(obs, h) == {k \in DOMAIN obs : HostOf[SocketOf(k)] = h}

\* A record after the observations S of this poll at time now: created when
\* there is none, then one more poll seen for every observation.
Touched(records, x, obs, S, now) ==
  LET old == IF x \in DOMAIN records THEN records[x] ELSE Fresh
  IN  IF S = {} THEN old
      ELSE [bytes |-> old.bytes + Sum(obs, S), seen |-> old.seen + Cardinality(S),
            last |-> now]

\* The records after a poll: those seen in it, and the old ones not too old.
Kept(records, now) == {x \in DOMAIN records : now - records[x].last <= EvictAfter}
SeenConns(obs) == {ConnOf(k) : k \in DOMAIN obs}
SeenHosts(obs) == {HostOf[SocketOf(k)] : k \in DOMAIN obs}
PollConns(obs, now) == [c \in SeenConns(obs) \cup Kept(conns, now) |->
                          Touched(conns, c, obs, OfConn(obs, c), now)]

\* Mutants: a domain not seen in this poll is dropped at once; the samples of
\* sockets that are gone are kept.
PollDomainsHasty(obs, now) ==
  /\ samples' = obs
  /\ domains' = [h \in SeenHosts(obs) |-> Touched(domains, h, obs, OfHost(obs, h), now)]
  /\ conns' = PollConns(obs, now)
PollDomainsHoards(obs, now) ==
  /\ samples' = [k \in DOMAIN obs \cup DOMAIN samples |->
                    IF k \in DOMAIN obs THEN obs[k] ELSE samples[k]]
  /\ domains' = [h \in SeenHosts(obs) \cup Kept(domains, now) |->
                   Touched(domains, h, obs, OfHost(obs, h), now)]
  /\ conns' = PollConns(obs, now)

\* pollDomainsLocked.
PollDomains(obs, now) ==
  /\ samples' = obs
  /\ domains' = [h \in SeenHosts(obs) \cup Kept(domains, now) |->
                   Touched(domains, h, obs, OfHost(obs, h), now)]
  /\ conns' = PollConns(obs, now)

\* recordNetwork, for every observation.
RecordNetwork(obs) ==
  [total   |-> window.total + Sum(obs, DOMAIN obs),
   domains |-> [h \in SeenHosts(obs) \cup DOMAIN window.domains |->
                  At(window.domains, h) + Sum(obs, OfHost(obs, h))],
   conns   |-> [c \in SeenConns(obs) \cup DOMAIN window.conns |->
                  At(window.conns, c) + Sum(obs, OfConn(obs, c))]]

Poll(gap) == /\ Ready
             /\ clock + gap <= MaxTime
             /\ clock' = clock + gap
             /\ \E obs \in Observations :
                  /\ PollDomains(obs, clock')
                  /\ window' = RecordNetwork(obs)
                  /\ Collect(obs)

\* collectNetworkSamples returns an error: the poll counts, the tables stay.
PollBlind(gap) == /\ clock + gap <= MaxTime
                  /\ clock' = clock + gap
                  /\ CollectFails
                  /\ UNCHANGED tables

\* Mutant: the totals are cleared and the maps of the window are not.
ResetTotals == /\ clock # 0
               /\ window' = [window EXCEPT !.total = 0]
               /\ UNCHANGED <<collector, clock, domains, conns>>

\* The window was uploaded: resetWindow.  The main goroutine uploads between
\* two polls, not in one.
ResetWindow == /\ clock # 0 /\ at = "idle"
               /\ window' = EmptyUpload
               /\ UNCHANGED <<collector, clock, domains, conns>>

Next == \/ (Kernel \/ Glance) /\ UNCHANGED <<clock, tables>>
        \/ \E gap \in Gaps : Poll(gap) \/ PollBlind(gap)
        \/ ResetWindow

Spec == Init /\ [][Next]_vars

-----------------------------------------------------------------------------
(* Properties *)

Bytes(f)   == [x \in DOMAIN f |-> f[x].bytes]
Times(f)   == [x \in DOMAIN f |-> f[x].seen]
Records    == [bytes : Nat, seen : Nat, last : Nat]
Conns      == {ConnOf(k) : k \in Keys}
ConnsTo(h, f) == {c \in DOMAIN f : HostOfConn(c) = h}

\* Every variable keeps to its type.
TypeOK ==
  /\ CollectorTypeOK
  /\ clock \in Nat
  /\ DOMAIN domains \subseteq Hosts /\ \A h \in DOMAIN domains : domains[h] \in Records
  /\ DOMAIN conns \subseteq Conns /\ \A c \in DOMAIN conns : conns[c] \in Records
  /\ window.total \in Nat
  /\ DOMAIN window.domains \subseteq Hosts /\ \A h \in DOMAIN window.domains : window.domains[h] \in Nat
  /\ DOMAIN window.conns \subseteq Conns /\ \A c \in DOMAIN window.conns : window.conns[c] \in Nat

\* The total of the window is the sum over its domains, each domain's bytes are
\* those of its connections, and no connection is without its domain
\* (recordNetwork adds to all three; resetWindow clears all three).
WindowAgrees ==
  /\ window.total = SumFunction(window.domains)
  /\ \A c \in DOMAIN window.conns : HostOfConn(c) \in DOMAIN window.domains
  /\ \A h \in DOMAIN window.domains : window.domains[h] =
       SumFunctionOnSet(window.conns, ConnsTo(h, window.conns))

\* A tracked connection has a tracked domain, which was seen no earlier and no
\* fewer times and has at least the bytes of all its tracked connections: the
\* two eviction loops never orphan a connection.
ConnsWithinDomains ==
  \A h \in Hosts :
    LET C == ConnsTo(h, conns)
    IN  C # {} => /\ h \in DOMAIN domains
                  /\ \A c \in C : conns[c].last <= domains[h].last
                  /\ SumFunctionOnSet(Bytes(conns), C) <= domains[h].bytes
                  /\ SumFunctionOnSet(Times(conns), C) <= domains[h].seen

\* A socket with a sample has a tracked connection that already holds the bytes
\* of the sample, so that the next difference continues the record instead of
\* starting a new one (eviction and the deletion of samples keep step).
SamplesCounted ==
  \A k \in DOMAIN samples : /\ ConnOf(k) \in DOMAIN conns
                            /\ samples[k] <= conns[ConnOf(k)].bytes
=============================================================================
