------------------------------ MODULE Summary ------------------------------
(***************************************************************************)
(* From a name to the lists that leave the service: the worker writes the   *)
(* name that a lookup found to the records of the address (resolver.go),    *)
(* the summary lists the leading processes, domains and connections         *)
(* (watcher.go) and the upload lists all of them (upload.go).               *)
(*                                                                         *)
(* Each list is made from a table of its own: the summary's from those of   *)
(* the service, the upload's from those of the window, which is emptied by  *)
(* every upload and is named only when a poll records an observation (the   *)
(* names of the two are compared in Service).  The tables do not depend on  *)
(* each other, and TLC gets them one at a time.                             *)
(* Go visits a map in any order and sort.Slice keeps no order of equals: a  *)
(* list is any order that the comparison allows.                            *)
(***************************************************************************)
EXTENDS Lookup

CONSTANTS Address,     \* the public address that was looked up
          Addresses,   \* hosts that are public addresses (isPublicIP)
          Tracked,     \* hosts of the records
          Programs,    \* names of programs in alphabetical order, "" first
          Ids,         \* pids, and keys of connections
          Amounts,     \* CPU, memory and byte counts
          Polls,       \* polls seen
          Limit        \* length of a list of the summary

ASSUME LimitAssumption == Limit \in Nat \ {0} /\ Amounts \subseteq Nat /\ Polls \subseteq Nat \ {0}
ASSUME TrackedAssumption ==
  Address \in Tracked \cap Addresses /\ IsFiniteSet(Tracked) /\ IsFiniteSet(Ids)

VARIABLE listing       \* a list, and what it was made from

None == [kind |-> "none"]
ListingVars == <<vars, listing>>

ProcessRecords    == [name : ToSet(Programs), cpu : Amounts, rss : Amounts, seen : Polls]
DomainRecords     == [rx : Amounts, tx : Amounts, seen : Polls]
ConnectionRecords == [domain : Tracked, program : ToSet(Programs), total : Amounts, seen : Polls]

Tables(I, R) == UNION {[S -> R] : S \in SUBSET I}

-----------------------------------------------------------------------------
(* What is listed *)

\* DisplayName of the service's records of host h: the worker has assigned the
\* name to all of them.
Display(h) == IF h = Address THEN name ELSE Blank

\* DisplayName of a record of the window: those in named were recorded after
\* the worker had the name.
Recorded(named, id, h) == IF id \in named THEN Display(h) ELSE Blank

\* shouldIncludeDomainRecord, shouldIncludeConnectionRecord.
Included(h) == \/ Normalize(Display(h)) # Blank /\ Display(h) \notin Addresses
               \/ h \notin Addresses /\ Normalize(h) # Blank

\* The filter of allUploadDomains and allUploadConnections for a record of h
\* with that DisplayName.
Uploaded(h, display) == ~(Normalize(display) = Blank /\ h \in Addresses)

HostOfId(kind, table, id) == IF kind = "domain" THEN id ELSE table[id].domain

\* The ids of a table that a list to the summary or the upload may have.
Listable(to, kind, table, named) ==
  IF kind = "process"
    THEN {p \in DOMAIN table : to = "summary" \/ table[p].name # ""}
    ELSE {id \in DOMAIN table :
            LET h == HostOfId(kind, table, id)
            IN  IF to = "summary" THEN Included(h) ELSE Uploaded(h, Recorded(named, id, h))}

-----------------------------------------------------------------------------
(* In which order *)

\* topProcesses and, of the averages of the window, allUploadProcesses.
MoreCPU(a, b) == \/ a.cpu > b.cpu
                 \/ a.cpu = b.cpu /\ (a.rss > b.rss \/ (a.rss = b.rss /\ a.seen > b.seen))

\* topDomains.  Mutant: the bytes received come before the total.
MoreReceived(a, b) ==
  \/ a.rx > b.rx
  \/ a.rx = b.rx /\ (a.tx > b.tx \/ (a.tx = b.tx /\ a.seen > b.seen))
MoreBytes(a, b) ==
  \/ a.rx + a.tx > b.rx + b.tx
  \/ /\ a.rx + a.tx = b.rx + b.tx
     /\ \/ a.rx > b.rx
        \/ a.rx = b.rx /\ (a.tx > b.tx \/ (a.tx = b.tx /\ a.seen > b.seen))

\* allUploadDomains.
MoreUploadBytes(a, b) == \/ a.rx + a.tx > b.rx + b.tx
                         \/ (a.rx + a.tx = b.rx + b.tx /\ a.seen > b.seen)

Earlier(p, q) == \E i, j \in DOMAIN Programs : i < j /\ Programs[i] = p /\ Programs[j] = q

\* topConnections, allUploadConnections.
MoreTraffic(a, b) ==
  \/ a.total > b.total
  \/ /\ a.total = b.total
     /\ \/ a.seen > b.seen
        \/ /\ a.seen = b.seen
           /\ \/ Earlier(a.program, b.program)
              \/ a.program = b.program /\ Before(a.domain, b.domain)
MoreUploadTraffic(a, b) == a.total > b.total \/ (a.total = b.total /\ a.seen > b.seen)

Precedes(order, a, b) == CASE order = "cpu"            -> MoreCPU(a, b)
                           [] order = "bytes"          -> MoreBytes(a, b)
                           [] order = "traffic"        -> MoreTraffic(a, b)
                           [] order = "upload bytes"   -> MoreUploadBytes(a, b)
                           [] order = "upload traffic" -> MoreUploadTraffic(a, b)

\* The sequences in which sort.Slice may leave the ids S of a table.
Sorts(order, table, S) ==
  {q \in SetToSeqs(S) :
     \A i, j \in DOMAIN q : i < j => ~Precedes(order, table[q[j]], table[q[i]])}

Cut(q, n) == SubSeq(q, 1, IF n > Len(q) THEN Len(q) ELSE n)

-----------------------------------------------------------------------------
SummaryInit == Init /\ listing = None

\* The worker has the name: what the lookup kept is gone.
Assign == /\ stage = "done"
          /\ stage' = "named"
          /\ out' = <<>> /\ todo' = {} /\ best' = Blank
          /\ UNCHANGED <<name, listing>>

\* topProcesses, and topProcess, which sorts again.
ListProcesses ==
  \E table \in Tables(Ids, ProcessRecords) :
    \E all, again \in Sorts("cpu", table, Listable("summary", "process", table, {})) :
      listing' = [to |-> "summary", kind |-> "process", table |-> table, named |-> {},
                  list |-> Cut(all, Limit), first |-> Cut(again, 1)]

\* topDomains, topConnections.
ListLeading(kind, order, table) ==
  \E all \in Sorts(order, table, Listable("summary", kind, table, {})) :
    listing' = [to |-> "summary", kind |-> kind, table |-> table, named |-> {},
                list |-> Cut(all, Limit)]

ListDomains     == \E table \in Tables(Tracked, DomainRecords) : ListLeading("domain", "bytes", table)
ListConnections == \E table \in Tables(Ids, ConnectionRecords) : ListLeading("connection", "traffic", table)

\* allUploadProcesses, allUploadDomains, allUploadConnections.
ListAll(kind, order, table, named) ==
  \E all \in Sorts(order, table, Listable("upload", kind, table, named)) :
    listing' = [to |-> "upload", kind |-> kind, table |-> table, named |-> named, list |-> all]

UploadProcesses == \E table \in Tables(Ids, ProcessRecords) : ListAll("process", "cpu", table, {})
UploadDomains ==
  \E table \in Tables(Tracked, DomainRecords), named \in SUBSET {Address} :
    ListAll("domain", "upload bytes", table, named)
UploadConnections ==
  \E table \in Tables(Ids, ConnectionRecords) :
    \E named \in SUBSET {c \in DOMAIN table : table[c].domain = Address} :
      ListAll("connection", "upload traffic", table, named)

List == /\ stage = "named" /\ stage' = "listed"
        /\ \/ ListProcesses \/ ListDomains \/ ListConnections
           \/ UploadProcesses \/ UploadDomains \/ UploadConnections
        /\ UNCHANGED <<out, todo, best, name>>

SummaryNext == \/ Next /\ UNCHANGED listing
               \/ Assign
               \/ List
               \/ stage = "listed" /\ UNCHANGED ListingVars

SummarySpec == SummaryInit /\ [][SummaryNext]_ListingVars

-----------------------------------------------------------------------------
(* Properties *)

Busy(kind, r) == CASE kind = "process"    -> r.cpu
                   [] kind = "domain"     -> r.rx + r.tx
                   [] kind = "connection" -> r.total
BusyAt(l, id)   == Busy(l.kind, l.table[id])

\* The list is of listable ids, from the busiest down; only a summary leaves any
\* of them out, when it is full and they are no busier than what it has; and
\* TopProcess is as busy as the first of TopProcesses.
Busiest(l) ==
  LET S == Listable(l.to, l.kind, l.table, l.named)
  IN  /\ ToSet(l.list) \subseteq S
      /\ \A i, j \in DOMAIN l.list : i < j => BusyAt(l, l.list[i]) >= BusyAt(l, l.list[j])
      /\ \A id \in S \ ToSet(l.list) :
           /\ l.to = "summary" /\ Len(l.list) = Limit
           /\ \A t \in ToSet(l.list) : BusyAt(l, id) <= BusyAt(l, t)
      /\ l.to = "summary" /\ l.kind = "process" /\ S # {} =>
           BusyAt(l, l.first[1]) = BusyAt(l, l.list[1])

\* Every list runs from the busiest down; the upload leaves out nothing it may
\* list, and the summary only what is no busier than the whole list, though its
\* sort keeps no order of equals and TopProcess is sorted for apart.
BusiestListed == stage = "listed" => Busiest(listing)
=============================================================================
