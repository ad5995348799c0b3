------------------------------ MODULE Uploader ------------------------------
(***************************************************************************)
(* The uploader of dialtone-watcher (internal/watcher/upload.go) as the     *)
(* main goroutine drives it: every poll adds to the upload window; once the *)
(* window is as old as the interval it is posted to the backend; only a     *)
(* 2xx answer resets it.  The daemon may crash at any step, a final flush   *)
(* runs at shutdown, and a later daemon of the same machine starts afresh.  *)
(*                                                                         *)
(* A request that the client gave up on may still reach the backend, before *)
(* or after later ones.  A poll's now, taken before its work, is its time:  *)
(* the next poll's is later by one of Gaps, however long the request took.  *)
(***************************************************************************)
EXTENDS Integers, Sequences

CONSTANTS Interval,   \* config.Interval, the age at which a window is posted
          Gaps,       \* time that may pass between two polls
          Volumes,    \* bytes a poll may add to the window
          MaxTime     \* bound on the clock

ASSUME IntervalAssumption == Interval \in Nat \ {0}
ASSUME GapAssumption      == Gaps \subseteq Nat \ {0}
ASSUME VolumeAssumption   == Volumes \subseteq Nat
ASSUME MaxTimeAssumption  == MaxTime \in Nat

VARIABLES pc,         \* "down", "idle", "send", "await", and at shutdown
                      \* "lastsend", "lastawait"
          clock,      \* now of the latest poll or of the shutdown
          window,     \* u.window: startedAt (0 when zero), polls, bytes
          issued,     \* payloads posted
          received,   \* payloads the backend has processed
          acked,      \* payloads answered with 2xx in time
          log         \* history: time of every poll recorded, and the bytes
                      \* of all polls up to it

vars == <<pc, clock, window, issued, received, acked, log>>

NoWindow == [start |-> 0, polls |-> 0, bytes |-> 0]

\* ensureWindow: the first record of a process opens the window.
Opened(at) == IF window.start = 0 THEN [NoWindow EXCEPT !.start = at] ELSE window

\* Mutant: the age of the window is not looked at.
DueAtOnce(w, at) == w.start # 0 /\ w.polls # 0

\* shouldUpload, of the window w at time at.
Due(w, at) == w.start # 0 /\ w.polls # 0 /\ at - w.start >= Interval

\* buildPayload.  upto is a history field: the number of the last poll in it.
Payload(running) ==
  [running |-> running, start |-> window.start, end |-> clock,
   polls |-> window.polls, bytes |-> window.bytes, upto |-> Len(log)]

Payloads == [running : BOOLEAN, start : Nat, end : Nat,
             polls : Nat, bytes : Nat, upto : Nat]

\* Bytes of the first n polls of the log.
UpTo(n) == IF n = 0 THEN 0 ELSE log[n].total

Final == pc \in {"lastsend", "lastawait"}

-----------------------------------------------------------------------------
Init == /\ pc = "down" /\ clock = 0
        /\ window = NoWindow
        /\ issued = {} /\ received = {} /\ acked = {}
        /\ log = <<>>

\* A daemon starts: newUploader.
Start == /\ pc = "down" /\ pc' = "idle"
         /\ window' = NoWindow
         /\ UNCHANGED <<clock, issued, received, acked, log>>

\* pollOnce: recordProcesses, recordNetwork, incrementPoll, shouldUpload.
Poll(gap, bytes) ==
  /\ pc = "idle" /\ clock + gap <= MaxTime
  /\ clock' = clock + gap
  /\ window' = [Opened(clock') EXCEPT !.polls = @ + 1, !.bytes = @ + bytes]
  /\ log' = Append(log, [at |-> clock', total |-> UpTo(Len(log)) + bytes])
  /\ pc' = IF Due(window', clock') THEN "send" ELSE "idle"
  /\ UNCHANGED <<issued, received, acked>>

\* flush and shutdown's flush: the payload is built and posted.
Send == /\ pc \in {"send", "lastsend"}
        /\ issued' = issued \cup {Payload(~Final)}
        /\ pc' = IF Final THEN "lastawait" ELSE "await"
        /\ UNCHANGED <<clock, window, received, acked, log>>

\* The backend processes a request, perhaps long after the client gave up.
Arrive(p) == /\ p \in issued \ received
             /\ received' = received \cup {p}
             /\ UNCHANGED <<pc, clock, window, issued, acked, log>>

\* resetWindow.  Mutants: it clears the poll count and not the totals; it starts
\* the new window a moment back; it leaves the window alone.
ResetKeepsTotals == [window EXCEPT !.start = clock, !.polls = 0]
ResetBackdates   == [NoWindow EXCEPT !.start = clock - 1]
ResetNothing     == window
ResetWindow      == [NoWindow EXCEPT !.start = clock]

\* Mutant: any answer is taken for a 2xx.
AcceptedAnyway == /\ pc \in {"await", "lastawait"}
                  /\ acked' = acked \cup {Payload(~Final)}
                  /\ window' = ResetWindow
                  /\ pc' = IF Final THEN "down" ELSE "idle"
                  /\ UNCHANGED <<clock, issued, received, log>>

\* send returns nil, and the window is reset.
Accepted == /\ pc \in {"await", "lastawait"}
            /\ Payload(~Final) \in received
            /\ acked' = acked \cup {Payload(~Final)}
            /\ window' = ResetWindow
            /\ pc' = IF Final THEN "down" ELSE "idle"
            /\ UNCHANGED <<clock, issued, received, log>>

\* send returns an error (no connection, timeout, a status that is not 2xx):
\* pollOnce and shutdown drop it and the window stays.
Failed == /\ pc \in {"await", "lastawait"}
          /\ pc' = IF Final THEN "down" ELSE "idle"
          /\ UNCHANGED <<clock, window, issued, received, acked, log>>

\* shutdown: flush posts unless the window is empty.
Shutdown(gap) == /\ pc = "idle" /\ clock + gap <= MaxTime
                 /\ clock' = clock + gap
                 /\ pc' = IF window.start = 0 \/ window.polls = 0
                            THEN "down" ELSE "lastsend"
                 /\ UNCHANGED <<window, issued, received, acked, log>>

\* SIGKILL, power loss, or SIGTERM while no handler is installed.
Crash == /\ pc # "down" /\ pc' = "down"
         /\ UNCHANGED <<clock, window, issued, received, acked, log>>

Next == \/ Start \/ Send \/ Accepted \/ Failed \/ Crash
        \/ \E gap \in Gaps, bytes \in Volumes : Poll(gap, bytes)
        \/ \E gap \in Gaps : Shutdown(gap)
        \/ \E p \in issued : Arrive(p)

Spec == Init /\ [][Next]_vars

-----------------------------------------------------------------------------
(* Properties *)

\* Every variable keeps to its type.
TypeOK == /\ pc \in {"down", "idle", "send", "await", "lastsend", "lastawait"}
          /\ clock \in Nat
          /\ window \in [start : Nat, polls : Nat, bytes : Nat]
          /\ issued \in SUBSET Payloads
          /\ received \in SUBSET issued
          /\ acked \in SUBSET received
          /\ log \in Seq([at : Nat, total : Nat])

\* The polls of a payload's period, told from the log by their times alone.  A
\* poll at the very start belongs to it only when it opened the window; when
\* the window before was acknowledged at that moment it belongs to that one.
Continues(start)  == \E a \in acked : a.end = start
Within(i, start)  == start < log[i].at \/ (start = log[i].at /\ ~Continues(start))
Covered(p) == {i \in DOMAIN log : log[i].at <= p.end /\ Within(i, p.start)}

\* The polls in a payload's period are consecutive, and its poll count and byte
\* total are theirs: nothing recorded in it is missing and nothing else is in
\* it, through any history of failures, late arrivals, crashes and restarts
\* (incrementPoll, recordNetwork, resetWindow, ensureWindow).
PayloadExact ==
  \A p \in issued : \E from, to \in 0..Len(log) :
    /\ Covered(p) = (from + 1)..to
    /\ p.polls = to - from
    /\ p.bytes = UpTo(to) - UpTo(from)

\* Two payloads that were acknowledged while the daemon ran are an interval
\* apart: the backend confirms one rollup per interval and machine.
AckedSpaced == \A p, q \in acked : p.running /\ q.running /\ p.end < q.end
                                     => q.end - p.end >= Interval

\* Periods never overlap unless one payload repeats and extends the other.
PeriodsNest == \A p, q \in issued : \/ p.start = q.start
                                    \/ p.end <= q.start
                                    \/ q.end <= p.start

\* The windows of the code implement the ledger: the polls after the base are
\* the ones the window counts while the daemon is up, and forgotten when down.
Entry(p) == [from |-> p.upto - p.polls, to |-> p.upto]
Entries(S) == {Entry(p) : p \in S}
Books == INSTANCE Ledger WITH
           recorded <- Len(log),
           base     <- IF pc = "down" THEN Len(log) ELSE Len(log) - window.polls,
           issued   <- Entries(issued),
           received <- Entries(received),
           acked    <- Entries(acked)
LedgerSpec == Books!Spec
=============================================================================
