--------------------------- MODULE UploaderProofs ---------------------------
(***************************************************************************)
(* Proofs about Uploader.tla and the ledger it implements, for every        *)
(* interval, every gap between polls, every volume and any number of        *)
(* failures, late arrivals, crashes and restarts.                           *)
(***************************************************************************)
EXTENDS Uploader, SequenceTheorems, TLAPS

\* A window after a poll.
LEMMA OpenedType == ASSUME TypeOK, NEW at \in Nat
                    PROVE  Opened(at) \in [start : Nat, polls : Nat, bytes : Nat]
  BY DEF TypeOK, Opened, NoWindow

LEMMA PayloadType == ASSUME TypeOK, NEW r \in BOOLEAN PROVE Payload(r) \in Payloads
  BY DEF TypeOK, Payload, Payloads

\* Bytes of a prefix of the log.
LEMMA UpToType == ASSUME TypeOK, NEW n \in 0..Len(log) PROVE UpTo(n) \in Nat
<1>1. CASE n = 0
  BY <1>1 DEF UpTo
<1>2. CASE n # 0
  <2>1. Len(log) \in Nat /\ n \in 1..Len(log) /\ log \in Seq([at : Nat, total : Nat])
    BY <1>2 DEF TypeOK
  <2>2. log[n] \in [at : Nat, total : Nat]
    BY <2>1, ElementOfSeq
  <2> QED BY <1>2, <2>2 DEF UpTo
<1> QED BY <1>1, <1>2

LEMMA UploadTypeStep == TypeOK /\ [Next]_vars => TypeOK'
<1> SUFFICES ASSUME TypeOK, [Next]_vars PROVE TypeOK'
  OBVIOUS
<1> USE GapAssumption, VolumeAssumption, MaxTimeAssumption
<1>1. CASE Start
  BY <1>1 DEF TypeOK, Start, NoWindow
<1>2. ASSUME NEW gap \in Gaps, NEW b \in Volumes, Poll(gap, b) PROVE TypeOK'
  <2>1. clock' \in Nat
    BY <1>2 DEF TypeOK, Poll
  <2>2. Opened(clock') \in [start : Nat, polls : Nat, bytes : Nat]
    BY <2>1, OpenedType
  <2>3. window' \in [start : Nat, polls : Nat, bytes : Nat]
    <3>1. PICK w \in [start : Nat, polls : Nat, bytes : Nat] :
            window' = [w EXCEPT !.polls = @ + 1, !.bytes = @ + b]
      BY <1>2, <2>2 DEF Poll
    <3>2. window' = [start |-> w.start, polls |-> w.polls + 1, bytes |-> w.bytes + b]
      BY <3>1
    <3>3. b \in Nat
      OBVIOUS
    <3> QED BY <3>2, <3>3
  <2>4. log' \in Seq([at : Nat, total : Nat])
    <3>1. Len(log) \in 0..Len(log)
      BY DEF TypeOK
    <3>2. UpTo(Len(log)) \in Nat
      BY <3>1, UpToType
    <3>3. [at |-> clock', total |-> UpTo(Len(log)) + b] \in [at : Nat, total : Nat]
      BY <2>1, <3>2
    <3> QED BY <1>2, <3>3 DEF Poll, TypeOK
  <2> QED BY <1>2, <2>1, <2>3, <2>4 DEF TypeOK, Poll
<1>3. CASE Send
  BY <1>3, PayloadType DEF TypeOK, Send, Final
<1>4. ASSUME NEW p \in issued, Arrive(p) PROVE TypeOK'
  BY <1>4 DEF TypeOK, Arrive
<1>5. CASE Accepted
  BY <1>5 DEF TypeOK, Accepted, ResetWindow, NoWindow, Final
<1>6. CASE Failed
  BY <1>6 DEF TypeOK, Failed
<1>7. ASSUME NEW gap \in Gaps, Shutdown(gap) PROVE TypeOK'
  BY <1>7 DEF TypeOK, Shutdown
<1>8. CASE Crash
  BY <1>8 DEF TypeOK, Crash
<1>9. CASE UNCHANGED vars
  BY <1>9 DEF TypeOK, vars
<1> QED BY <1>1, <1>2, <1>3, <1>4, <1>5, <1>6, <1>7, <1>8, <1>9 DEF Next

\* Every variable keeps to its type.
THEOREM UploadTypeCorrect == Spec => []TypeOK
<1>1. Init => TypeOK
  BY DEF Init, TypeOK, NoWindow
<1> QED BY <1>1, UploadTypeStep, PTL DEF Spec

-----------------------------------------------------------------------------
(***************************************************************************)
(* Time.  A payload either belongs to the window that is open, or its       *)
(* period ended before that window opened; once acknowledged it does the    *)
(* latter.  A window that is being posted has polls, and, unless the daemon *)
(* is stopping, is as old as the interval.                                  *)
(***************************************************************************)
OpenSince == IF pc = "down" \/ window.start = 0 THEN clock ELSE window.start

Posting == pc \in {"send", "await", "lastsend", "lastawait"}

TimeInv ==
  /\ window.start <= clock
  /\ window.start = 0 => window.polls = 0 /\ window.bytes = 0
  /\ Posting => window.start # 0 /\ window.polls # 0
  /\ pc \in {"send", "await"} => clock - window.start >= Interval
  /\ \A p \in issued : p.end <= clock
  /\ \A p \in issued : p.end <= OpenSince \/ (pc # "down" /\ p.start = window.start)
  /\ \A p \in acked : p.end <= OpenSince

\* The window after a poll, field by field.
LEMMA PollWindow ==
  ASSUME TypeOK, TimeInv, NEW gap \in Gaps, NEW b \in Volumes, Poll(gap, b)
  PROVE  /\ clock' \in Nat /\ clock' > clock
         /\ window'.start = IF window.start = 0 THEN clock' ELSE window.start
         /\ window'.polls = window.polls + 1
         /\ window'.polls # 0
         /\ window'.start # 0
         /\ pc = "idle"
         /\ pc' = IF clock' - window'.start >= Interval THEN "send" ELSE "idle"
         /\ UNCHANGED <<issued, received, acked>>
<1> USE GapAssumption, VolumeAssumption
<1>1. clock' = clock + gap /\ clock' \in Nat /\ clock' > clock
  BY DEF Poll, TypeOK
<1>2. Opened(clock') \in [start : Nat, polls : Nat, bytes : Nat]
  BY <1>1, OpenedType
<1>3. window' = [Opened(clock') EXCEPT !.polls = @ + 1, !.bytes = @ + b]
  BY DEF Poll
<1>4. /\ window'.start = Opened(clock').start
      /\ window'.polls = Opened(clock').polls + 1
  BY <1>2, <1>3
<1>5. /\ Opened(clock').start = IF window.start = 0 THEN clock' ELSE window.start
      /\ Opened(clock').polls = window.polls
  BY DEF Opened, NoWindow, TimeInv, TypeOK
<1>6. window'.polls # 0 /\ window'.start # 0
  BY <1>1, <1>4, <1>5 DEF TypeOK
<1> QED BY <1>1, <1>4, <1>5, <1>6 DEF Poll, Due

LEMMA TimeStep == TypeOK /\ TimeInv /\ [Next]_vars => TimeInv'
<1> SUFFICES ASSUME TypeOK, TimeInv, [Next]_vars PROVE TimeInv'
  OBVIOUS
<1> USE IntervalAssumption, GapAssumption
<1>0. \A p \in issued : p.end \in Nat /\ p.start \in Nat
  BY DEF TypeOK, Payloads
<1>1. CASE Start
  BY <1>0, <1>1 DEF TypeOK, TimeInv, Start, NoWindow, OpenSince, Posting
<1>2. ASSUME NEW gap \in Gaps, NEW b \in Volumes, Poll(gap, b) PROVE TimeInv'
  <2>1. /\ clock' \in Nat /\ clock' > clock
        /\ window'.start = IF window.start = 0 THEN clock' ELSE window.start
        /\ window'.polls # 0
        /\ window'.start # 0
        /\ pc = "idle"
        /\ pc' = IF clock' - window'.start >= Interval THEN "send" ELSE "idle"
        /\ UNCHANGED <<issued, received, acked>>
    BY <1>2, PollWindow
  <2>2. clock \in Nat /\ window.start \in Nat /\ acked \subseteq issued
    BY DEF TypeOK
  <2>3. OpenSince' = window'.start /\ OpenSince <= OpenSince'
    BY <2>1, <2>2 DEF OpenSince, TimeInv
  <2>4. \A p \in issued : p.end <= OpenSince' \/ (pc' # "down" /\ p.start = window'.start)
    BY <1>0, <2>1, <2>2, <2>3 DEF TimeInv, OpenSince
  <2>5. \A p \in acked : p.end <= OpenSince'
    BY <1>0, <2>1, <2>2, <2>3 DEF TimeInv, OpenSince
  <2>6. window'.start <= clock'
    BY <2>1, <2>2 DEF TimeInv
  <2>7. \A p \in issued : p.end <= clock'
    BY <1>0, <2>1, <2>2 DEF TimeInv
  <2>8. Posting' => window'.start # 0 /\ window'.polls # 0
    BY <2>1
  <2>9. pc' \in {"send", "await"} => clock' - window'.start >= Interval
    BY <2>1
  <2> QED BY <2>1, <2>4, <2>5, <2>6, <2>7, <2>8, <2>9 DEF TimeInv
<1>3. CASE Send
  <2>1. issued' = issued \cup {Payload(~Final)} /\ UNCHANGED <<clock, window, acked>>
    BY <1>3 DEF Send
  <2>2. Payload(~Final).end = clock /\ Payload(~Final).start = window.start
    BY DEF Payload
  <2>3. Posting /\ Posting' /\ pc' # "down" /\ pc # "down" /\ OpenSince' = OpenSince
    BY <1>3, <2>1 DEF Send, Posting, OpenSince, Final
  <2>4. pc' \in {"send", "await"} => pc \in {"send", "await"}
    BY <1>3 DEF Send, Final
  <2>5. \A p \in issued' : \/ p \in issued
                           \/ p.end = clock /\ p.start = window.start
    BY <2>1, <2>2
  <2>6. clock \in Nat
    BY DEF TypeOK
  <2>7. \A p \in issued' : p.end <= clock
    BY <2>5, <2>6 DEF TimeInv
  <2>8. \A p \in issued' : p.end <= OpenSince \/ p.start = window.start
    BY <2>5 DEF TimeInv
  <2> QED BY <2>1, <2>3, <2>4, <2>7, <2>8 DEF TimeInv
<1>4. ASSUME NEW p \in issued, Arrive(p) PROVE TimeInv'
  BY <1>4 DEF TimeInv, Arrive, OpenSince, Posting
<1>5. CASE Accepted
  <2>1. /\ window'.start = clock /\ window'.polls = 0 /\ window'.bytes = 0
        /\ UNCHANGED <<clock, issued>>
        /\ acked' \subseteq issued
        /\ pc' \in {"down", "idle"}
    BY <1>5 DEF Accepted, ResetWindow, NoWindow, TypeOK
  <2>2. OpenSince' = clock
    BY <2>1 DEF OpenSince
  <2> QED BY <1>0, <2>1, <2>2 DEF TimeInv, Posting, TypeOK
<1>6. CASE Failed
  <2>1. pc' \in {"down", "idle"} /\ UNCHANGED <<clock, window, issued, acked>>
    BY <1>6 DEF Failed
  <2>2. OpenSince \in Nat /\ OpenSince <= clock
    BY DEF TypeOK, OpenSince, TimeInv
  <2>3. OpenSince' = IF pc' = "down" THEN clock ELSE OpenSince
    BY <1>6, <2>1 DEF Failed, OpenSince
  <2>4. acked \subseteq issued /\ clock \in Nat
    BY DEF TypeOK
  <2> QED BY <1>0, <2>1, <2>2, <2>3, <2>4, <1>6 DEF TimeInv, Posting, Failed
<1>7. ASSUME NEW gap \in Gaps, Shutdown(gap) PROVE TimeInv'
  <2>1. /\ clock' \in Nat /\ clock' > clock /\ clock \in Nat
        /\ pc = "idle" /\ pc' \in {"down", "lastsend"}
        /\ pc' = "lastsend" => window.start # 0 /\ window.polls # 0
        /\ UNCHANGED <<window, issued, acked>>
    BY <1>7 DEF Shutdown, TypeOK
  <2>2. OpenSince \in Nat /\ OpenSince <= clock /\ acked \subseteq issued /\ window.start \in Nat
    BY DEF TypeOK, OpenSince, TimeInv
  <2>3. OpenSince' = IF pc' = "down" THEN clock' ELSE OpenSince
    BY <2>1 DEF OpenSince
  <2> QED BY <1>0, <2>1, <2>2, <2>3 DEF TimeInv, Posting
<1>8. CASE Crash
  <2>1. pc' = "down" /\ UNCHANGED <<clock, window, issued, acked>> /\ acked \subseteq issued
    BY <1>8 DEF Crash, TypeOK
  <2> QED BY <2>1 DEF TimeInv, Posting, OpenSince
<1>9. CASE UNCHANGED vars
  BY <1>9 DEF TimeInv, Posting, OpenSince, vars
<1> QED BY <1>1, <1>2, <1>3, <1>4, <1>5, <1>6, <1>7, <1>8, <1>9 DEF Next

LEMMA TimeCorrect == Spec => []TimeInv
<1>1. Init => TimeInv
  BY DEF Init, TimeInv, NoWindow, Posting, OpenSince
<1> QED BY <1>1, TimeStep, UploadTypeCorrect, PTL DEF Spec

\* A step that changes issued posts the open window; one that changes acked
\* settles it.
LEMMA IssuedStep == [Next]_vars => \/ UNCHANGED issued
                                   \/ Send
BY DEF Next, vars, Start, Poll, Arrive, Accepted, ResetWindow, Failed, Shutdown, Crash

LEMMA AckedStep == [Next]_vars => \/ UNCHANGED acked
                                  \/ Accepted
BY DEF Next, vars, Start, Poll, Send, Arrive, Failed, Shutdown, Crash

\* Whatever fails, the periods of two payloads are disjoint or start together.
THEOREM PeriodsCorrect == Spec => []PeriodsNest
<1>1. Init => PeriodsNest
  BY DEF Init, PeriodsNest
<1>2. ASSUME TypeOK, TimeInv, PeriodsNest, [Next]_vars PROVE PeriodsNest'
  <2>1. CASE UNCHANGED issued
    BY <1>2, <2>1 DEF PeriodsNest
  <2>2. CASE Send
    <3>1. issued' = issued \cup {Payload(~Final)} /\ pc # "down" /\ window.start # 0
      BY <1>2, <2>2 DEF Send, TimeInv, Posting
    <3>2. Payload(~Final).start = window.start /\ OpenSince = window.start
      BY <3>1 DEF Payload, OpenSince
    <3>3. \A p \in issued : p.start = window.start \/ p.end <= window.start
      BY <1>2, <3>2 DEF TimeInv
    <3> QED BY <1>2, <3>1, <3>2, <3>3 DEF PeriodsNest
  <2> QED BY <1>2, <2>1, <2>2, IssuedStep
<1> QED BY <1>1, <1>2, UploadTypeCorrect, TimeCorrect, PTL DEF Spec

\* Acknowledged payloads of a running daemon are an interval apart.
THEOREM SpacingCorrect == Spec => []AckedSpaced
<1>1. Init => AckedSpaced
  BY DEF Init, AckedSpaced
<1>2. ASSUME TypeOK, TimeInv, AckedSpaced, [Next]_vars PROVE AckedSpaced'
  <2>1. CASE UNCHANGED acked
    BY <1>2, <2>1 DEF AckedSpaced
  <2>2. CASE Accepted
    <3> DEFINE new == Payload(~Final)
    <3>1. acked' = acked \cup {new} /\ new.end = clock /\ pc \in {"await", "lastawait"}
      BY <2>2 DEF Accepted, ResetWindow, Payload
    <3>2. new.running = (pc = "await")
      BY <3>1 DEF Payload, Final
    <3>3. OpenSince = window.start
      BY <1>2, <3>1 DEF TimeInv, OpenSince, Posting
    <3>4. \A p \in acked : p.end <= window.start /\ p.end <= clock
      BY <1>2, <3>3 DEF TimeInv, TypeOK
    <3>5. clock \in Nat /\ window.start \in Nat /\ \A p \in acked : p.end \in Nat
      BY <1>2 DEF TypeOK, Payloads
    <3>6. new.running => clock - window.start >= Interval
      BY <1>2, <3>1, <3>2 DEF TimeInv
    <3> HIDE DEF new
    <3>7. ASSUME NEW p \in acked', NEW q \in acked', p.running, q.running, p.end < q.end
          PROVE  q.end - p.end >= Interval
      <4>1. CASE q = new /\ p \in acked
        BY <3>1, <3>4, <3>5, <3>6, <3>7, <4>1, IntervalAssumption
      <4>2. CASE p = new
        BY <3>1, <3>4, <3>5, <3>7, <4>2
      <4>3. CASE p \in acked /\ q \in acked
        BY <1>2, <3>7, <4>3 DEF AckedSpaced
      <4> QED BY <3>1, <4>1, <4>2, <4>3
    <3> QED BY <3>7 DEF AckedSpaced
  <2> QED BY <1>2, <2>1, <2>2, AckedStep
<1> QED BY <1>1, <1>2, UploadTypeCorrect, TimeCorrect, PTL DEF Spec

-----------------------------------------------------------------------------
(***************************************************************************)
(* What payloads hold.  The polls of a payload, and of the open window, are *)
(* the last ones of the log at its time, and those that the log's times put *)
(* into its period.                                                         *)
(***************************************************************************)
Bytes(l, n)       == IF n = 0 THEN 0 ELSE l[n].total
Settled(a, s)     == \E p \in a : p.end = s
After(l, a, i, s) == s < l[i].at \/ (s = l[i].at /\ ~Settled(a, s))

\* Of a payload p, when l is the log and a what was acknowledged.
Holds(l, a, p) ==
  /\ p.upto \in 0..Len(l) /\ p.polls <= p.upto /\ p.start < p.end
  /\ \A i \in 1..Len(l) : /\ After(l, a, i, p.start) <=> p.upto - p.polls < i
                          /\ l[i].at <= p.end <=> i <= p.upto
  /\ p.bytes = Bytes(l, p.upto) - Bytes(l, p.upto - p.polls)

\* Of the window w.
WindowHolds(l, a, w) ==
  /\ w.polls <= Len(l)
  /\ w.start # 0 => \A i \in 1..Len(l) : After(l, a, i, w.start) <=> Len(l) - w.polls < i
  /\ w.bytes = Bytes(l, Len(l)) - Bytes(l, Len(l) - w.polls)

LogInv == /\ \A i \in 1..Len(log) : log[i].at <= clock
          /\ pc \in {"lastsend", "lastawait"} => window.start < clock
          /\ WindowHolds(log, acked, window)
          /\ \A p \in issued : Holds(log, acked, p)

\* The log after a poll.
LEMMA LogGrows ==
  ASSUME TypeOK, TimeInv, clock' \in Nat, NEW gap \in Gaps, NEW b \in Volumes, Poll(gap, b)
  PROVE  /\ Len(log') = Len(log) + 1
         /\ \A i \in 1..Len(log) : log'[i] = log[i]
         /\ \A n \in 0..Len(log) : Bytes(log', n) = Bytes(log, n)
         /\ log'[Len(log) + 1].at = clock'
         /\ Bytes(log', Len(log) + 1) = Bytes(log, Len(log)) + b
         /\ window'.bytes = window.bytes + b
<1>0. Len(log) \in Nat /\ log \in Seq([at : Nat, total : Nat])
  BY DEF TypeOK
<1>1. log' = Append(log, [at |-> clock', total |-> Bytes(log, Len(log)) + b])
  BY DEF Poll, UpTo, Bytes
<1> DEFINE e == [at |-> clock', total |-> Bytes(log, Len(log)) + b]
<1>2. e.at = clock' /\ e.total = Bytes(log, Len(log)) + b
  OBVIOUS
<1>3. Len(log') = Len(log) + 1 /\ (\A i \in 1..Len(log) : log'[i] = log[i]) /\ log'[Len(log) + 1] = e
  <2> HIDE DEF e
  <2> QED BY <1>0, <1>1 DEF e
<1>4. \A n \in 0..Len(log) : Bytes(log', n) = Bytes(log, n)
  BY <1>0, <1>3 DEF Bytes
<1>5. Bytes(log', Len(log) + 1) = Bytes(log, Len(log)) + b
  <2>1. Len(log) + 1 # 0
    BY <1>0
  <2>2. Bytes(log', Len(log) + 1) = e.total
    BY <1>3, <2>1 DEF Bytes
  <2> QED BY <1>2, <2>2
<1>6. window'.bytes = window.bytes + b
  <2>1. Opened(clock') \in [start : Nat, polls : Nat, bytes : Nat]
    BY OpenedType
  <2>2. window' = [Opened(clock') EXCEPT !.polls = @ + 1, !.bytes = @ + b]
    BY DEF Poll
  <2>3. Opened(clock').bytes = window.bytes
    BY DEF Opened, NoWindow, TimeInv
  <2> QED BY <2>1, <2>2, <2>3
<1> QED BY <1>2, <1>3, <1>4, <1>5, <1>6

LEMMA LogStep == TypeOK /\ TimeInv /\ LogInv /\ [Next]_vars => LogInv'
<1> SUFFICES ASSUME TypeOK, TimeInv, LogInv, [Next]_vars PROVE LogInv'
  OBVIOUS
<1> USE IntervalAssumption, GapAssumption, VolumeAssumption
<1>0. /\ clock \in Nat /\ Len(log) \in Nat
      /\ window.start \in Nat /\ window.polls \in Nat /\ window.bytes \in Nat
      /\ acked \subseteq issued
      /\ \A p \in issued : p.start \in Nat /\ p.end \in Nat /\ p.polls \in Nat /\ p.upto \in Nat
  BY DEF TypeOK, Payloads
<1>a. \A i \in 1..Len(log) : log[i] \in [at : Nat, total : Nat]
  BY ElementOfSeq DEF TypeOK
<1>b. \A n \in 0..Len(log) : Bytes(log, n) \in Nat
  BY <1>0, <1>a DEF Bytes
<1>1. CASE Start
  <2>1. window' = NoWindow /\ pc' = "idle" /\ UNCHANGED <<clock, issued, acked, log>>
    BY <1>1 DEF Start
  <2>2. NoWindow.start = 0 /\ NoWindow.polls = 0 /\ NoWindow.bytes = 0
    BY DEF NoWindow
  <2>3. Len(log) \in 0..Len(log) /\ Len(log) - 0 = Len(log)
    BY <1>0
  <2>4. WindowHolds(log, acked, NoWindow)
    BY <1>0, <1>b, <2>2, <2>3 DEF WindowHolds
  <2> QED BY <2>1, <2>4 DEF LogInv
<1>2. ASSUME NEW gap \in Gaps, NEW b \in Volumes, Poll(gap, b) PROVE LogInv'
  <2>1. /\ clock' \in Nat /\ clock' > clock
        /\ window'.start = IF window.start = 0 THEN clock' ELSE window.start
        /\ window'.polls = window.polls + 1
        /\ pc' \in {"send", "idle"}
        /\ UNCHANGED <<issued, acked>>
    BY <1>2, PollWindow
  <2> DEFINE n == Len(log) + 1
  <2>2. /\ Len(log') = n
        /\ \A i \in 1..Len(log) : log'[i] = log[i]
        /\ \A m \in 0..Len(log) : Bytes(log', m) = Bytes(log, m)
        /\ log'[n].at = clock'
        /\ Bytes(log', n) = Bytes(log, Len(log)) + b
        /\ window'.bytes = window.bytes + b
    BY <1>2, <2>1, LogGrows
  <2>3. n \in Nat /\ Len(log) < n /\ \A i \in 1..n : i \in 1..Len(log) \/ i = n
    BY <1>0
  <2> HIDE DEF n
  <2>4. \A i \in 1..n : log'[i].at <= clock'
    <3>1. \A i \in 1..Len(log) : log[i].at \in Nat /\ log[i].at <= clock
      BY <1>a DEF LogInv
    <3>2. \A i \in 1..Len(log) : log'[i].at <= clock'
      BY <1>0, <2>1, <2>2, <3>1
    <3>3. log'[n].at <= clock'
      BY <2>1, <2>2
    <3> QED BY <2>3, <3>2, <3>3
  <2>5. \A i \in 1..Len(log), s \in Nat : After(log', acked, i, s) <=> After(log, acked, i, s)
    BY <2>2 DEF After
  <2>6. \A s \in Nat : s <= clock => After(log', acked, n, s)
    BY <1>0, <2>1, <2>2 DEF After
  <2>7. ASSUME NEW p \in issued PROVE Holds(log', acked, p)
    <3>1. Holds(log, acked, p) /\ p.end <= clock
      BY DEF LogInv, TimeInv
    <3>2. /\ p.upto \in 0..Len(log) /\ p.polls <= p.upto /\ p.start < p.end
          /\ \A i \in 1..Len(log) : /\ After(log, acked, i, p.start) <=> p.upto - p.polls < i
                                    /\ log[i].at <= p.end <=> i <= p.upto
          /\ p.bytes = Bytes(log, p.upto) - Bytes(log, p.upto - p.polls)
      BY <3>1 DEF Holds
    <3>3. After(log', acked, n, p.start) /\ p.upto - p.polls < n
      BY <1>0, <2>3, <2>6, <3>1, <3>2
    <3>4. ~(log'[n].at <= p.end) /\ ~(n <= p.upto)
      BY <1>0, <2>1, <2>2, <2>3, <3>1, <3>2
    <3>5. \A i \in 1..n : /\ After(log', acked, i, p.start) <=> p.upto - p.polls < i
                          /\ log'[i].at <= p.end <=> i <= p.upto
      <4> TAKE i \in 1..n
      <4>1. CASE i = n
        BY <3>3, <3>4, <4>1
      <4>2. CASE i \in 1..Len(log)
        BY <1>0, <2>2, <2>5, <3>2, <4>2
      <4> QED BY <2>3, <4>1, <4>2
    <3>6. p.upto - p.polls \in 0..Len(log) /\ p.upto \in 0..n
      BY <1>0, <2>3, <3>2
    <3>7. p.bytes = Bytes(log', p.upto) - Bytes(log', p.upto - p.polls)
      BY <2>2, <3>2, <3>6
    <3> QED BY <2>2, <3>2, <3>5, <3>6, <3>7 DEF Holds
  <2>8. WindowHolds(log', acked, window')
    <3>1. /\ window.polls <= Len(log)
          /\ window.start # 0 =>
               \A i \in 1..Len(log) : After(log, acked, i, window.start) <=> Len(log) - window.polls < i
          /\ window.bytes = Bytes(log, Len(log)) - Bytes(log, Len(log) - window.polls)
      BY DEF LogInv, WindowHolds
    <3>2. /\ window'.polls <= n /\ n - window'.polls = Len(log) - window.polls
          /\ Len(log) - window.polls \in 0..Len(log) /\ Len(log) \in 0..Len(log)
      BY <1>0, <2>1, <3>1 DEF n
    <3>3. window'.bytes = Bytes(log', n) - Bytes(log', n - window'.polls)
      BY <1>b, <2>2, <3>1, <3>2
    <3>4. CASE window.start # 0
      <4>1. window'.start = window.start /\ After(log', acked, n, window.start)
        BY <1>0, <2>1, <2>6, <3>4 DEF TimeInv
      <4>2. Len(log) - window.polls < n
        BY <1>0, <2>3
      <4>3. \A i \in 1..n : After(log', acked, i, window.start) <=> Len(log) - window.polls < i
        BY <1>0, <2>3, <2>5, <3>1, <3>4, <4>1, <4>2
      <4> QED BY <2>2, <3>2, <3>3, <4>1, <4>3 DEF WindowHolds
    <3>5. CASE window.start = 0
      <4>1. window'.start = clock' /\ Len(log) - window.polls = Len(log)
        BY <1>0, <2>1, <3>5 DEF TimeInv
      <4>2. ~Settled(acked, clock')
        BY <1>0, <2>1 DEF Settled, TimeInv
      <4>3. \A i \in 1..n : After(log', acked, i, clock') <=> Len(log) < i
        <5> TAKE i \in 1..n
        <5>1. CASE i = n
          BY <2>2, <2>3, <4>2, <5>1 DEF After
        <5>2. CASE i \in 1..Len(log)
          BY <1>0, <1>a, <2>1, <2>2, <5>2 DEF After, LogInv
        <5> QED BY <2>3, <5>1, <5>2
      <4> QED BY <2>2, <3>2, <3>3, <4>1, <4>3 DEF WindowHolds
    <3> QED BY <3>4, <3>5
  <2> QED BY <2>1, <2>2, <2>4, <2>7, <2>8 DEF LogInv
<1>3. CASE Send
  <2> DEFINE new == Payload(~Final)
  <2>1. /\ issued' = issued \cup {new} /\ UNCHANGED <<clock, window, acked, log>>
        /\ pc' \in {"lastsend", "lastawait"} => pc \in {"lastsend", "lastawait"}
        /\ pc \in {"send", "lastsend"}
    BY <1>3 DEF Send, Final
  <2>2. /\ new.start = window.start /\ new.end = clock /\ new.polls = window.polls
        /\ new.bytes = window.bytes /\ new.upto = Len(log)
    BY DEF Payload
  <2>3. window.start # 0 /\ window.start < clock
    BY <1>0, <2>1 DEF TimeInv, LogInv, Posting
  <2> HIDE DEF new
  <2>4. \A i \in 1..Len(log) : log[i].at <= clock <=> i <= Len(log)
    BY <1>0 DEF LogInv
  <2>5. Holds(log, acked, new)
    BY <1>0, <2>2, <2>3, <2>4 DEF Holds, LogInv, WindowHolds
  <2> QED BY <2>1, <2>5 DEF LogInv
<1>4. ASSUME NEW p \in issued, Arrive(p) PROVE LogInv'
  BY <1>4 DEF LogInv, Arrive
<1>5. CASE Accepted
  <2>1. /\ window'.start = clock /\ window'.polls = 0 /\ window'.bytes = 0
        /\ UNCHANGED <<clock, issued, log>>
        /\ acked' = acked \cup {Payload(~Final)}
        /\ pc' \in {"down", "idle"}
    BY <1>5 DEF Accepted, ResetWindow, NoWindow
  <2>2. Payload(~Final).end = clock
    BY DEF Payload
  <2>3. \A s : Settled(acked', s) <=> Settled(acked, s) \/ s = clock
    BY <2>1, <2>2 DEF Settled
  <2>4. ASSUME NEW p \in issued PROVE Holds(log, acked', p)
    <3>1. Holds(log, acked, p) /\ p.start # clock
      BY <1>0 DEF LogInv, TimeInv, Holds
    <3>2. \A i \in 1..Len(log) : After(log, acked', i, p.start) <=> After(log, acked, i, p.start)
      BY <2>3, <3>1 DEF After
    <3> QED BY <3>1, <3>2 DEF Holds
  <2>5. WindowHolds(log, acked', window')
    <3>1. \A i \in 1..Len(log) : ~After(log, acked', i, clock) /\ ~(Len(log) < i)
      BY <1>0, <1>a, <2>3 DEF After, LogInv
    <3>2. Len(log) - 0 = Len(log) /\ Len(log) \in 0..Len(log)
      BY <1>0
    <3>3. Bytes(log, Len(log)) - Bytes(log, Len(log)) = 0
      BY <1>b, <3>2
    <3>4. Len(log) - window'.polls = Len(log) /\ window'.polls <= Len(log)
      BY <1>0, <2>1, <3>2
    <3>5. window'.bytes = Bytes(log, Len(log)) - Bytes(log, Len(log) - window'.polls)
      BY <2>1, <3>3, <3>4
    <3>6. \A i \in 1..Len(log) :
            After(log, acked', i, window'.start) <=> Len(log) - window'.polls < i
      BY <2>1, <3>1, <3>4
    <3> QED BY <3>4, <3>5, <3>6 DEF WindowHolds
  <2> QED BY <2>1, <2>4, <2>5 DEF LogInv
<1>6. CASE Failed
  BY <1>6 DEF LogInv, Failed
<1>7. ASSUME NEW gap \in Gaps, Shutdown(gap) PROVE LogInv'
  <2>1. clock' > clock /\ clock' \in Nat /\ UNCHANGED <<window, issued, acked, log>>
    BY <1>0, <1>7 DEF Shutdown
  <2>2. \A i \in 1..Len(log) : log[i].at <= clock'
    BY <1>0, <1>a, <2>1 DEF LogInv
  <2>3. window.start < clock'
    BY <1>0, <2>1 DEF TimeInv
  <2> QED BY <2>1, <2>2, <2>3 DEF LogInv
<1>8. CASE Crash
  BY <1>8 DEF LogInv, Crash
<1>9. CASE UNCHANGED vars
  BY <1>9 DEF LogInv, vars
<1> QED BY <1>1, <1>2, <1>3, <1>4, <1>5, <1>6, <1>7, <1>8, <1>9 DEF Next

\* A payload has the polls of its period, all of them and no other, and their
\* bytes.
THEOREM PayloadCorrect == Spec => []PayloadExact
<1>1. Init => LogInv
  BY DEF Init, LogInv, WindowHolds, NoWindow, Bytes
<1>2. TypeOK /\ LogInv => PayloadExact
  <2> SUFFICES ASSUME TypeOK, LogInv, NEW p \in issued
               PROVE  \E from, to \in 0..Len(log) :
                        /\ Covered(p) = (from + 1)..to
                        /\ p.polls = to - from
                        /\ p.bytes = UpTo(to) - UpTo(from)
    BY DEF PayloadExact
  <2>1. Holds(log, acked, p) /\ p.polls \in Nat /\ p.upto \in Nat /\ Len(log) \in Nat /\ DOMAIN log = 1..Len(log)
    BY DEF LogInv, TypeOK, Payloads
  <2>2. p.upto - p.polls \in 0..Len(log) /\ p.upto \in 0..Len(log)
    BY <2>1 DEF Holds
  <2>3. Covered(p) = (p.upto - p.polls + 1)..p.upto
    BY <2>1, <2>2 DEF Holds, Covered, Within, After, Continues, Settled
  <2>4. p.polls = p.upto - (p.upto - p.polls)
    BY <2>1
  <2> QED BY <2>1, <2>2, <2>3, <2>4 DEF Holds, UpTo, Bytes
<1> QED BY <1>1, <1>2, LogStep, UploadTypeCorrect, TimeCorrect, PTL DEF Spec

-----------------------------------------------------------------------------
(***************************************************************************)
(* The refinement of the ledger.                                            *)
(***************************************************************************)
Base == IF pc = "down" THEN Len(log) ELSE Len(log) - window.polls

LEMMA EntriesAdd == ASSUME NEW S, NEW p PROVE Entries(S \cup {p}) = Entries(S) \cup {Entry(p)}
  BY DEF Entries

\* The payload being posted is the ledger's report.
LEMMA PayloadEntry == ASSUME TypeOK, NEW r \in BOOLEAN, pc # "down"
                      PROVE  Entry(Payload(r)) = Books!Report
  BY DEF Entry, Payload, Books!Report

LEMMA BooksInit == Init => Books!Init
  BY DEF Init, Books!Init, Entries

LEMMA BooksStep == TypeOK /\ TimeInv /\ [Next]_vars => [Books!Next]_(Books!vars)
<1> SUFFICES ASSUME TypeOK, TimeInv, [Next]_vars PROVE [Books!Next]_(Books!vars)
  OBVIOUS
<1>0. Len(log) \in Nat /\ window.polls \in Nat
  BY DEF TypeOK
<1>1. CASE Start
  BY <1>0, <1>1 DEF Start, NoWindow, Books!vars
<1>2. ASSUME NEW gap \in Gaps, NEW b \in Volumes, Poll(gap, b)
      PROVE  [Books!Next]_(Books!vars)
  <2>1. window'.polls = window.polls + 1 /\ pc = "idle" /\ pc' \in {"idle", "send"}
        /\ UNCHANGED <<issued, received, acked>>
    BY <1>2, PollWindow
  <2>2. Len(log') = Len(log) + 1
    BY <1>2 DEF Poll, TypeOK
  <2>3. Base' = Base
    BY <1>0, <2>1, <2>2 DEF Base
  <2> QED BY <2>1, <2>2, <2>3 DEF Books!Next, Books!Record, Base
<1>3. CASE Send
  <2>1. issued' = issued \cup {Payload(~Final)} /\ pc # "down" /\ pc' # "down"
        /\ UNCHANGED <<window, received, acked, log>>
    BY <1>3 DEF Send
  <2>2. Entries(issued') = Entries(issued) \cup {Books!Report}
    BY <2>1, EntriesAdd, PayloadEntry
  <2>3. window.polls # 0
    BY <1>3 DEF TimeInv, Send, Posting
  <2>4. Len(log) - window.polls < Len(log)
    BY <1>0, <2>3
  <2>5. Books!Issue
    BY <2>1, <2>2, <2>4 DEF Books!Issue
  <2> QED BY <2>5 DEF Books!Next
<1>4. ASSUME NEW p \in issued, Arrive(p) PROVE [Books!Next]_(Books!vars)
  <2>1. received' = received \cup {p} /\ UNCHANGED <<pc, window, issued, acked, log>>
    BY <1>4 DEF Arrive
  <2>2. Entries(received') = Entries(received) \cup {Entry(p)} /\ Entry(p) \in Entries(issued)
    BY <2>1, EntriesAdd DEF Entries
  <2> QED BY <2>1, <2>2 DEF Books!Next, Books!Receive
<1>5. CASE Accepted
  <2>1. /\ Payload(~Final) \in received /\ acked' = acked \cup {Payload(~Final)}
        /\ window'.polls = 0 /\ pc # "down"
        /\ UNCHANGED <<issued, received, log>>
    BY <1>5 DEF Accepted, ResetWindow, NoWindow
  <2>2. Books!Report \in Entries(received) /\ Entries(acked') = Entries(acked) \cup {Books!Report}
    <3>1. Entry(Payload(~Final)) = Books!Report
      BY <2>1, PayloadEntry
    <3>2. Entries(acked') = Entries(acked) \cup {Entry(Payload(~Final))}
      BY <2>1, EntriesAdd
    <3>3. Entry(Payload(~Final)) \in Entries(received)
      BY <2>1 DEF Entries
    <3> QED BY <3>1, <3>2, <3>3
  <2>3. Base' = Len(log)
    BY <1>0, <2>1 DEF Base
  <2> QED BY <2>1, <2>2, <2>3 DEF Books!Next, Books!Settle, Base
<1>6. CASE Failed
  <2>1. UNCHANGED <<window, issued, received, acked, log>> /\ pc # "down"
    BY <1>6 DEF Failed
  <2> QED BY <2>1 DEF Books!Next, Books!Forget, Books!vars
<1>7. ASSUME NEW gap \in Gaps, Shutdown(gap) PROVE [Books!Next]_(Books!vars)
  <2>1. UNCHANGED <<window, issued, received, acked, log>> /\ pc # "down"
    BY <1>7 DEF Shutdown
  <2> QED BY <2>1 DEF Books!Next, Books!Forget, Books!vars
<1>8. CASE Crash
  <2>1. UNCHANGED <<window, issued, received, acked, log>> /\ pc' = "down"
    BY <1>8 DEF Crash
  <2> QED BY <2>1 DEF Books!Next, Books!Forget
<1>9. CASE UNCHANGED vars
  BY <1>9 DEF vars, Books!vars
<1> QED BY <1>1, <1>2, <1>3, <1>4, <1>5, <1>6, <1>7, <1>8, <1>9 DEF Next

\* The upload windows keep the ledger.
THEOREM ImplementsLedger == Spec => LedgerSpec
  BY BooksInit, BooksStep, UploadTypeCorrect, TimeCorrect, PTL
     DEF Spec, LedgerSpec, Books!Spec

-----------------------------------------------------------------------------
\* What LedgerProofs shows of every ledger holds of the windows.
Proved == INSTANCE LedgerProofs WITH
            recorded <- Len(log),
            base     <- IF pc = "down" THEN Len(log) ELSE Len(log) - window.polls,
            issued   <- Entries(issued),
            received <- Entries(received),
            acked    <- Entries(acked)

\* Whatever the network does, a backend that keeps the longest payload it has
\* received for each start counts no poll twice and has all that it confirmed.
THEOREM NothingCountedTwice ==
  Spec => [](Proved!NeverOverlap /\ Proved!AckedIsLongest)
<1>1. Books!Init => Proved!Init
  BY DEF Books!Init, Proved!Init
<1>2. [Books!Next]_(Books!vars) => [Proved!Next]_(Proved!vars)
  BY DEF Books!Next, Proved!Next, Books!vars, Proved!vars, Books!Record, Proved!Record,
     Books!Issue, Proved!Issue, Books!Receive, Proved!Receive, Books!Settle, Proved!Settle,
     Books!Forget, Proved!Forget, Books!Report, Proved!Report
<1> QED BY <1>1, <1>2, ImplementsLedger, Proved!LedgerCorrect, PTL
           DEF LedgerSpec, Books!Spec, Proved!Spec
=============================================================================
