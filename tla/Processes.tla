----------------------------- MODULE Processes -----------------------------
(***************************************************************************)
(* The process table of dialtone-watcher: what pollProcessesLocked          *)
(* (watcher.go) keeps of the processes of the machine from poll to poll,    *)
(* and what recordProcesses (upload.go) adds to the upload window at each   *)
(* poll, namely every process of the table, whether listed this time or     *)
(* kept from before.                                                        *)
(*                                                                         *)
(* A poll lists the pids first and reads each process afterwards; by then   *)
(* it may have ended, and reads as no name, no command and zero, or its pid *)
(* may be that of another program.  The reads are one step, and what a      *)
(* program that ends between the read of its name and of its command leaves *)
(* is a command that cannot be read.  CPU and memory are kept alike; the    *)
(* model has one load.  A program stands for its name and its command.      *)
(***************************************************************************)
EXTENDS Naturals, FiniteSets

CONSTANTS Pids,      \* pids of the machine
          Programs,  \* what may run under a pid
          NoName,    \* the empty string
          Loads,     \* loads a poll may read
          Gaps,      \* time that may pass between two polls
          KeepFor,   \* age up to which an unlisted process is kept (2 intervals)
          MaxTime    \* bound on the clock

ASSUME NameAssumption == NoName \notin Programs
ASSUME LoadAssumption == 0 \in Loads /\ Loads \subseteq Nat
ASSUME TimeAssumption == Gaps \subseteq Nat \ {0} /\ KeepFor \in Nat /\ MaxTime \in Nat

VARIABLES live,      \* the program that runs under each pid taken now
          at,        \* the poll: "idle", or "read" when the pids are listed
          found,     \* the pids it listed
          clock,     \* now of the latest poll
          pids,      \* s.pids: name, command, load, polls seen, last seen by pid
          polls,     \* u.window.polls
          window,    \* u.window.processes: name, command, polls, load by pid
          listed,    \* history: polls of the window that listed each pid
          carried,   \* history: pids the last poll kept without listing them
          spells,    \* history: runs of such polls in the window, by pid
          latest,    \* history: the program the last listing of a pid read
          told       \* history: programs read since the window began, and the
                     \* ones the table had then, by pid

history == <<listed, carried, spells, latest, told>>
vars    == <<live, at, found, clock, pids, polls, window, history>>

Names == Programs \cup {NoName}
Entry == [name : Names, command : Names, load : Nat, seen : Nat, last : Nat]
Usage == [name : Names, command : Names, seen : Nat, total : Nat, peak : Nat]

NoEntry  == [name |-> NoName, command |-> NoName, load |-> 0, seen |-> 0, last |-> 0]
NoUsage  == [name |-> NoName, command |-> NoName, seen |-> 0, total |-> 0, peak |-> 0]
Nothing  == [p \in {} |-> NoEntry]
Zero     == [p \in Pids |-> 0]
At(table, p, none) == IF p \in DOMAIN table THEN table[p] ELSE none

-----------------------------------------------------------------------------
Init == /\ live = [p \in {} |-> NoName] /\ at = "idle" /\ found = {}
        /\ clock = 0 /\ polls = 0
        /\ pids = Nothing /\ window = Nothing
        /\ listed = Zero /\ carried = {} /\ spells = Zero
        /\ latest = [p \in Pids |-> NoName] /\ told = [p \in Pids |-> {}]

\* The machine, at any time: a pid may be taken again at once.
Begin(p) == /\ p \notin DOMAIN live
            /\ \E g \in Programs :
                 live' = [q \in DOMAIN live \cup {p} |-> IF q = p THEN g ELSE live[q]]
            /\ UNCHANGED <<at, found, clock, pids, polls, window, history>>

End(p) == /\ p \in DOMAIN live
          /\ live' = [q \in DOMAIN live \ {p} |-> live[q]]
          /\ UNCHANGED <<at, found, clock, pids, polls, window, history>>

\* process.Processes.
List == /\ at = "idle"
        /\ at' = "read" /\ found' = DOMAIN live
        /\ UNCHANGED <<live, clock, pids, polls, window, history>>

\* What the poll may read of a pid it listed.
Reads(p) == IF p \in DOMAIN live
              THEN [name : {live[p]}, command : {live[p], NoName}, load : Loads]
              ELSE {[name |-> NoName, command |-> NoName, load |-> 0]}
Readings == {r \in [found -> UNION {Reads(p) : p \in found}] : \A p \in found : r[p] \in Reads(p)}

\* pollProcessesLocked at time now: listed processes are read, the others stay
\* until they are too old.  Mutant: none is ever dropped.
KeptAll(now) == DOMAIN pids
Kept(now) == {p \in DOMAIN pids : now - pids[p].last <= KeepFor}

\* Mutant: a command that cannot be read leaves the one of the last poll.
ReadKeeping(e, r, now) ==
  [name |-> r.name, command |-> IF r.command = NoName THEN e.command ELSE r.command,
   load |-> r.load, seen |-> e.seen + 1, last |-> now]
Read(e, r, now) == [name |-> r.name, command |-> r.command, load |-> r.load,
                    seen |-> e.seen + 1, last |-> now]

Listed(reading, now) ==
  [p \in DOMAIN reading \cup Kept(now) |->
     IF p \in DOMAIN reading THEN Read(At(pids, p, NoEntry), reading[p], now) ELSE pids[p]]

\* recordProcesses of the whole table.  Mutants: the counts of the table are
\* taken over; the name is set when the record is made and not again.
Command(u, e) == IF e.command # NoName THEN e.command ELSE u.command
Peak(u, e)    == IF e.load > u.peak THEN e.load ELSE u.peak
UsedTable(u, e) == [name |-> e.name, command |-> Command(u, e), seen |-> e.seen,
                    total |-> u.total + e.load, peak |-> Peak(u, e)]
UsedFirstName(u, e) ==
  [name |-> IF u.seen = 0 THEN e.name ELSE u.name, command |-> Command(u, e),
   seen |-> u.seen + 1, total |-> u.total + e.load, peak |-> Peak(u, e)]
Used(u, e) == [name |-> e.name, command |-> Command(u, e), seen |-> u.seen + 1,
               total |-> u.total + e.load, peak |-> Peak(u, e)]

RecordProcesses(table) ==
  [p \in DOMAIN window \cup DOMAIN table |->
     IF p \in DOMAIN table THEN Used(At(window, p, NoUsage), table[p]) ELSE window[p]]

Poll(gap) ==
  /\ at = "read" /\ at' = "idle" /\ found' = {}
  /\ clock + gap <= MaxTime
  /\ clock' = clock + gap
  /\ \E reading \in Readings :
       /\ pids' = Listed(reading, clock')
       /\ latest' = [p \in Pids |-> IF p \in found THEN reading[p].name ELSE latest[p]]
  /\ window' = RecordProcesses(pids')
  /\ polls' = polls + 1
  /\ listed' = [p \in Pids |-> listed[p] + (IF p \in found THEN 1 ELSE 0)]
  /\ carried' = DOMAIN pids' \ found
  /\ spells' = [p \in Pids |-> spells[p] + (IF p \in carried' /\ (p \notin carried \/ polls = 0)
                                              THEN 1 ELSE 0)]
  /\ told' = [p \in Pids |-> IF p \in found THEN told[p] \cup {latest'[p]} ELSE told[p]]
  /\ UNCHANGED live

\* process.Processes fails: the poll ends and is not counted.
ListFails(gap) == /\ at = "idle"
                  /\ clock + gap <= MaxTime
                  /\ clock' = clock + gap
                  /\ UNCHANGED <<live, at, found, pids, polls, window, history>>

\* The window was uploaded: resetWindow.
ResetWindow == /\ at = "idle" /\ polls # 0
               /\ polls' = 0 /\ window' = Nothing
               /\ listed' = Zero /\ spells' = Zero
               /\ told' = [p \in Pids |-> IF p \in DOMAIN pids THEN {latest[p]} ELSE {}]
               /\ UNCHANGED <<live, at, found, clock, pids, carried, latest>>

Next == \/ \E p \in Pids : Begin(p) \/ End(p)
        \/ List
        \/ \E gap \in Gaps : Poll(gap) \/ ListFails(gap)
        \/ ResetWindow

Spec == Init /\ [][Next]_vars

-----------------------------------------------------------------------------
(* Properties *)

\* Every variable keeps to its type.
TypeOK == /\ DOMAIN live \subseteq Pids /\ \A p \in DOMAIN live : live[p] \in Programs
          /\ at \in {"idle", "read"} /\ found \in SUBSET Pids
          /\ clock \in Nat /\ polls \in Nat
          /\ DOMAIN pids \subseteq Pids /\ \A p \in DOMAIN pids : pids[p] \in Entry
          /\ DOMAIN window \subseteq Pids /\ \A p \in DOMAIN window : window[p] \in Usage
          /\ listed \in [Pids -> Nat] /\ spells \in [Pids -> Nat]
          /\ carried \in SUBSET Pids
          /\ latest \in [Pids -> Names] /\ told \in [Pids -> SUBSET Names]

\* The polls an upload reports a process in are those that listed it and, each
\* time it had ended or went unlisted, no more than the table keeps it for:
\* recordProcesses counts the processes that pollProcessesLocked has not yet
\* dropped, so the excess is what the eviction lets through and no more.
ExcessBounded ==
  \A p \in Pids : LET seen == At(window, p, NoUsage).seen
                  IN  listed[p] <= seen /\ seen <= listed[p] + KeepFor * spells[p]

\* No process is reported in more polls than the window has, its average load
\* is no more than its peak, and the peak is part of the total, through uploads
\* that reset the window while the table goes on.
UsageSound == \A p \in DOMAIN window : /\ window[p].seen <= polls
                                       /\ window[p].total <= window[p].seen * window[p].peak
                                       /\ window[p].peak <= window[p].total

\* The name and the command reported of a pid are those of programs that polls
\* of this window read under it, or the last poll before: whatever pid is taken
\* by whatever program, nothing of an earlier window comes back (the record of
\* the table goes on for the new program, the window's command stays when the
\* next one cannot be read).
NamedTogether == \A p \in DOMAIN window :
                   {window[p].name, window[p].command} \ {NoName} \subseteq told[p]

\* A process that its last listing could read is reported, under its name: one
\* that had just ended, or that an earlier poll could not read, has no name,
\* which keeps it out of the upload (allUploadProcesses) until it is read again.
ReadReported == \A p \in DOMAIN window : window[p].name = latest[p]
=============================================================================
