-------------------------- MODULE ProcessesProofs --------------------------
(***************************************************************************)
(* Proofs about Processes.tla, for any pids, loads and gaps: types, and     *)
(* that what a window says of its processes is consistent.                  *)
(***************************************************************************)
EXTENDS Processes, Integers, TLAPS

Reading == [name : Names, command : Names, load : Nat]

\* A reading is well-typed, whatever ended or began since the listing.
LEMMA ReadingType ==
  ASSUME TypeOK, NEW r \in Readings
  PROVE  DOMAIN r = found /\ \A p \in found : r[p] \in Reading
<1>1. DOMAIN r = found /\ \A p \in found : r[p] \in Reads(p)
  BY DEF Readings
<1>2. ASSUME NEW p \in found PROVE Reads(p) \subseteq Reading
  <2>1. CASE p \in DOMAIN live
    BY <2>1, LoadAssumption DEF Reads, Reading, Names, TypeOK
  <2>2. CASE p \notin DOMAIN live
    BY <2>2 DEF Reads, Reading, Names
  <2> QED BY <2>1, <2>2
<1> QED BY <1>1, <1>2

\* The table after a poll has one entry for each process listed or kept.
LEMMA ListedType ==
  ASSUME TypeOK, NEW now \in Nat, NEW r, DOMAIN r = found, \A p \in found : r[p] \in Reading
  PROVE  /\ DOMAIN Listed(r, now) = found \cup Kept(now)
         /\ DOMAIN Listed(r, now) \subseteq Pids
         /\ \A p \in DOMAIN Listed(r, now) : Listed(r, now)[p] \in Entry
<1> DEFINE T == Listed(r, now)
<1>1. DOMAIN T = found \cup Kept(now)
  BY DEF Listed
<1>2. Kept(now) \subseteq DOMAIN pids
  BY DEF Kept
<1>3. ASSUME NEW p \in DOMAIN T PROVE T[p] \in Entry
  <2>1. CASE p \in found
    <3>1. At(pids, p, NoEntry) \in Entry
      BY DEF At, NoEntry, Entry, TypeOK, Names
    <3>2. r[p] \in Reading
      BY <2>1
    <3>3. T[p] = Read(At(pids, p, NoEntry), r[p], now)
      BY <1>1, <1>3, <2>1 DEF Listed
    <3> QED BY <3>1, <3>2, <3>3 DEF Entry, Read, Reading
  <2>2. CASE p \notin found
    <3>1. T[p] = pids[p] /\ p \in DOMAIN pids
      BY <1>1, <1>2, <1>3, <2>2 DEF Listed
    <3> QED BY <3>1 DEF TypeOK
  <2> QED BY <2>1, <2>2
<1> QED BY <1>1, <1>2, <1>3 DEF TypeOK

\* A record of a window of n polls is consistent, and one more poll of a process
\* keeps it so.
Sound(u, n) == u \in Usage /\ u.seen <= n /\ u.total <= u.seen * u.peak /\ u.peak <= u.total

LEMMA ProductGrows ==
  ASSUME NEW s \in Nat, NEW k \in Nat, NEW m \in Nat, k <= m
  PROVE  s * k <= s * m
  OBVIOUS

LEMMA UsedSound ==
  ASSUME NEW n \in Nat, NEW u, Sound(u, n), NEW e \in Entry
  PROVE  Sound(Used(u, e), n + 1)
<1> DEFINE s == u.seen  t == u.total  k == u.peak  l == e.load
           m == IF l > k THEN l ELSE k
<1>1. s \in Nat /\ t \in Nat /\ k \in Nat /\ l \in Nat /\ s <= n /\ t <= s * k /\ k <= t
  BY DEF Sound, Usage, Entry
<1>2. m \in Nat /\ k <= m /\ l <= m /\ m <= t + l
  BY <1>1
<1>3. /\ Used(u, e) = [name |-> e.name, command |-> Command(u, e), seen |-> s + 1,
                       total |-> t + l, peak |-> m]
      /\ e.name \in Names /\ Command(u, e) \in Names
  BY DEF Used, Peak, Command, Entry, Usage, Sound
<1> HIDE DEF m, s, t, k, l
<1>4. s * k <= s * m
  BY <1>1, <1>2, ProductGrows
<1>5. s * k \in Nat /\ s * m \in Nat /\ (s + 1) * m = s * m + m
  BY <1>1, <1>2
<1>6. t + l <= (s + 1) * m
  BY <1>1, <1>2, <1>4, <1>5
<1> QED BY <1>1, <1>2, <1>3, <1>6 DEF Sound, Usage

WindowSound == \A p \in DOMAIN window : Sound(window[p], polls)

\* So does a whole table of processes.
LEMMA RecordSound ==
  ASSUME TypeOK, WindowSound, NEW table,
         DOMAIN table \subseteq Pids, \A p \in DOMAIN table : table[p] \in Entry
  PROVE  /\ DOMAIN RecordProcesses(table) \subseteq Pids
         /\ \A p \in DOMAIN RecordProcesses(table) : Sound(RecordProcesses(table)[p], polls + 1)
<1> DEFINE R == RecordProcesses(table)
<1>1. DOMAIN R = DOMAIN window \cup DOMAIN table
  BY DEF RecordProcesses
<1>2. polls \in Nat
  BY DEF TypeOK
<1>3. ASSUME NEW p \in DOMAIN R PROVE Sound(R[p], polls + 1)
  <2>1. CASE p \in DOMAIN table
    <3>1. Sound(NoUsage, polls)
      BY <1>2 DEF Sound, NoUsage, Usage, Names
    <3>2. Sound(At(window, p, NoUsage), polls)
      BY <3>1 DEF At, WindowSound
    <3>3. R[p] = Used(At(window, p, NoUsage), table[p])
      BY <1>1, <1>3, <2>1 DEF RecordProcesses
    <3> QED BY <1>2, <2>1, <3>2, <3>3, UsedSound
  <2>2. CASE p \notin DOMAIN table
    <3>1. R[p] = window[p] /\ p \in DOMAIN window
      BY <1>1, <1>3, <2>2 DEF RecordProcesses
    <3>2. Sound(window[p], polls)
      BY <3>1 DEF WindowSound
    <3> QED BY <1>2, <3>1, <3>2 DEF Sound, Usage
  <2> QED BY <2>1, <2>2
<1> QED BY <1>1, <1>3 DEF TypeOK

\* A poll, and the other steps.
LEMMA WindowPoll ==
  ASSUME TypeOK, WindowSound, NEW gap \in Gaps, Poll(gap)
  PROVE  TypeOK' /\ WindowSound'
<1>1. clock' \in Nat /\ polls' = polls + 1 /\ polls' \in Nat
  BY TimeAssumption DEF TypeOK, Poll
<1>2. PICK r \in Readings : /\ pids' = Listed(r, clock')
                            /\ latest' = [p \in Pids |-> IF p \in found THEN r[p].name
                                                         ELSE latest[p]]
  BY DEF Poll
<1>3. DOMAIN r = found /\ \A p \in found : r[p] \in Reading
  BY ReadingType
<1>4. DOMAIN pids' \subseteq Pids /\ \A p \in DOMAIN pids' : pids'[p] \in Entry
  BY <1>1, <1>2, <1>3, ListedType
<1>5. window' = RecordProcesses(pids')
  BY DEF Poll
<1>6. DOMAIN window' \subseteq Pids /\ \A p \in DOMAIN window' : Sound(window'[p], polls')
  BY <1>1, <1>4, <1>5, RecordSound
<1>7. /\ live' = live /\ carried' = DOMAIN pids' \ found
      /\ at' = "idle" /\ found' = {}
  BY DEF Poll
<1>8. listed' \in [Pids -> Nat]
  BY DEF Poll, TypeOK
<1>9. spells' \in [Pids -> Nat]
  BY DEF Poll, TypeOK
<1>10. latest' \in [Pids -> Names]
  <2>1. \A p \in found : r[p].name \in Names
    BY <1>3 DEF Reading
  <2> QED BY <1>2, <2>1 DEF TypeOK
<1>11. told' \in [Pids -> SUBSET Names]
  <2>1. told' = [p \in Pids |-> IF p \in found THEN told[p] \cup {latest'[p]} ELSE told[p]]
    BY DEF Poll
  <2> QED BY <1>10, <2>1 DEF TypeOK
<1> QED BY <1>1, <1>4, <1>6, <1>7, <1>8, <1>9, <1>10, <1>11 DEF TypeOK, WindowSound, Sound

LEMMA WindowStep == TypeOK /\ WindowSound /\ [Next]_vars => TypeOK' /\ WindowSound'
<1> SUFFICES ASSUME TypeOK, WindowSound, [Next]_vars PROVE TypeOK' /\ WindowSound'
  OBVIOUS
<1>1. ASSUME NEW p \in Pids, Begin(p) \/ End(p) PROVE TypeOK' /\ WindowSound'
  BY <1>1 DEF Begin, End, TypeOK, WindowSound, history
<1>2. ASSUME NEW gap \in Gaps, Poll(gap) PROVE TypeOK' /\ WindowSound'
  BY <1>2, WindowPoll
<1>3. ASSUME NEW gap \in Gaps, ListFails(gap) PROVE TypeOK' /\ WindowSound'
  BY <1>3, TimeAssumption DEF ListFails, TypeOK, WindowSound, history
<1>4. CASE ResetWindow
  <2>1. told' \in [Pids -> SUBSET Names]
    BY <1>4 DEF ResetWindow, TypeOK
  <2> QED BY <1>4, <2>1 DEF ResetWindow, TypeOK, WindowSound, Nothing, Zero
<1>5. CASE List
  BY <1>5 DEF List, TypeOK, WindowSound, history
<1>6. CASE UNCHANGED vars
  BY <1>6 DEF vars, TypeOK, WindowSound, history
<1> QED BY <1>1, <1>2, <1>3, <1>4, <1>5, <1>6 DEF Next

LEMMA WindowInit == Init => TypeOK /\ WindowSound
BY DEF Init, TypeOK, WindowSound, Nothing, Zero, Names

\* Every variable of Processes keeps to its type.
THEOREM ProcessesTypeCorrect == Spec => []TypeOK
BY WindowInit, WindowStep, PTL DEF Spec

\* No process is reported in more polls than its window has, its average load
\* is at most its peak and the peak is part of the total (recordProcesses,
\* incrementPoll and resetWindow), whatever processes come and go.
THEOREM UsageCorrect == Spec => []UsageSound
<1>1. WindowSound => UsageSound
  BY DEF WindowSound, UsageSound, Sound
<1> QED BY <1>1, WindowInit, WindowStep, PTL DEF Spec

-----------------------------------------------------------------------------
(* Names *)

\* An entry of the table is what its last listing read, a record of the window
\* has the same name, and the names and commands of both are told.
NamesKept ==
  /\ \A p \in DOMAIN pids : /\ pids[p].name = latest[p] /\ latest[p] \in told[p]
                            /\ pids[p].command \in {latest[p], NoName}
  /\ \A p \in DOMAIN window : /\ window[p].name = latest[p]
                              /\ {window[p].name, window[p].command} \ {NoName} \subseteq told[p]

\* A reading has the command of the program it names or none.
LEMMA ReadingNames ==
  ASSUME NEW r \in Readings
  PROVE  DOMAIN r = found /\ \A p \in found : r[p].command \in {r[p].name, NoName}
<1>1. DOMAIN r = found /\ \A p \in found : r[p] \in Reads(p)
  BY DEF Readings
<1> QED BY <1>1 DEF Reads

LEMMA NamesPoll ==
  ASSUME TypeOK, NamesKept, NEW gap \in Gaps, Poll(gap)
  PROVE  NamesKept'
<1>1. PICK r \in Readings : /\ pids' = Listed(r, clock')
                            /\ latest' = [p \in Pids |-> IF p \in found THEN r[p].name
                                                         ELSE latest[p]]
  BY DEF Poll
<1>2. DOMAIN r = found /\ \A p \in found : r[p].command \in {r[p].name, NoName}
  BY ReadingNames
<1>3. found \subseteq Pids /\ DOMAIN pids \subseteq Pids /\ DOMAIN window \subseteq Pids
  BY DEF TypeOK
<1>4. told' = [p \in Pids |-> IF p \in found THEN told[p] \cup {latest'[p]} ELSE told[p]]
  BY DEF Poll
<1>5. Kept(clock') \subseteq DOMAIN pids
  BY DEF Kept
<1>6. ASSUME NEW p \in DOMAIN pids'
      PROVE  /\ pids'[p].name = latest'[p] /\ latest'[p] \in told'[p]
             /\ pids'[p].command \in {latest'[p], NoName}
  <2>1. DOMAIN pids' = found \cup Kept(clock')
    BY <1>1, <1>2 DEF Listed
  <2>2. CASE p \in found
    <3>1. pids'[p] = Read(At(pids, p, NoEntry), r[p], clock')
      BY <1>1, <1>2, <2>1, <2>2 DEF Listed
    <3>2. pids'[p].name = r[p].name /\ pids'[p].command = r[p].command
      BY <3>1 DEF Read
    <3> QED BY <1>1, <1>2, <1>3, <1>4, <2>2, <3>2
  <2>3. CASE p \notin found
    <3>1. p \in DOMAIN pids /\ pids'[p] = pids[p]
      BY <1>1, <1>2, <1>5, <1>6, <2>1, <2>3 DEF Listed
    <3>2. latest'[p] = latest[p] /\ told'[p] = told[p]
      BY <1>1, <1>3, <1>4, <2>3, <3>1
    <3> QED BY <3>1, <3>2 DEF NamesKept
  <2> QED BY <2>2, <2>3
<1>7. ASSUME NEW p \in DOMAIN window'
      PROVE  /\ window'[p].name = latest'[p]
             /\ {window'[p].name, window'[p].command} \ {NoName} \subseteq told'[p]
  <2>1. window' = RecordProcesses(pids') /\ DOMAIN window' = DOMAIN window \cup DOMAIN pids'
    BY DEF Poll, RecordProcesses
  <2>2. DOMAIN pids' \subseteq Pids
    BY <1>1, <1>2, <1>3, <1>5 DEF Listed
  <2>3. told[p] \subseteq told'[p]
    BY <1>3, <1>4, <2>1, <2>2
  <2>4. CASE p \in DOMAIN pids'
    <3> DEFINE u == At(window, p, NoUsage)
    <3>1. window'[p] = Used(u, pids'[p])
      BY <2>1, <2>4 DEF RecordProcesses
    <3>2. /\ window'[p].name = pids'[p].name
          /\ window'[p].command \in {pids'[p].command, u.command}
      BY <3>1 DEF Used, Command
    <3>3. {u.command} \ {NoName} \subseteq told[p]
      BY DEF At, NoUsage, NamesKept
    <3> QED BY <1>6, <2>3, <2>4, <3>2, <3>3
  <2>5. CASE p \notin DOMAIN pids'
    <3>1. p \in DOMAIN window /\ window'[p] = window[p]
      BY <2>1, <2>5 DEF RecordProcesses
    <3>2. p \notin found
      BY <1>1, <1>2, <2>5 DEF Listed
    <3>3. latest'[p] = latest[p]
      BY <1>1, <1>3, <3>1, <3>2
    <3> QED BY <2>3, <3>1, <3>3 DEF NamesKept
  <2> QED BY <2>4, <2>5
<1> QED BY <1>6, <1>7 DEF NamesKept

LEMMA NamesStep == TypeOK /\ NamesKept /\ [Next]_vars => NamesKept'
<1> SUFFICES ASSUME TypeOK, NamesKept, [Next]_vars PROVE NamesKept'
  OBVIOUS
<1>1. ASSUME NEW p \in Pids, Begin(p) \/ End(p) PROVE NamesKept'
  BY <1>1 DEF Begin, End, NamesKept, history
<1>2. ASSUME NEW gap \in Gaps, Poll(gap) PROVE NamesKept'
  BY <1>2, NamesPoll
<1>3. ASSUME NEW gap \in Gaps, ListFails(gap) PROVE NamesKept'
  BY <1>3 DEF ListFails, NamesKept, history
<1>4. CASE ResetWindow
  <2>1. pids' = pids /\ latest' = latest /\ DOMAIN window' = {}
    BY <1>4 DEF ResetWindow, Nothing
  <2>2. \A p \in DOMAIN pids : told'[p] = {latest[p]}
    BY <1>4 DEF ResetWindow, TypeOK
  <2> QED BY <2>1, <2>2 DEF NamesKept
<1>5. CASE List
  BY <1>5 DEF List, NamesKept, history
<1>6. CASE UNCHANGED vars
  BY <1>6 DEF vars, NamesKept, history
<1> QED BY <1>1, <1>2, <1>3, <1>4, <1>5, <1>6 DEF Next

LEMMA NamesInit == Init => NamesKept
BY DEF Init, NamesKept, Nothing

\* What a window reports of a pid are names and commands of programs that polls
\* of it, or the last one before it, read under that pid.
THEOREM NamesTold == Spec => []NamedTogether
<1>1. NamesKept => NamedTogether
  BY DEF NamesKept, NamedTogether
<1> QED BY <1>1, WindowInit, WindowStep, NamesInit, NamesStep, PTL DEF Spec

\* A process that its last listing could read is reported under its name, and
\* no other process is.
THEOREM ReadIsReported == Spec => []ReadReported
<1>1. NamesKept => ReadReported
  BY DEF NamesKept, ReadReported
<1> QED BY <1>1, WindowInit, WindowStep, NamesInit, NamesStep, PTL DEF Spec

-----------------------------------------------------------------------------
(* The excess *)

Seen(p) == At(window, p, NoUsage).seen

\* A process that the last poll of the window carried began a spell, and has been
\* counted in it at most once for each unit of time since it was last listed.
Spell(p) == /\ p \in DOMAIN pids
            /\ Seen(p) + KeepFor <= listed[p] + KeepFor * spells[p] + (clock - pids[p].last)

Bounded ==
  /\ \A p \in DOMAIN pids : pids[p].last <= clock
  /\ \A p \in Pids : listed[p] <= Seen(p) /\ Seen(p) <= listed[p] + KeepFor * spells[p]
  /\ \A p \in carried : polls # 0 => Spell(p)

LEMMA ProductIsNatural == \A n \in Nat : /\ KeepFor * n \in Nat
                                         /\ KeepFor * (n + 1) = KeepFor * n + KeepFor
BY TimeAssumption

LEMMA SeenType == TypeOK => \A p \in Pids : Seen(p) \in Nat
BY DEF TypeOK, Seen, At, NoUsage, Usage

LEMMA BoundedPoll ==
  ASSUME TypeOK, Bounded, NEW gap \in Gaps, Poll(gap)
  PROVE  Bounded'
<1>1. /\ clock' = clock + gap /\ gap \in Nat /\ gap >= 1
      /\ clock \in Nat /\ clock' \in Nat /\ clock < clock'
  BY TimeAssumption DEF Poll, TypeOK
<1>2. PICK r \in Readings : pids' = Listed(r, clock')
  BY DEF Poll
<1>3. DOMAIN r = found /\ \A p \in found : r[p] \in Reading
  BY ReadingType
<1>4. DOMAIN pids' = found \cup Kept(clock') /\ DOMAIN pids' \subseteq Pids
  BY <1>1, <1>2, <1>3, ListedType
<1>5. /\ carried' = DOMAIN pids' \ found
      /\ listed' = [p \in Pids |-> listed[p] + (IF p \in found THEN 1 ELSE 0)]
      /\ spells' = [p \in Pids |-> spells[p] + (IF p \in carried' /\ (p \notin carried \/ polls = 0)
                                                  THEN 1 ELSE 0)]
      /\ window' = RecordProcesses(pids')
  BY DEF Poll
<1>6. ASSUME NEW p \in found PROVE pids'[p].last = clock'
  BY <1>2, <1>3, <1>6 DEF Listed, Read
<1>7. ASSUME NEW p \in carried'
      PROVE  /\ p \in DOMAIN pids /\ pids'[p] = pids[p]
             /\ pids[p].last \in Nat /\ pids[p].last <= clock
             /\ clock' - pids[p].last <= KeepFor
  <2>1. p \in Kept(clock') /\ p \notin found
    BY <1>4, <1>5, <1>7
  <2>2. p \in DOMAIN pids /\ clock' - pids[p].last <= KeepFor
    BY <2>1 DEF Kept
  <2>3. pids'[p] = pids[p]
    BY <1>2, <1>3, <2>1 DEF Listed
  <2>4. pids[p].last \in Nat /\ pids[p].last <= clock
    BY <2>2 DEF TypeOK, Entry, Bounded
  <2> QED BY <2>2, <2>3, <2>4
<1>8. ASSUME NEW p \in DOMAIN pids' PROVE pids'[p].last <= clock'
  <2>1. CASE p \in found
    BY <1>1, <1>6, <2>1
  <2>2. CASE p \notin found
    BY <1>1, <1>5, <1>7, <1>8, <2>2
  <2> QED BY <2>1, <2>2
<1>9. ASSUME NEW p \in Pids
      PROVE  Seen(p)' = Seen(p) + (IF p \in DOMAIN pids' THEN 1 ELSE 0)
  <2>1. DOMAIN window' = DOMAIN window \cup DOMAIN pids'
    BY <1>5 DEF RecordProcesses
  <2>2. CASE p \in DOMAIN pids'
    <3>1. window'[p] = Used(At(window, p, NoUsage), pids'[p])
      BY <1>5, <2>2 DEF RecordProcesses
    <3>2. Seen(p)' = window'[p].seen
      BY <2>1, <2>2 DEF Seen, At
    <3>3. window'[p].seen = Seen(p) + 1
      BY <3>1 DEF Used, Seen
    <3> QED BY <2>2, <3>2, <3>3
  <2>3. CASE p \notin DOMAIN pids'
    <3>1. CASE p \in DOMAIN window
      <4>1. window'[p] = window[p]
        BY <1>5, <2>3, <3>1 DEF RecordProcesses
      <4>2. Seen(p)' = Seen(p)
        BY <2>1, <3>1, <4>1 DEF Seen, At
      <4> QED BY <2>3, <4>2, SeenType
    <3>2. CASE p \notin DOMAIN window
      <4>1. Seen(p)' = Seen(p)
        BY <2>1, <2>3, <3>2 DEF Seen, At
      <4> QED BY <2>3, <4>1, SeenType
    <3> QED BY <3>1, <3>2
  <2> QED BY <2>2, <2>3
<1>10. ASSUME NEW p \in Pids
       PROVE  /\ listed'[p] <= Seen(p)' /\ Seen(p)' <= listed'[p] + KeepFor * spells'[p]
              /\ p \in carried' => Spell(p)'
  <2> DEFINE s == Seen(p)  l == listed[p]  n == spells[p]  k == KeepFor * n
             a == clock - pids[p].last
  <2>1. /\ s \in Nat /\ l \in Nat /\ n \in Nat /\ k \in Nat /\ KeepFor \in Nat
        /\ KeepFor * (n + 1) = k + KeepFor
    BY SeenType, ProductIsNatural, TimeAssumption DEF TypeOK
  <2>2. l <= s /\ s <= l + k
    BY DEF Bounded
  <2>3. CASE p \in found
    <3>1. listed'[p] = l + 1 /\ spells'[p] = n /\ Seen(p)' = s + 1 /\ p \notin carried'
      BY <1>4, <1>5, <1>9, <2>1, <2>3
    <3> HIDE DEF s, l, n, k
    <3>2. KeepFor * spells'[p] = KeepFor * n
      BY <3>1
    <3>3. KeepFor * spells'[p] = k
      BY <3>2 DEF k
    <3> QED BY <2>1, <2>2, <3>1, <3>3
  <2>4. CASE p \in carried'
    <3>1. listed'[p] = l /\ Seen(p)' = s + 1
      BY <1>4, <1>5, <1>9, <2>1, <2>4
    <3>2. p \in DOMAIN pids' /\ pids'[p].last = pids[p].last
      BY <1>5, <1>7, <2>4
    <3>3. a \in Int /\ a >= 0 /\ a + 1 <= clock' - pids[p].last /\ clock' - pids[p].last <= KeepFor
          /\ clock' - pids[p].last \in Int
      BY <1>1, <1>7, <2>4, TimeAssumption
    <3>4. CASE p \in carried /\ polls # 0
      <4>1. spells'[p] = n
        BY <1>5, <2>1, <2>4, <3>4
      <4>2. s + KeepFor <= l + k + a
        BY <3>4 DEF Bounded, Spell
      <4>3. KeepFor * spells'[p] = k
        BY <4>1
      <4> HIDE DEF s, l, n, k, a
      <4>4. s + 1 + KeepFor <= l + k + (clock' - pids[p].last) /\ s + 1 <= l + k
        BY <2>1, <3>3, <4>2
      <4> QED BY <2>1, <2>2, <3>1, <3>2, <4>3, <4>4 DEF Spell
    <3>5. CASE p \notin carried \/ polls = 0
      <4>1. spells'[p] = n + 1
        BY <1>5, <2>1, <2>4, <3>5
      <4>2. KeepFor * spells'[p] = k + KeepFor
        BY <2>1, <4>1
      <4> HIDE DEF s, l, n, k, a
      <4>3. s + 1 + KeepFor <= l + (k + KeepFor) + (clock' - pids[p].last)
            /\ s + 1 <= l + (k + KeepFor)
        BY <2>1, <2>2, <3>3
      <4> QED BY <2>1, <2>2, <3>1, <3>2, <4>2, <4>3 DEF Spell
    <3> QED BY <3>4, <3>5
  <2>5. CASE p \notin found /\ p \notin carried'
    <3>1. p \notin DOMAIN pids'
      BY <1>5, <2>5
    <3>2. listed'[p] = l /\ spells'[p] = n /\ Seen(p)' = s
      BY <1>5, <1>9, <2>1, <2>5, <3>1
    <3> QED BY <2>2, <2>5, <3>2
  <2> QED BY <2>3, <2>4, <2>5
<1>11. carried' \subseteq Pids
  BY <1>4, <1>5
<1> QED BY <1>8, <1>10, <1>11 DEF Bounded

LEMMA BoundedStep == TypeOK /\ Bounded /\ [Next]_vars => Bounded'
<1> SUFFICES ASSUME TypeOK, Bounded, [Next]_vars PROVE Bounded'
  OBVIOUS
<1>1. ASSUME NEW p \in Pids, Begin(p) \/ End(p) PROVE Bounded'
  BY <1>1 DEF Begin, End, Bounded, Spell, Seen, history
<1>2. ASSUME NEW gap \in Gaps, Poll(gap) PROVE Bounded'
  BY <1>2, BoundedPoll
<1>3. ASSUME NEW gap \in Gaps, ListFails(gap) PROVE Bounded'
  <2>1. /\ clock' = clock + gap /\ gap \in Nat /\ clock \in Nat
        /\ UNCHANGED <<pids, polls, window, listed, carried, spells>>
    BY <1>3, TimeAssumption DEF ListFails, TypeOK, history
  <2>2. ASSUME NEW p \in DOMAIN pids PROVE pids[p].last \in Nat /\ pids[p].last <= clock'
    BY <2>1 DEF TypeOK, Entry, Bounded
  <2>3. ASSUME NEW p \in Pids PROVE Seen(p)' = Seen(p)
    BY <2>1 DEF Seen
  <2>4. ASSUME NEW p \in carried, polls # 0 PROVE Spell(p)'
    <3>1. p \in Pids
      BY DEF TypeOK
    <3>2. Spell(p)
      BY <2>4 DEF Bounded
    <3>3. /\ Seen(p) \in Nat /\ listed[p] \in Nat /\ KeepFor * spells[p] \in Nat
          /\ KeepFor \in Nat /\ pids[p].last \in Nat
      BY <2>2, <3>1, <3>2, SeenType, ProductIsNatural, TimeAssumption DEF TypeOK, Spell
    <3>4. Seen(p) + KeepFor <= listed[p] + KeepFor * spells[p] + (clock' - pids[p].last)
      BY <2>1, <3>2, <3>3 DEF Spell
    <3> QED BY <2>1, <2>3, <3>1, <3>2, <3>4 DEF Spell
  <2> QED BY <2>1, <2>2, <2>3, <2>4 DEF Bounded
<1>4. CASE ResetWindow
  <2>1. pids' = pids /\ clock' = clock /\ polls' = 0
    BY <1>4 DEF ResetWindow
  <2>2. ASSUME NEW p \in Pids PROVE listed'[p] = 0 /\ spells'[p] = 0 /\ Seen(p)' = 0
    BY <1>4 DEF ResetWindow, Zero, Nothing, Seen, At, NoUsage
  <2>3. KeepFor * 0 = 0
    BY TimeAssumption
  <2> QED BY <2>1, <2>2, <2>3 DEF Bounded
<1>5. CASE List
  BY <1>5 DEF List, Bounded, Spell, Seen, history
<1>6. CASE UNCHANGED vars
  BY <1>6 DEF vars, Bounded, Spell, Seen, history
<1> QED BY <1>1, <1>2, <1>3, <1>4, <1>5, <1>6 DEF Next

\* The polls an upload reports a process in exceed those that listed it by no
\* more than the table keeps it for, each time it was kept: for any gaps between
\* polls, failing ones among them, and any time a process is kept.
THEOREM ExcessIsBounded == Spec => []ExcessBounded
<1>1. Init => Bounded
  BY TimeAssumption DEF Init, Bounded, Nothing, Zero, Seen, At, NoUsage
<1>2. Bounded => ExcessBounded
  BY DEF Bounded, ExcessBounded, Seen
<1> QED BY <1>1, <1>2, WindowInit, WindowStep, BoundedStep, PTL DEF Spec
=============================================================================
