---------------------------- MODULE LookupProofs ----------------------------
(***************************************************************************)
(* Proofs about names (Lookup.tla) and the lists that show them             *)
(* (Summary.tla): for any outputs of the tools, any alphabet, any tables    *)
(* and any length of the lists.                                             *)
(***************************************************************************)
EXTENDS Summary, FiniteSetTheorems, SequenceTheorems, TLAPS

-----------------------------------------------------------------------------
(* Hosts *)

\* What every later filter lets pass unchanged.
Good(h) == h # Blank => h \notin Private /\ Last(h) # Dot

LEMMA NormalGood == ASSUME NEW h \in Raw
                    PROVE  /\ Normalize(h) \in Seq(ToSet(h))
                           /\ Good(Normalize(h))
<1>0. h \in Seq(ToSet(h)) /\ Len(h) \in Nat /\ (Len(h) > 1 /\ Last(h) = Dot => h[Len(h) - 1] # Dot)
  BY HostAssumption
<1>a. Len(h) \in Nat
  BY <1>0
<1>1. CASE h = Blank
  BY <1>1 DEF Normalize, WithoutDot, Good, Blank
<1>2. CASE h # Blank /\ Last(h) # Dot
  BY <1>0, <1>2 DEF Normalize, WithoutDot, Good, Blank
<1>3. CASE h # Blank /\ Last(h) = Dot
  <2>1. Len(h) > 0
    BY <1>0, <1>3, EmptySeq DEF Blank
  <2>2. WithoutDot(h) = SubSeq(h, 1, Len(h) - 1)
    BY <1>3 DEF WithoutDot, Front
  <2>3. /\ SubSeq(h, 1, Len(h) - 1) \in Seq(ToSet(h))
        /\ Len(SubSeq(h, 1, Len(h) - 1)) = Len(h) - 1
        /\ \A i \in 1..(Len(h) - 1) : SubSeq(h, 1, Len(h) - 1)[i] = h[i]
    <3>1. \A i \in 1..(Len(h) - 1) : h[i] \in ToSet(h)
      <4>1. \A i \in 1..(Len(h) - 1) : i \in 1..Len(h)
        BY <1>a
      <4>2. DOMAIN h = 1..Len(h)
        BY <1>0
      <4> QED BY <4>1, <4>2 DEF ToSet
    <3> DEFINE n == Len(h) - 1
    <3>2. n \in Int /\ 1 \in Int /\ \A i \in 1..n : h[i] \in ToSet(h)
      BY <1>a, <3>1
    <3>a. n \in Nat
      <4>1. \A k \in Nat : k > 0 => k - 1 \in Nat
        OBVIOUS
      <4> QED BY <1>a, <2>1, <4>1
    <3> HIDE DEF n
    <3>3. (IF 1 <= n THEN n - 1 + 1 ELSE 0) = n /\ n - 1 + 1 = n /\ \A i \in 1..n : 1 + i - 1 = i
      BY <3>a
    <3>4. /\ SubSeq(h, 1, n) \in Seq(ToSet(h))
          /\ Len(SubSeq(h, 1, n)) = IF 1 <= n THEN n - 1 + 1 ELSE 0
          /\ \A i \in 1..(n - 1 + 1) : SubSeq(h, 1, n)[i] = h[1 + i - 1]
      BY <3>2, SubSeqProperties
    <3>5. /\ SubSeq(h, 1, n) \in Seq(ToSet(h)) /\ Len(SubSeq(h, 1, n)) = n
          /\ \A i \in 1..n : SubSeq(h, 1, n)[i] = h[i]
      BY <3>3, <3>4
    <3> QED BY <3>5 DEF n
  <2>4. CASE Len(h) = 1
    <3>1. WithoutDot(h) = Blank
      BY <2>2, <2>3, <2>4, EmptySeq DEF Blank
    <3> QED BY <3>1 DEF Normalize, Good, Blank
  <2>5. CASE Len(h) > 1
    <3>1. Last(WithoutDot(h)) = h[Len(h) - 1]
      BY <1>0, <2>2, <2>3, <2>5 DEF Last
    <3>2. Last(WithoutDot(h)) # Dot
      BY <1>0, <1>3, <2>5, <3>1
    <3> QED BY <2>2, <2>3, <3>2 DEF Normalize, Good, Blank
  <2>6. Len(h) = 1 \/ Len(h) > 1
    <3>1. \A k \in Nat : k > 0 => k = 1 \/ k > 1
      OBVIOUS
    <3> QED BY <1>a, <2>1, <3>1
  <2> QED BY <2>4, <2>5, <2>6
<1> QED BY <1>1, <1>2, <1>3

LEMMA RegistrableGood == ASSUME NEW h \in Raw PROVE Good(Registrable(h))
<1> DEFINE n == Normalize(h)
<1>1. n \in Seq(ToSet(h)) /\ Good(n) /\ Len(n) \in Nat
  BY NormalGood
<1> HIDE DEF n
<1>2. ASSUME Len(n) > 2, NEW k \in {2, 3} PROVE Good(LastLabels(n, k))
  <2>1. LastLabels(n, k) = SubSeq(n, Len(n) - k + 1, Len(n))
    BY DEF LastLabels
  <2>2. /\ Len(SubSeq(n, Len(n) - k + 1, Len(n))) = k
        /\ SubSeq(n, Len(n) - k + 1, Len(n))[k] = n[Len(n)]
    BY <1>1, <1>2
  <2>3. Last(LastLabels(n, k)) = Last(n) /\ Len(LastLabels(n, k)) = k
    BY <2>1, <2>2 DEF Last
  <2>4. n # Blank
    BY <1>2 DEF Blank
  <2>5. LastLabels(n, k) \notin Private
    BY <2>3, HostAssumption
  <2> QED BY <1>1, <2>3, <2>4, <2>5 DEF Good
<1>3. Registrable(h) \in {n, LastLabels(n, 2), LastLabels(n, 3)} /\ (Registrable(h) # n => Len(n) > 2)
  BY <1>1 DEF Registrable, n
<1> QED BY <1>1, <1>2, <1>3

\* The alphabet is an order of the domains.
LEMMA BeforeOrders ==
  /\ \A g, h \in ToSet(Alphabet) : g # h => Before(g, h) \/ Before(h, g)
  /\ \A g, h, k : Before(g, h) /\ Before(h, k) => Before(g, k)
  /\ \A g, h : Before(g, h) => ~Before(h, g)
<1>1. DOMAIN Alphabet = 1..Len(Alphabet) /\ Len(Alphabet) \in Nat
  BY AlphabetAssumption
<1>2. \A g, h \in ToSet(Alphabet) : g # h => Before(g, h) \/ Before(h, g)
  BY <1>1 DEF ToSet, Before
<1>3. ASSUME NEW g, NEW h, NEW k, Before(g, h), Before(h, k) PROVE Before(g, k)
  <2>1. PICK a, b \in DOMAIN Alphabet : a < b /\ Alphabet[a] = g /\ Alphabet[b] = h
    BY <1>3 DEF Before
  <2>2. PICK c, d \in DOMAIN Alphabet : c < d /\ Alphabet[c] = h /\ Alphabet[d] = k
    BY <1>3 DEF Before
  <2>3. b = c
    BY <2>1, <2>2, AlphabetAssumption
  <2>4. a < d
    BY <1>1, <2>1, <2>2, <2>3
  <2> QED BY <2>1, <2>2, <2>4 DEF Before
<1>4. ASSUME NEW g, NEW h, Before(g, h), Before(h, g) PROVE FALSE
  <2>1. PICK a, b \in DOMAIN Alphabet : a < b /\ Alphabet[a] = g /\ Alphabet[b] = h
    BY <1>4 DEF Before
  <2>2. PICK c, d \in DOMAIN Alphabet : c < d /\ Alphabet[c] = h /\ Alphabet[d] = g
    BY <1>4 DEF Before
  <2>3. b = c /\ a = d
    BY <2>1, <2>2, AlphabetAssumption
  <2> QED BY <1>1, <2>1, <2>2, <2>3
<1> QED BY <1>2, <1>3, <1>4

-----------------------------------------------------------------------------
(* The cascade of sources and the loop over the counts of whois *)

InLoop == \E source \in DOMAIN Loop : stage = Loop[source]

\* What puts candidate g before candidate h.
Ahead(o, g, h) == \/ Count(o, g) > Count(o, h)
                  \/ Count(o, g) = Count(o, h) /\ Before(g, h)

\* bestHost is the best of those visited.
Leads(o, b, V) == /\ b = Blank <=> V = {}
                  /\ V # {} => b \in V /\ \A h \in V \ {b} : Ahead(o, b, h)

LookupInv ==
  /\ Good(name)
  /\ InLoop => /\ out \in Outputs /\ todo \subseteq Candidates(out)
               /\ Leads(out, best, Candidates(out) \ todo)

LEMMA LoopStages == /\ DOMAIN Loop = {"mail", "url", "text"}
                    /\ Loop["mail"] = "mail loop" /\ Loop["url"] = "url loop"
                    /\ Loop["text"] = "text loop"
  BY DEF Loop

LEMMA OutputType == ASSUME NEW o \in Outputs
                    PROVE  /\ \A i \in DOMAIN o : o[i] \in Raw
                           /\ IsFiniteSet(DOMAIN o)
<1>1. PICK m \in 0..MaxHosts : o \in [1..m -> Raw]
  BY DEF Outputs, SeqOf
<1>2. m \in Int /\ 1 \in Int
  BY BoundAssumption
<1>3. IsFiniteSet(1..m)
  BY <1>2, FS_Interval
<1> QED BY <1>1, <1>3

LEMMA CountType == ASSUME NEW o \in Outputs, NEW h PROVE Count(o, h) \in Nat
<1>1. IsFiniteSet({i \in DOMAIN o : Registrable(o[i]) = h})
  BY OutputType, FS_Subset
<1> QED BY <1>1, FS_CardinalityType DEF Count

LEMMA CandidateType == ASSUME NEW o \in Outputs, NEW h \in Candidates(o)
                       PROVE  h # Blank /\ h \in ToSet(Alphabet) /\ Good(h)
<1>1. PICK i \in DOMAIN o : h = Registrable(o[i])
  BY DEF Candidates
<1>2. h # Blank
  BY DEF Candidates
<1> QED BY <1>1, <1>2, OutputType, RegistrableGood, AlphabetAssumption

\* The order of candidates is one: whoever is visited last, the best wins.
LEMMA AheadOrders ==
  ASSUME NEW o \in Outputs
  PROVE  /\ \A g, h \in Candidates(o) : g # h => Ahead(o, g, h) \/ Ahead(o, h, g)
         /\ \A g, h, k \in Candidates(o) : Ahead(o, g, h) /\ Ahead(o, h, k) => Ahead(o, g, k)
<1>1. ASSUME NEW g \in Candidates(o), NEW h \in Candidates(o), g # h
      PROVE  Ahead(o, g, h) \/ Ahead(o, h, g)
  <2>1. Before(g, h) \/ Before(h, g)
    BY <1>1, CandidateType, BeforeOrders
  <2>2. Count(o, g) \in Nat /\ Count(o, h) \in Nat
    BY CountType
  <2> QED BY <2>1, <2>2 DEF Ahead
<1>2. ASSUME NEW g \in Candidates(o), NEW h \in Candidates(o), NEW k \in Candidates(o),
             Ahead(o, g, h), Ahead(o, h, k)
      PROVE  Ahead(o, g, k)
  <2>1. Count(o, g) \in Nat /\ Count(o, h) \in Nat /\ Count(o, k) \in Nat
    BY CountType
  <2>2. Before(g, h) /\ Before(h, k) => Before(g, k)
    BY BeforeOrders
  <2> QED BY <1>2, <2>1, <2>2 DEF Ahead
<1> QED BY <1>1, <1>2

LEMMA VisitStep ==
  ASSUME NEW o \in Outputs, NEW T \in SUBSET Candidates(o), NEW b, NEW h \in T,
         Leads(o, b, Candidates(o) \ T)
  PROVE  Leads(o, IF b = Blank \/ Ahead(o, h, b) THEN h ELSE b, Candidates(o) \ (T \ {h}))
<1> DEFINE V == Candidates(o) \ T
<1>1. Candidates(o) \ (T \ {h}) = V \cup {h} /\ h \notin V /\ h # Blank /\ h \in Candidates(o)
  BY CandidateType
<1>2. CASE b = Blank
  BY <1>1, <1>2 DEF Leads
<1>3. CASE b # Blank
  <2>1. b \in V /\ b \in Candidates(o) /\ \A g \in V \ {b} : Ahead(o, b, g)
    BY <1>3 DEF Leads
  <2>2. CASE Ahead(o, h, b)
    <3>1. \A g \in V : Ahead(o, h, g)
      BY <1>1, <2>1, <2>2, AheadOrders
    <3> QED BY <1>1, <1>3, <2>2, <3>1 DEF Leads
  <2>3. CASE ~Ahead(o, h, b)
    <3>1. Ahead(o, b, h)
      BY <1>1, <2>1, <2>3, AheadOrders
    <3> QED BY <1>1, <1>3, <2>1, <2>3, <3>1 DEF Leads
  <2> QED BY <2>2, <2>3
<1> QED BY <1>2, <1>3

\* What an answer does, whatever the source.
LEMMA AnswerStep ==
  ASSUME NEW h, NEW next, Answer(h, next), Good(h),
         next \in {"host", "dig", "mail", "url", "text", "tls", "http", "https", "done"}
  PROVE  LookupInv'
<1>1. Good(name')
  BY DEF Answer, Good
<1>2. ~InLoop'
  <2>1. stage' \in {"host", "dig", "mail", "url", "text", "tls", "http", "https", "done"}
    BY DEF Answer
  <2> QED BY <2>1, LoopStages DEF InLoop
<1> QED BY <1>1, <1>2 DEF LookupInv, Good

LEMMA BlankGood == Good(Blank)
  BY DEF Good

\* The usable hosts of an output are good.
LEMMA UsableGood == ASSUME NEW o \in Outputs, NEW i \in DOMAIN o PROVE Good(Normalize(o[i]))
  BY OutputType, NormalGood

LEMMA AskStep == ASSUME NEW source, NEW next, Ask(source, next),
                        next \in {"host", "dig", "mail", "https", "done"}
                 PROVE  LookupInv'
<1>1. PICK o \in Outputs : IF Usable(o) = {} THEN Answer(Blank, next)
                           ELSE \E h \in FirstUsable(o) : Answer(h, next)
  BY DEF Ask
<1>2. \A h \in FirstUsable(o) : Good(h)
  BY UsableGood DEF FirstUsable
<1> QED BY <1>1, <1>2, BlankGood, AnswerStep

LEMMA TLSStep == ASSUME AskTLS PROVE LookupInv'
<1>1. PICK o \in Outputs : IF Usable(o) = {} THEN Answer(Blank, "http")
                           ELSE \E h \in Sorted(o) : Answer(h, "http")
  BY DEF AskTLS
<1>2. \A h \in Sorted(o) : Good(h)
  BY UsableGood DEF Sorted, Usable
<1> QED BY <1>1, <1>2, BlankGood, AnswerStep

LEMMA WhoisStep == ASSUME NEW source \in DOMAIN Loop, LookupInv,
                          Whois(source) \/ Visit(source)
                   PROVE  LookupInv'
<1>1. CASE Whois(source)
  <2>1. PICK o \in Outputs : out' = o /\ todo' = Candidates(o)
    BY <1>1 DEF Whois
  <2>2. best' = Blank /\ name' = name
    BY <1>1 DEF Whois
  <2>3. Leads(o, Blank, Candidates(o) \ Candidates(o))
    BY DEF Leads
  <2> QED BY <2>1, <2>2, <2>3 DEF LookupInv, InLoop
<1>2. CASE Visit(source)
  <2>1. PICK h \in todo : todo' = todo \ {h} /\ best' = IF Better(h) THEN h ELSE best
    BY <1>2 DEF Visit
  <2>2. UNCHANGED <<stage, out, name>> /\ InLoop
    BY <1>2 DEF Visit, InLoop
  <2>3. out \in Outputs /\ todo \in SUBSET Candidates(out) /\ Leads(out, best, Candidates(out) \ todo)
    BY <2>2 DEF LookupInv
  <2>4. best' = IF best = Blank \/ Ahead(out, h, best) THEN h ELSE best
    BY <2>1 DEF Better, Ahead
  <2>5. Leads(out, best', Candidates(out) \ todo')
    BY <2>1, <2>3, <2>4, VisitStep
  <2>6. todo' \subseteq Candidates(out)
    BY <2>1, <2>3
  <2> QED BY <2>2, <2>3, <2>5, <2>6 DEF LookupInv
<1> QED BY <1>1, <1>2

LEMMA WhoisEndStep ==
  ASSUME NEW source \in DOMAIN Loop, NEW next \in {"url", "text", "tls"}, LookupInv,
         WhoisEnd(source, next)
  PROVE  LookupInv'
<1>1. InLoop /\ todo = {} /\ Answer(best, next)
  BY DEF WhoisEnd, InLoop
<1>2. out \in Outputs /\ Leads(out, best, Candidates(out))
  BY <1>1 DEF LookupInv
<1>3. best = Blank \/ best \in Candidates(out)
  BY <1>2 DEF Leads
<1>4. Good(best)
  BY <1>2, <1>3, BlankGood, CandidateType
<1> QED BY <1>1, <1>4, AnswerStep

LEMMA LookupStep == LookupInv /\ [SummaryNext]_ListingVars => LookupInv'
<1> SUFFICES ASSUME LookupInv, [SummaryNext]_ListingVars PROVE LookupInv'
  OBVIOUS
<1>0. {"mail", "url", "text"} = DOMAIN Loop
  BY LoopStages
<1>1. CASE Next
  BY <1>0, <1>1, AskStep, TLSStep, WhoisStep, WhoisEndStep
     DEF Next, vars, LookupInv, InLoop
<1>2. CASE Assign
  BY <1>2, LoopStages DEF Assign, LookupInv, InLoop
<1>3. CASE List
  BY <1>3, LoopStages DEF List, LookupInv, InLoop
<1>4. CASE UNCHANGED ListingVars
  BY <1>4 DEF ListingVars, vars, LookupInv, InLoop
<1> QED BY <1>1, <1>2, <1>3, <1>4 DEF SummaryNext

LEMMA LookupCorrect == SummarySpec => []LookupInv
<1>1. SummaryInit => LookupInv
  BY LoopStages DEF SummaryInit, Init, LookupInv, InLoop, Good
<1> QED BY <1>1, LookupStep, PTL DEF SummarySpec

\* Whois gives the same name whatever order the map of counts is visited in:
\* the one named most often, and of those the first of the alphabet.
THEOREM WhoisCorrect == SummarySpec => []WhoisOrderFree
<1>1. LookupInv => WhoisOrderFree
  <2> SUFFICES ASSUME LookupInv, InLoop, todo = {}
               PROVE  /\ best = Blank <=> Candidates(out) = {}
                      /\ \A h \in Candidates(out) \ {best} :
                           \/ Count(out, best) > Count(out, h)
                           \/ Count(out, best) = Count(out, h) /\ Before(best, h)
    BY DEF WhoisOrderFree, InLoop
  <2>1. Leads(out, best, Candidates(out))
    BY DEF LookupInv
  <2> QED BY <2>1 DEF Leads, Ahead
<1> QED BY <1>1, LookupCorrect, PTL

\* A name that was found passes the filters that normalize it once more.
THEOREM NameCorrect == SummarySpec => []NameUsable
<1>1. LookupInv => NameUsable
  BY DEF LookupInv, NameUsable, Good
<1> QED BY <1>1, LookupCorrect, PTL

-----------------------------------------------------------------------------
(* The hosts of a certificate *)

LEMMA LeastNumber ==
  ASSUME NEW S \in SUBSET Nat, S # {} PROVE \E m \in S : \A n \in S : m <= n
<1>1. PICK m \in S : \A n \in S : <<n, m>> \notin OpToRel(<, Nat)
  BY WFMin, NatLessThanWellFounded
<1>2. ASSUME NEW n \in S PROVE m <= n
  <2>1. ~(n < m)
    BY <1>1 DEF OpToRel
  <2> QED BY <2>1
<1> QED BY <1>2

\* The order of hosts is one, and one of them is the first.
LEMMA PreferredOrders ==
  ASSUME NEW g \in ToSet(Alphabet), NEW h \in ToSet(Alphabet), Preferred(g, h), Preferred(h, g)
  PROVE  g = h
<1>1. Size[g] \in Nat /\ Size[h] \in Nat
  BY SizeAssumption
<1>2. ~(Before(g, h) /\ Before(h, g))
  BY BeforeOrders
<1>3. Below(g) \in BOOLEAN /\ Below(h) \in BOOLEAN
  BY DEF Below
<1> QED BY <1>1, <1>2, <1>3 DEF Preferred

LEMMA FirstPreferred ==
  ASSUME NEW U \in SUBSET ToSet(Alphabet), U # {}
  PROVE  \E h \in U : \A g \in U : Preferred(h, g)
<1> DEFINE B == IF \E h \in U : Below(h) THEN {h \in U : Below(h)} ELSE U
           Sizes == {Size[h] : h \in B}
<1>1. B # {} /\ B \subseteq U /\ \A h \in U : Size[h] \in Nat
  BY SizeAssumption
<1>2. PICK m \in Sizes : \A n \in Sizes : m <= n
  <2>1. Sizes \in SUBSET Nat /\ Sizes # {}
    BY <1>1
  <2> HIDE DEF Sizes
  <2> QED BY <2>1, LeastNumber
<1> DEFINE I == {i \in DOMAIN Alphabet : Alphabet[i] \in B /\ Size[Alphabet[i]] = m}
<1>3. PICK i \in I : \A j \in I : i <= j
  <2>1. PICK h \in B : Size[h] = m
    BY <1>2
  <2>2. \E i \in DOMAIN Alphabet : Alphabet[i] = h
    BY <1>1, <2>1 DEF ToSet
  <2>3. DOMAIN Alphabet = 1..Len(Alphabet) /\ Len(Alphabet) \in Nat
    BY AlphabetAssumption
  <2>4. I \in SUBSET Nat /\ I # {}
    BY <2>1, <2>2, <2>3
  <2> HIDE DEF I
  <2> QED BY <2>4, LeastNumber
<1> DEFINE h == Alphabet[i]
<1>4. h \in B /\ Size[h] = m
  BY <1>3
<1>5. ASSUME NEW g \in U PROVE Preferred(h, g)
  <2>1. CASE g \notin B
    BY <1>1, <1>4, <2>1 DEF Preferred
  <2>2. CASE g \in B
    <3>1. Below(g) = Below(h)
      BY <1>4, <2>2 DEF Below
    <3>2. Size[h] <= Size[g] /\ Size[h] \in Nat /\ Size[g] \in Nat
      BY <1>1, <1>2, <1>4, <2>2
    <3>3. CASE Size[h] < Size[g]
      BY <3>1, <3>3 DEF Preferred
    <3>4. CASE Size[h] = Size[g]
      <4>1. PICK j \in DOMAIN Alphabet : Alphabet[j] = g
        BY DEF ToSet
      <4>2. j \in I
        BY <1>4, <2>2, <3>4, <4>1
      <4>3. i <= j /\ i \in DOMAIN Alphabet
        BY <1>3, <4>2
      <4>4. DOMAIN Alphabet = 1..Len(Alphabet) /\ Len(Alphabet) \in Nat
        BY AlphabetAssumption
      <4>5. i = j \/ i < j
        BY <4>1, <4>3, <4>4
      <4>6. h = g \/ Before(h, g)
        BY <4>1, <4>3, <4>5 DEF Before
      <4> QED BY <3>1, <3>4, <4>6 DEF Preferred
    <3> QED BY <3>2, <3>3, <3>4
  <2> QED BY <2>1, <2>2
<1> QED BY <1>1, <1>4, <1>5

\* The certificate gives one name whatever order its hosts come in
\* (bestHostnameCandidate), and one below its domain when there is one.
THEOREM MostSpecificCorrect == SummarySpec => MostSpecific
<1>1. ASSUME AskTLS, Usable(out') # {}
      PROVE  /\ Cardinality(Sorted(out')) = 1
             /\ (\E h \in Usable(out') : Below(h)) => Below(name')
  <2>1. PICK o \in Outputs : out' = o /\ IF Usable(o) = {} THEN Answer(Blank, "http")
                                         ELSE \E h \in Sorted(o) : Answer(h, "http")
    BY <1>1 DEF AskTLS
  <2>2. Usable(o) \in SUBSET ToSet(Alphabet) /\ Usable(o) # {}
    <3>1. \A i \in DOMAIN o : Normalize(o[i]) \in ToSet(Alphabet) \cup {Blank}
      BY OutputType, AlphabetAssumption
    <3> QED BY <1>1, <2>1, <3>1 DEF Usable
  <2>3. PICK h \in Usable(o) : \A g \in Usable(o) : Preferred(h, g)
    BY <2>2, FirstPreferred
  <2>4. Sorted(o) = {h}
    <3>1. \A g \in Sorted(o) : g = h
      BY <2>2, <2>3, PreferredOrders DEF Sorted
    <3> QED BY <2>3, <3>1 DEF Sorted
  <2>5. Cardinality(Sorted(o)) = 1
    BY <2>4, FS_Singleton
  <2>6. name' = h
    BY <2>1, <2>2, <2>3, <2>4 DEF Answer, Usable
  <2>7. (\E g \in Usable(o) : Below(g)) => Below(h)
    BY <2>3 DEF Preferred
  <2> QED BY <2>1, <2>5, <2>6, <2>7
<1>2. MostSpecific
  <2>1. [AskTLS /\ Usable(out') # {} =>
           /\ Cardinality(Sorted(out')) = 1
           /\ (\E h \in Usable(out') : Below(h)) => Below(name')]_vars
    BY <1>1
  <2> QED BY <2>1, PTL DEF MostSpecific
<1> QED BY <1>2

-----------------------------------------------------------------------------
(* Lists *)

Row(kind) == CASE kind = "process"    -> ProcessRecords
               [] kind = "domain"     -> DomainRecords
               [] kind = "connection" -> ConnectionRecords

\* A sequence of the ids of a finite set, each once.
LEMMA SeqsOfSet ==
  ASSUME NEW S, IsFiniteSet(S), NEW q \in SetToSeqs(S)
  PROVE  /\ Len(q) \in Nat /\ DOMAIN q = 1..Len(q) /\ q \in Seq(S)
         /\ ToSet(q) = S
<1> DEFINE n == Cardinality(S)
           D == 1..n
<1>1. n \in Nat
  BY FS_CardinalityType
<1>2. q \in [D -> S] /\ \A i, j \in D : i # j => q[i] # q[j]
  BY DEF SetToSeqs
<1>3. IsFiniteSet(D) /\ Cardinality(D) = n
  <2> HIDE DEF n
  <2>1. n \in Int /\ 1 \in Int
    BY <1>1
  <2>2. Cardinality(1..n) = (IF 1 > n THEN 0 ELSE n - 1 + 1) /\ IsFiniteSet(1..n)
    BY <2>1, FS_Interval
  <2>3. (IF 1 > n THEN 0 ELSE n - 1 + 1) = n
    BY <1>1
  <2> QED BY <2>2, <2>3
<1>4. q \in Injection(D, S)
  BY <1>2 DEF Injection, IsInjective
<1>5. q \in Surjection(D, S)
  BY <1>3, <1>4, FS_Injection
<1>6. \A x \in S : \E i \in D : q[i] = x
  BY <1>5 DEF Surjection
<1> HIDE DEF n
<1>7. Len(q) = n /\ q \in Seq(S)
  BY <1>1, <1>2, SeqDef, LenProperties
<1> QED BY <1>1, <1>2, <1>6, <1>7 DEF ToSet

LEMMA CutFacts ==
  ASSUME NEW S, NEW q \in Seq(S), NEW n \in Nat
  PROVE  LET k == IF n > Len(q) THEN Len(q) ELSE n
         IN  /\ k \in Nat /\ k <= Len(q) /\ Len(Cut(q, n)) = k /\ DOMAIN Cut(q, n) = 1..k
             /\ \A i \in 1..k : Cut(q, n)[i] = q[i]
<1> DEFINE k == IF n > Len(q) THEN Len(q) ELSE n
<1>1. Len(q) \in Nat /\ DOMAIN q = 1..Len(q)
  BY LenProperties
<1>2. k \in Nat /\ k <= Len(q)
  BY <1>1
<1>3. \A i \in 1..k : q[i] \in S
  BY <1>1, <1>2, ElementOfSeq
<1>4. Cut(q, n) = SubSeq(q, 1, k)
  BY DEF Cut
<1> HIDE DEF k
<1>5. SubSeq(q, 1, k) \in Seq(S) /\ Len(SubSeq(q, 1, k)) = k /\ \A i \in 1..k : SubSeq(q, 1, k)[i] = q[i]
  <2>1. 1 \in Int /\ k \in Int
    BY <1>2
  <2>2. /\ SubSeq(q, 1, k) \in Seq(S)
        /\ Len(SubSeq(q, 1, k)) = IF 1 <= k THEN k - 1 + 1 ELSE 0
        /\ \A i \in 1..(k - 1 + 1) : SubSeq(q, 1, k)[i] = q[1 + i - 1]
    BY <1>3, <2>1, SubSeqProperties
  <2>3. (IF 1 <= k THEN k - 1 + 1 ELSE 0) = k /\ k - 1 + 1 = k /\ \A i \in 1..k : 1 + i - 1 = i
    BY <1>2
  <2> QED BY <2>2, <2>3
<1>6. DOMAIN SubSeq(q, 1, k) = 1..k
  BY <1>5, LenProperties
<1>7. k \in Nat /\ k <= Len(q) /\ Len(Cut(q, n)) = k /\ DOMAIN Cut(q, n) = 1..k
      /\ \A i \in 1..k : Cut(q, n)[i] = q[i]
  BY <1>2, <1>4, <1>5, <1>6
<1> QED BY <1>7 DEF k

\* The beginning of a falling sequence of all of a set has the largest of it.
LEMMA CutLeads ==
  ASSUME NEW S, IsFiniteSet(S), NEW q \in SetToSeqs(S), NEW n \in Nat, NEW f \in [S -> Nat],
         \A i, j \in DOMAIN q : i < j => f[q[i]] >= f[q[j]]
  PROVE  /\ ToSet(Cut(q, n)) \subseteq S
         /\ \A i, j \in DOMAIN Cut(q, n) : i < j => f[Cut(q, n)[i]] >= f[Cut(q, n)[j]]
         /\ \A x \in S \ ToSet(Cut(q, n)) :
              Len(Cut(q, n)) = n /\ \A t \in ToSet(Cut(q, n)) : f[x] <= f[t]
         /\ n # 0 /\ S # {} =>
              Cut(q, n)[1] \in S /\ \A x \in S : f[x] <= f[Cut(q, n)[1]]
<1>1. Len(q) \in Nat /\ DOMAIN q = 1..Len(q) /\ q \in Seq(S) /\ ToSet(q) = S
  BY SeqsOfSet
<1> DEFINE k == IF n > Len(q) THEN Len(q) ELSE n
<1>2. /\ k \in Nat /\ k <= Len(q) /\ Len(Cut(q, n)) = k /\ DOMAIN Cut(q, n) = 1..k
      /\ \A i \in 1..k : Cut(q, n)[i] = q[i]
  BY <1>1, CutFacts
<1>3. k # n => k = Len(q)
  OBVIOUS
<1> DEFINE m == Len(q)
           c == Cut(q, n)
<1>4. /\ m \in Nat /\ DOMAIN q = 1..m /\ \A i \in 1..m : q[i] \in S
      /\ \A x \in S : \E i \in 1..m : q[i] = x
  BY <1>1, ElementOfSeq DEF ToSet
<1>5. /\ k \in Nat /\ k <= m /\ Len(c) = k /\ DOMAIN c = 1..k /\ \A i \in 1..k : c[i] = q[i]
      /\ (k # n => k = m)
  BY <1>2, <1>3
<1> HIDE DEF k, m, c
<1>6. \A i \in 1..k : i \in 1..m
  BY <1>4, <1>5
<1>7. ToSet(c) \subseteq S
  BY <1>4, <1>5, <1>6 DEF ToSet
<1>8. \A i, j \in DOMAIN c : i < j => f[c[i]] >= f[c[j]]
  BY <1>4, <1>5, <1>6
<1>9. ASSUME NEW x \in S, x \notin ToSet(c) PROVE Len(c) = n /\ \A t \in ToSet(c) : f[x] <= f[t]
  <2>1. PICK j \in 1..m : q[j] = x
    BY <1>4
  <2>2. j \notin 1..k
    BY <1>5, <1>9, <2>1 DEF ToSet
  <2>3. \A i \in 1..k : i < j
    BY <1>4, <1>5, <2>1, <2>2
  <2>4. \A i \in 1..k : f[q[i]] >= f[q[j]]
    BY <1>4, <1>6, <2>1, <2>3
  <2>5. \A i \in 1..k : f[c[i]] \in Nat /\ f[x] \in Nat /\ f[c[i]] >= f[x]
    BY <1>4, <1>5, <1>6, <2>1, <2>4
  <2>6. \A t \in ToSet(c) : f[x] <= f[t]
    BY <1>5, <2>5 DEF ToSet
  <2>7. k = n
    BY <1>4, <1>5, <2>1, <2>2
  <2> QED BY <1>5, <2>6, <2>7
<1>10. ASSUME n # 0, S # {} PROVE c[1] \in S /\ \A x \in S : f[x] <= f[c[1]]
  <2>1. 1 \in 1..k /\ 1 \in 1..m
    <3>1. \E i \in 1..m : TRUE
      BY <1>4, <1>10
    <3> QED BY <1>4, <1>5, <1>10, <3>1
  <2>2. c[1] = q[1] /\ q[1] \in S
    BY <1>4, <1>5, <2>1
  <2>3. ASSUME NEW x \in S PROVE f[x] <= f[c[1]]
    <3>1. PICK j \in 1..m : q[j] = x
      BY <1>4
    <3>2. f[x] \in Nat /\ f[q[1]] \in Nat
      BY <2>2
    <3>3. CASE j = 1
      BY <2>2, <3>1, <3>2, <3>3
    <3>4. CASE j # 1
      <4>1. 1 < j
        BY <1>4, <3>4
      <4>2. f[q[1]] >= f[q[j]]
        BY <1>4, <2>1, <4>1
      <4> QED BY <2>2, <3>1, <3>2, <4>2
    <3> QED BY <3>3, <3>4
  <2> QED BY <2>2, <2>3
<1> QED BY <1>7, <1>8, <1>9, <1>10 DEF c

\* A record that nothing precedes is as busy as any other.
Ranks(kind, order) == \/ kind = "process" /\ order = "cpu"
                      \/ kind = "domain" /\ order \in {"bytes", "upload bytes"}
                      \/ kind = "connection" /\ order \in {"traffic", "upload traffic"}

LEMMA BusyType == ASSUME NEW kind, NEW order, Ranks(kind, order), NEW r \in Row(kind)
                  PROVE  Busy(kind, r) \in Nat
<1>1. CASE kind = "process"
  BY <1>1, LimitAssumption DEF Row, Busy, ProcessRecords
<1>2. CASE kind = "domain"
  <2>1. r.rx \in Nat /\ r.tx \in Nat
    BY <1>2, LimitAssumption DEF Row, DomainRecords
  <2> QED BY <1>2, <2>1 DEF Busy
<1>3. CASE kind = "connection"
  BY <1>3, LimitAssumption DEF Row, Busy, ConnectionRecords
<1> QED BY <1>1, <1>2, <1>3 DEF Ranks

LEMMA BusyFalls == ASSUME NEW kind, NEW order, Ranks(kind, order),
                          NEW r \in Row(kind), NEW s \in Row(kind),
                          ~Precedes(order, s, r)
                   PROVE  Busy(kind, r) >= Busy(kind, s)
<1>1. CASE kind = "process" /\ order = "cpu"
  <2>1. r.cpu \in Nat /\ s.cpu \in Nat
    BY <1>1, LimitAssumption DEF Row, ProcessRecords
  <2>2. ~(s.cpu > r.cpu)
    BY <1>1 DEF Precedes, MoreCPU
  <2>3. Busy(kind, r) = r.cpu /\ Busy(kind, s) = s.cpu
    BY <1>1 DEF Busy
  <2> QED BY <2>1, <2>2, <2>3
<1>2. CASE kind = "domain" /\ order \in {"bytes", "upload bytes"}
  <2>1. r.rx \in Nat /\ r.tx \in Nat /\ s.rx \in Nat /\ s.tx \in Nat
    BY <1>2, LimitAssumption DEF Row, DomainRecords
  <2>2. ~(s.rx + s.tx > r.rx + r.tx)
    BY <1>2 DEF Precedes, MoreBytes, MoreUploadBytes
  <2>3. Busy(kind, r) = r.rx + r.tx /\ Busy(kind, s) = s.rx + s.tx
    BY <1>2 DEF Busy
  <2> QED BY <2>1, <2>2, <2>3
<1>3. CASE kind = "connection" /\ order \in {"traffic", "upload traffic"}
  <2>1. r.total \in Nat /\ s.total \in Nat
    BY <1>3, LimitAssumption DEF Row, ConnectionRecords
  <2>2. ~(s.total > r.total)
    BY <1>3 DEF Precedes, MoreTraffic, MoreUploadTraffic
  <2>3. Busy(kind, r) = r.total /\ Busy(kind, s) = s.total
    BY <1>3 DEF Busy
  <2> QED BY <2>1, <2>2, <2>3
<1> QED BY <1>1, <1>2, <1>3 DEF Ranks

\* top are the busiest n of the ids S, the busiest first.
Leading(kind, table, S, top, n) ==
  /\ ToSet(top) \subseteq S
  /\ \A i, j \in DOMAIN top : i < j => Busy(kind, table[top[i]]) >= Busy(kind, table[top[j]])
  /\ \A x \in S \ ToSet(top) :
       Len(top) = n /\ \A t \in ToSet(top) : Busy(kind, table[x]) <= Busy(kind, table[t])
  /\ S # {} => top[1] \in S /\ \A x \in S : Busy(kind, table[x]) <= Busy(kind, table[top[1]])

LEMMA SortLeads ==
  ASSUME NEW kind, NEW order, Ranks(kind, order), NEW I, IsFiniteSet(I), NEW table \in Tables(I, Row(kind)),
         NEW S \in SUBSET DOMAIN table, NEW q \in Sorts(order, table, S)
  PROVE  /\ ToSet(q) = S
         /\ \A i, j \in DOMAIN q : i < j => Busy(kind, table[q[i]]) >= Busy(kind, table[q[j]])
         /\ \A n \in Nat \ {0} : Leading(kind, table, S, Cut(q, n), n)
         /\ \A id \in DOMAIN table : Busy(kind, table[id]) \in Nat
<1>1. DOMAIN table \subseteq I /\ \A id \in DOMAIN table : table[id] \in Row(kind)
  BY DEF Tables
<1>2. IsFiniteSet(S)
  BY <1>1, FS_Subset
<1>3. q \in SetToSeqs(S) /\ \A i, j \in DOMAIN q : i < j => ~Precedes(order, table[q[j]], table[q[i]])
  BY DEF Sorts
<1>4. ToSet(q) = S /\ \A i \in DOMAIN q : q[i] \in S
  BY <1>2, <1>3, SeqsOfSet DEF ToSet
<1>5. \A i, j \in DOMAIN q : i < j => Busy(kind, table[q[i]]) >= Busy(kind, table[q[j]])
  BY <1>1, <1>3, <1>4, BusyFalls
<1>6. \A id \in DOMAIN table : Busy(kind, table[id]) \in Nat
  BY <1>1, BusyType
<1>7. ASSUME NEW n \in Nat \ {0} PROVE Leading(kind, table, S, Cut(q, n), n)
  <2> DEFINE f == [id \in S |-> Busy(kind, table[id])]
             c == Cut(q, n)
  <2>1. f \in [S -> Nat] /\ \A id \in S : f[id] = Busy(kind, table[id])
    BY <1>6
  <2>2. \A i, j \in DOMAIN q : i < j => f[q[i]] >= f[q[j]]
    BY <1>4, <1>5, <2>1
  <2> HIDE DEF f
  <2>3. /\ ToSet(c) \subseteq S
        /\ \A i, j \in DOMAIN c : i < j => f[c[i]] >= f[c[j]]
        /\ \A x \in S \ ToSet(c) : Len(c) = n /\ \A t \in ToSet(c) : f[x] <= f[t]
        /\ n # 0 /\ S # {} => c[1] \in S /\ \A x \in S : f[x] <= f[c[1]]
    BY <1>2, <1>3, <2>1, <2>2, CutLeads
  <2> HIDE DEF c
  <2>4. \A i \in DOMAIN c : c[i] \in S
    BY <2>3 DEF ToSet
  <2>5. Leading(kind, table, S, c, n)
    BY <2>1, <2>3, <2>4 DEF Leading
  <2> QED BY <2>5 DEF c
<1> QED BY <1>4, <1>5, <1>6, <1>7

-----------------------------------------------------------------------------
\* l has a list made by an order of its kind from ids S of a table.
Made(l, order, S) ==
  /\ Ranks(l.kind, order)
  /\ S = Listable(l.to, l.kind, l.table, l.named)
  /\ \E I : IsFiniteSet(I) /\ l.table \in Tables(I, Row(l.kind))
  /\ \E all \in Sorts(order, l.table, S) : l.list = IF l.to = "summary" THEN Cut(all, Limit) ELSE all
  /\ l.to = "summary" /\ l.kind = "process" =>
       \E again \in Sorts(order, l.table, S) : l.first = Cut(again, 1)

LEMMA MadeBusiest == ASSUME NEW l, NEW order, NEW S, Made(l, order, S) PROVE Busiest(l)
<1> PICK I : IsFiniteSet(I) /\ l.table \in Tables(I, Row(l.kind))
  BY DEF Made
<1> PICK all \in Sorts(order, l.table, S) : l.list = IF l.to = "summary" THEN Cut(all, Limit) ELSE all
  BY DEF Made
<1> USE DEF Made
<1>1. S = Listable(l.to, l.kind, l.table, l.named) /\ S \subseteq DOMAIN l.table
  BY DEF Listable
<1>2. /\ ToSet(all) = S
      /\ \A i, j \in DOMAIN all : i < j => Busy(l.kind, l.table[all[i]]) >= Busy(l.kind, l.table[all[j]])
      /\ Leading(l.kind, l.table, S, Cut(all, Limit), Limit)
      /\ \A id \in DOMAIN l.table : Busy(l.kind, l.table[id]) \in Nat
  BY <1>1, SortLeads, LimitAssumption
<1>3. \A id : BusyAt(l, id) = Busy(l.kind, l.table[id])
  BY DEF BusyAt
<1>4. CASE l.to # "summary"
  <2>1. l.list = all
    BY <1>4
  <2> QED BY <1>1, <1>2, <1>3, <1>4, <2>1 DEF Busiest
<1>5. CASE l.to = "summary"
  <2>1. l.list = Cut(all, Limit)
    BY <1>5
  <2>2. /\ ToSet(l.list) \subseteq S
        /\ \A i, j \in DOMAIN l.list : i < j => BusyAt(l, l.list[i]) >= BusyAt(l, l.list[j])
        /\ \A id \in S \ ToSet(l.list) :
             Len(l.list) = Limit /\ \A t \in ToSet(l.list) : BusyAt(l, id) <= BusyAt(l, t)
    BY <1>2, <1>3, <2>1 DEF Leading
  <2>3. ASSUME l.kind = "process", S # {} PROVE BusyAt(l, l.first[1]) = BusyAt(l, l.list[1])
    <3>1. PICK again \in Sorts(order, l.table, S) : l.first = Cut(again, 1)
      BY <1>5, <2>3
    <3>2. Leading(l.kind, l.table, S, l.first, 1)
      BY <1>1, <3>1, SortLeads
    <3>3. l.first[1] \in S /\ l.list[1] \in S
      BY <1>2, <2>1, <2>3, <3>2 DEF Leading
    <3>4. Busy(l.kind, l.table[l.first[1]]) <= Busy(l.kind, l.table[l.list[1]])
      BY <1>2, <2>1, <2>3, <3>3 DEF Leading
    <3>5. Busy(l.kind, l.table[l.list[1]]) <= Busy(l.kind, l.table[l.first[1]])
      BY <2>3, <3>2, <3>3 DEF Leading
    <3>6. Busy(l.kind, l.table[l.first[1]]) \in Nat /\ Busy(l.kind, l.table[l.list[1]]) \in Nat
      BY <1>1, <1>2, <3>3
    <3> QED BY <1>3, <3>4, <3>5, <3>6
  <2> QED BY <1>1, <1>5, <2>2, <2>3 DEF Busiest
<1> QED BY <1>4, <1>5

LEMMA FieldsBusiest ==
  ASSUME NEW l, NEW order, NEW I, IsFiniteSet(I), l.table \in Tables(I, Row(l.kind)),
         Ranks(l.kind, order),
         NEW all \in Sorts(order, l.table, Listable(l.to, l.kind, l.table, l.named)),
         l.list = IF l.to = "summary" THEN Cut(all, Limit) ELSE all,
         l.to = "summary" /\ l.kind = "process" =>
           \E again \in Sorts(order, l.table, Listable(l.to, l.kind, l.table, l.named)) :
             l.first = Cut(again, 1)
  PROVE  Busiest(l)
<1>1. Made(l, order, Listable(l.to, l.kind, l.table, l.named))
  BY DEF Made
<1> QED BY <1>1, MadeBusiest

\* Each of the six lists.
LEMMA ProcessesBusiest == ASSUME ListProcesses \/ UploadProcesses PROVE Busiest(listing')
<1>1. IsFiniteSet(Ids) /\ Row("process") = ProcessRecords /\ Ranks("process", "cpu")
  BY TrackedAssumption DEF Row, Ranks
<1>2. CASE ListProcesses
  <2>1. PICK table \in Tables(Ids, ProcessRecords) :
          \E all, again \in Sorts("cpu", table, Listable("summary", "process", table, {})) :
            listing' = [to |-> "summary", kind |-> "process", table |-> table, named |-> {},
                        list |-> Cut(all, Limit), first |-> Cut(again, 1)]
    BY <1>2 DEF ListProcesses
  <2>2. PICK all, again \in Sorts("cpu", table, Listable("summary", "process", table, {})) :
          listing' = [to |-> "summary", kind |-> "process", table |-> table, named |-> {},
                      list |-> Cut(all, Limit), first |-> Cut(again, 1)]
    BY <2>1
  <2>3. /\ listing'.to = "summary" /\ listing'.kind = "process" /\ listing'.table = table
        /\ listing'.named = {} /\ listing'.list = Cut(all, Limit) /\ listing'.first = Cut(again, 1)
    BY <2>2
  <2> QED BY <1>1, <2>3, FieldsBusiest
<1>3. CASE UploadProcesses
  <2>1. PICK table \in Tables(Ids, ProcessRecords) :
          \E all \in Sorts("cpu", table, Listable("upload", "process", table, {})) :
            listing' = [to |-> "upload", kind |-> "process", table |-> table, named |-> {}, list |-> all]
    BY <1>3 DEF UploadProcesses, ListAll
  <2>2. PICK all \in Sorts("cpu", table, Listable("upload", "process", table, {})) :
          listing' = [to |-> "upload", kind |-> "process", table |-> table, named |-> {},
                      list |-> all]
    BY <2>1
  <2>3. /\ listing'.to = "upload" /\ listing'.kind = "process" /\ listing'.table = table
        /\ listing'.named = {} /\ listing'.list = all
    BY <2>2
  <2> QED BY <1>1, <2>3, FieldsBusiest
<1> QED BY <1>2, <1>3

LEMMA DomainsBusiest == ASSUME ListDomains \/ UploadDomains PROVE Busiest(listing')
<1>1. /\ IsFiniteSet(Tracked) /\ Row("domain") = DomainRecords
      /\ Ranks("domain", "bytes") /\ Ranks("domain", "upload bytes")
  BY TrackedAssumption DEF Row, Ranks
<1>2. CASE ListDomains
  <2>1. PICK table \in Tables(Tracked, DomainRecords) :
          \E all \in Sorts("bytes", table, Listable("summary", "domain", table, {})) :
            listing' = [to |-> "summary", kind |-> "domain", table |-> table, named |-> {},
                        list |-> Cut(all, Limit)]
    BY <1>2 DEF ListDomains, ListLeading
  <2>2. PICK all \in Sorts("bytes", table, Listable("summary", "domain", table, {})) :
          listing' = [to |-> "summary", kind |-> "domain", table |-> table, named |-> {},
                      list |-> Cut(all, Limit)]
    BY <2>1
  <2>3. /\ listing'.to = "summary" /\ listing'.kind = "domain" /\ listing'.table = table
        /\ listing'.named = {} /\ listing'.list = Cut(all, Limit)
    BY <2>2
  <2> QED BY <1>1, <2>3, FieldsBusiest
<1>3. CASE UploadDomains
  <2>1. PICK table \in Tables(Tracked, DomainRecords), named \in SUBSET {Address} :
          \E all \in Sorts("upload bytes", table, Listable("upload", "domain", table, named)) :
            listing' = [to |-> "upload", kind |-> "domain", table |-> table, named |-> named, list |-> all]
    BY <1>3 DEF UploadDomains, ListAll
  <2>2. PICK all \in Sorts("upload bytes", table, Listable("upload", "domain", table, named)) :
          listing' = [to |-> "upload", kind |-> "domain", table |-> table, named |-> named,
                      list |-> all]
    BY <2>1
  <2>3. /\ listing'.to = "upload" /\ listing'.kind = "domain" /\ listing'.table = table
        /\ listing'.named = named /\ listing'.list = all
    BY <2>2
  <2> QED BY <1>1, <2>3, FieldsBusiest
<1> QED BY <1>2, <1>3

LEMMA ConnectionsBusiest == ASSUME ListConnections \/ UploadConnections PROVE Busiest(listing')
<1>1. /\ IsFiniteSet(Ids) /\ Row("connection") = ConnectionRecords
      /\ Ranks("connection", "traffic") /\ Ranks("connection", "upload traffic")
  BY TrackedAssumption DEF Row, Ranks
<1>2. CASE ListConnections
  <2>1. PICK table \in Tables(Ids, ConnectionRecords) :
          \E all \in Sorts("traffic", table, Listable("summary", "connection", table, {})) :
            listing' = [to |-> "summary", kind |-> "connection", table |-> table, named |-> {},
                        list |-> Cut(all, Limit)]
    BY <1>2 DEF ListConnections, ListLeading
  <2>2. PICK all \in Sorts("traffic", table, Listable("summary", "connection", table, {})) :
          listing' = [to |-> "summary", kind |-> "connection", table |-> table, named |-> {},
                      list |-> Cut(all, Limit)]
    BY <2>1
  <2>3. /\ listing'.to = "summary" /\ listing'.kind = "connection" /\ listing'.table = table
        /\ listing'.named = {} /\ listing'.list = Cut(all, Limit)
    BY <2>2
  <2> QED BY <1>1, <2>3, FieldsBusiest
<1>3. CASE UploadConnections
  <2>1. PICK table \in Tables(Ids, ConnectionRecords) :
          \E named \in SUBSET {c \in DOMAIN table : table[c].domain = Address} :
            \E all \in Sorts("upload traffic", table, Listable("upload", "connection", table, named)) :
              listing' = [to |-> "upload", kind |-> "connection", table |-> table, named |-> named, list |-> all]
    BY <1>3 DEF UploadConnections, ListAll
  <2>2. PICK named \in SUBSET {c \in DOMAIN table : table[c].domain = Address} :
          \E all \in Sorts("upload traffic", table, Listable("upload", "connection", table, named)) :
            listing' = [to |-> "upload", kind |-> "connection", table |-> table, named |-> named, list |-> all]
    BY <2>1
  <2>3. PICK all \in Sorts("upload traffic", table, Listable("upload", "connection", table, named)) :
          listing' = [to |-> "upload", kind |-> "connection", table |-> table, named |-> named,
                      list |-> all]
    BY <2>2
  <2>4. /\ listing'.to = "upload" /\ listing'.kind = "connection" /\ listing'.table = table
        /\ listing'.named = named /\ listing'.list = all
    BY <2>3
  <2> QED BY <1>1, <2>4, FieldsBusiest
<1> QED BY <1>2, <1>3

\* Busiest is about the listing and the name it was made with, and the list is
\* made with a name that does not change.
LEMMA BusiestFrame == ASSUME NEW l, name' = name, Busiest(l), listing' = l
                      PROVE  Busiest(listing)'
<1>1. \A to, kind, table, named : Listable(to, kind, table, named)' = Listable(to, kind, table, named)
  BY DEF Listable, HostOfId, Included, Uploaded, Recorded, Display
<1> QED BY <1>1 DEF Busiest, BusyAt

LEMMA BusiestStep == BusiestListed /\ [SummaryNext]_ListingVars => BusiestListed'
<1> SUFFICES ASSUME BusiestListed, [SummaryNext]_ListingVars PROVE BusiestListed'
  OBVIOUS
<1>1. CASE Next /\ ~UNCHANGED vars
  <2>1. stage' # "listed"
    BY <1>1, LoopStages DEF Next, Ask, Answer, Whois, Visit, WhoisEnd, AskTLS
  <2> QED BY <2>1 DEF BusiestListed
<1>2. CASE Assign
  <2>1. stage' # "listed"
    BY <1>2 DEF Assign
  <2> QED BY <2>1 DEF BusiestListed
<1>3. CASE List
  <2>1. Busiest(listing') /\ name' = name
    BY <1>3, ProcessesBusiest, DomainsBusiest, ConnectionsBusiest DEF List
  <2> QED BY <2>1, BusiestFrame DEF BusiestListed
<1>4. CASE UNCHANGED ListingVars
  <2>1. stage' = stage /\ name' = name /\ listing' = listing
    BY <1>4 DEF ListingVars, vars
  <2> QED BY <2>1, BusiestFrame DEF BusiestListed
<1>5. Next /\ UNCHANGED listing /\ UNCHANGED vars => UNCHANGED ListingVars
  BY DEF ListingVars
<1> QED BY <1>1, <1>2, <1>3, <1>4, <1>5 DEF SummaryNext, ListingVars

\* Every list has the busiest, from the busiest down, for any tables, limits
\* and names, whatever order sort.Slice leaves equals in.
THEOREM BusiestCorrect == SummarySpec => []BusiestListed
<1>1. SummaryInit => BusiestListed
  BY DEF SummaryInit, Init, BusiestListed
<1> QED BY <1>1, BusiestStep, PTL DEF SummarySpec
=============================================================================
