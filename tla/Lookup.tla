------------------------------- MODULE Lookup -------------------------------
(***************************************************************************)
(* How dialtone-watcher finds a name for a public address (resolver.go):    *)
(* lookupAddrName asks DNS, host, dig, whois, the TLS certificate and the   *)
(* HTTP redirect, in this order, and takes the first usable answer.         *)
(*                                                                         *)
(* A host is a sequence of labels, <<>> the empty string; a trailing dot is *)
(* the empty label Dot at its end.  What a tool prints is the sequence of   *)
(* the hosts the parser of its output finds in it; a tool that is missing,  *)
(* fails or takes too long prints none.  Case, blanks, brackets and the     *)
(* wildcard prefix are left out.                                            *)
(***************************************************************************)
EXTENDS Naturals, Sequences, FiniteSets, SequencesExt

CONSTANTS Raw,         \* hosts the outputs may name
          Dot,         \* the empty label
          Private,     \* those that are addresses and not public ones
          Country,     \* two-letter labels
          Category,    \* labels that do not make a domain of their own before
                       \* those: ac, co, com, edu, gov, net, org
          Registries,  \* whoisIgnoredDomains
          Alphabet,    \* normalized hosts in alphabetical order
          Size,        \* the length of the text of each of them
          MaxHosts     \* bound on the hosts in one output

ASSUME SizeAssumption == Size \in [ToSet(Alphabet) -> Nat]
ASSUME BoundAssumption == MaxHosts \in Nat

\* No host that a tool prints ends in two dots, and no address has two or three
\* labels.
ASSUME HostAssumption ==
  /\ \A h \in Raw : /\ h \in Seq(ToSet(h))
                    /\ Len(h) > 1 /\ Last(h) = Dot => h[Len(h) - 1] # Dot
  /\ \A h \in Private : Len(h) \notin {2, 3}

Blank == <<>>

-----------------------------------------------------------------------------
(* Host names *)

\* normalizeResolvedHost.  Mutant: a private address is a host like any other.
WithoutDot(h)        == IF h # Blank /\ Last(h) = Dot THEN Front(h) ELSE h
NormalizeAnything(h) == WithoutDot(h)
Normalize(h)         == IF WithoutDot(h) \in Private THEN Blank ELSE WithoutDot(h)

LastLabels(h, n) == SubSeq(h, Len(h) - n + 1, Len(h))

\* registrableDomain.
Registrable(raw) ==
  LET h == Normalize(raw) IN
  IF Len(h) <= 2 THEN h
  ELSE IF h[Len(h)] \in Country /\ h[Len(h) - 1] \in Category
    THEN LastLabels(h, 3) ELSE LastLabels(h, 2)

\* The alphabet has each host and each domain once.
ASSUME AlphabetAssumption ==
  /\ Alphabet \in Seq(ToSet(Alphabet))
  /\ \A i, j \in DOMAIN Alphabet : Alphabet[i] = Alphabet[j] => i = j
  /\ \A h \in Raw : {Normalize(h), Registrable(h)} \subseteq ToSet(Alphabet) \cup {Blank}

Before(g, h) == \E i, j \in DOMAIN Alphabet : i < j /\ Alphabet[i] = g /\ Alphabet[j] = h

\* bestHostnameCandidate sorts by: a host below its domain first, then the
\* shorter, then the alphabet.  Mutant: hosts of one length count as equal.
Below(h) == Registrable(h) # h
PreferredBySize(g, h) == \/ Below(g) /\ ~Below(h)
                         \/ Below(g) = Below(h) /\ Size[g] <= Size[h]
Preferred(g, h) == \/ Below(g) /\ ~Below(h)
                   \/ /\ Below(g) = Below(h)
                      /\ \/ Size[g] < Size[h]
                         \/ Size[g] = Size[h] /\ (g = h \/ Before(g, h))

Usable(out) == {Normalize(out[i]) : i \in DOMAIN out} \ {Blank}

\* The first of a sorted list of the usable hosts, in any order the sort may
\* leave equal ones in.
Sorted(out) == {h \in Usable(out) : \A g \in Usable(out) : Preferred(h, g)}

-----------------------------------------------------------------------------
VARIABLES stage,    \* the source asked next, or where whois is
          out,      \* the output of the source asked last
          todo,     \* whois: hosts the loop over the counts has to visit
          best,     \* whois: bestHost so far
          name      \* the result, when stage is "done"

vars == <<stage, out, todo, best, name>>

Outputs == SeqOf(Raw, MaxHosts)

Init == /\ stage = "dns"
        /\ out = <<>> /\ todo = {} /\ best = Blank /\ name = Blank

\* What a source found ends the lookup; nothing passes it on to the next one.
Answer(h, next) == IF h # Blank THEN name' = h /\ stage' = "done"
                                ELSE name' = Blank /\ stage' = next

\* lookupPTRName, lookupHostCommandName, lookupDigCommandName: the first usable
\* host of the output.
FirstUsable(o) == {Normalize(o[i]) : i \in {j \in DOMAIN o :
                     /\ Normalize(o[j]) # Blank
                     /\ \A k \in 1..(j - 1) : Normalize(o[k]) = Blank}}

Ask(source, next) == /\ stage = source
                     /\ \E o \in Outputs :
                          /\ out' = o
                          /\ IF Usable(o) = {} THEN Answer(Blank, next)
                             ELSE \E h \in FirstUsable(o) : Answer(h, next)
                     /\ UNCHANGED <<todo, best>>

-----------------------------------------------------------------------------
(* lookupWhoisName: bestWhoisCandidate of the addresses of mail, of each URL, *)
(* of the host names of the answer                                            *)

Loop == [mail |-> "mail loop", url |-> "url loop", text |-> "text loop"]

Candidates(o)  == {Registrable(o[i]) : i \in DOMAIN o} \ (Registries \cup {Blank})
Count(o, h)    == Cardinality({i \in DOMAIN o : Registrable(o[i]) = h})

Whois(source) == /\ stage = source
                 /\ \E o \in Outputs : /\ source = "url" => Len(o) <= 1
                                       /\ out' = o
                                       /\ todo' = Candidates(o)
                 /\ best' = Blank
                 /\ stage' = Loop[source]
                 /\ UNCHANGED name

\* One iteration of the loop over the map of counts, in any order.  Mutant: of
\* two hosts with one count the one visited last is taken.
BetterLast(h) == best = Blank \/ Count(out, h) >= Count(out, best)
Better(h) == \/ best = Blank \/ Count(out, h) > Count(out, best)
             \/ Count(out, h) = Count(out, best) /\ Before(h, best)

Visit(source) == /\ stage = Loop[source]
                 /\ \E h \in todo : /\ todo' = todo \ {h}
                                    /\ best' = IF Better(h) THEN h ELSE best
                 /\ UNCHANGED <<stage, out, name>>

\* A URL without a candidate leads to the next URL.
WhoisEnd(source, next) == /\ stage = Loop[source] /\ todo = {}
                          /\ Answer(best, next)
                          /\ UNCHANGED <<out, todo, best>>

-----------------------------------------------------------------------------
\* lookupTLSCertName, parseTLSSAN.
AskTLS == /\ stage = "tls"
          /\ \E o \in Outputs :
               /\ out' = o
               /\ IF Usable(o) = {} THEN Answer(Blank, "http")
                  ELSE \E h \in Sorted(o) : Answer(h, "http")
          /\ UNCHANGED <<todo, best>>

\* lookupHTTPHeaderName, of http and then of https.
Next == \/ Ask("dns", "host") \/ Ask("host", "dig") \/ Ask("dig", "mail")
        \/ \E source \in {"mail", "url", "text"} : Whois(source) \/ Visit(source)
        \/ WhoisEnd("mail", "url") \/ WhoisEnd("url", "url") \/ WhoisEnd("url", "text")
        \/ WhoisEnd("text", "tls")
        \/ AskTLS
        \/ Ask("http", "https") \/ Ask("https", "done")
        \/ stage = "done" /\ UNCHANGED vars

Spec == Init /\ [][Next]_vars

-----------------------------------------------------------------------------
(* Properties *)

\* Whois gives the same name whatever order Go visits the map of counts in: the
\* candidate named most often, and of those the first of the alphabet.
WhoisOrderFree ==
  (\E source \in DOMAIN Loop : stage = Loop[source]) /\ todo = {} =>
    /\ best = Blank <=> Candidates(out) = {}
    /\ \A h \in Candidates(out) \ {best} :
         \/ Count(out, best) > Count(out, h)
         \/ Count(out, best) = Count(out, h) /\ Before(best, h)

\* A name that goes to the cache has no trailing dot and is no private address,
\* by whichever source, domain and choice it was found: the filters that
\* normalize it once more (shouldIncludeDomainRecord and the upload's) do not
\* drop it and do not change it.
NameUsable == name # Blank => name \notin Private /\ Last(name) # Dot

\* The certificate gives the same name whatever order its hosts come in, and one
\* below its domain when there is one.
MostSpecific ==
  [][AskTLS /\ Usable(out') # {} =>
       /\ Cardinality(Sorted(out')) = 1
       /\ (\E h \in Usable(out') : Below(h)) => Below(name')]_vars
=============================================================================
