------------------------------ MODULE MCLookup ------------------------------
(* Hosts for the instance of Lookup that TLC checks: a shop under com with two *)
(* servers whose names are equally long, one under co.uk, a registry, a public *)
(* and a private address, and a name with a trailing dot.  The public address is *)
(* the one looked up; a domain that darwin's nettop named is tracked as well.   *)
EXTENDS Summary

Hosts == {<<"api", "shop", "com">>, <<"www", "shop", "com">>, <<"shop", "com">>,
          <<"www", "fair", "co", "uk">>, <<"iana", "org">>, <<"8", "8", "8", "8">>}
Lan    == {<<"10", "0", "0", "1">>}
Dotted == {<<"www", "shop", "com", "">>}
Everything == Hosts \cup Lan \cup Dotted

Ignored    == {<<"iana", "org">>}
Countries  == {"uk"}
Categories == {"co", "com", "org"}

Sorting == << <<"0", "1">>, <<"10", "0", "0", "1">>, <<"8", "8">>, <<"8", "8", "8", "8">>, <<"api", "shop", "com">>,
              <<"fair", "co", "uk">>, <<"iana", "org">>, <<"shop", "com">>,
              <<"www", "fair", "co", "uk">>, <<"www", "shop", "com">> >>
Lengths == [h \in ToSet(Sorting) |->
              CASE h \in {<<"0", "1">>, <<"8", "8">>} -> 3
                [] h = <<"8", "8", "8", "8">> -> 7
                [] h \in {<<"shop", "com">>, <<"iana", "org">>, <<"10", "0", "0", "1">>} -> 8
                [] h = <<"fair", "co", "uk">> -> 10
                [] h = <<"www", "fair", "co", "uk">> -> 14
                [] OTHER -> 12]

Looked  == <<"8", "8", "8", "8">>
Public  == {Looked, <<"9", "9", "9", "9">>}
Records == Public \cup {<<"shop", "com">>}
Names   == <<"", "curl">>
=============================================================================
