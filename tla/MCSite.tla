------------------------------- MODULE MCSite -------------------------------
(* A small site: two accounts with a live each, three lives to list, two
   registered nodes out of three, two relays *)
EXTENDS Site

CONSTANTS u1, u2, n1, n2, n3

McOwnerOf == 1 :> u1 @@ 2 :> u2

McVisits == {<<"/", "">>, <<"/", "/wallet">>, <<"/", "elsewhere">>, <<"/feed", "">>,
             <<"/dashboard", "">>, <<"/wallet", "">>}

McKinds ==
  {[meta |-> a[1], default |-> a[2], connected |-> c, block |-> IF c THEN 0 ELSE b] :
     a \in {<<u1, NoUser>>, <<u2, NoUser>>, <<NoUser, u2>>, <<u1, u2>>, <<NoUser, NoUser>>},
     c \in BOOLEAN, b \in {7}}
McInputs == [1..3 -> McKinds]

\* a listing to browse: every kind of card, and one whose creator is unknown
McBrowsed ==
  LET mine == [meta |-> u1, default |-> NoUser, connected |-> TRUE, block |-> 0]
      ended == [meta |-> NoUser, default |-> u2, connected |-> FALSE, block |-> 7]
  IN  {<<mine, ended, third>> : third \in {k \in McKinds : k.connected /\ u1 # k.default}}

McAddresses ==
  {<<>>, <<"fr">>, <<"en", "blog">>, <<"en", "spec", "rfc-9">>, <<"en", "operator">>,
   <<"pt-BR", "transparency">>, <<"en", "spec", "rfc-0", "x">>}

McListings == {<<>>, <<n3>>, <<n1>>, <<n2, n1, n2>>, <<n3, n1, n2>>}

McGeo == {[region |-> r, place |-> p] :
            r \in {<<>>, <<"BR", "SP">>, <<"BR", "RJ">>, <<"US", "VA">>}, p \in {-1, 1, 3}}
McRankCalls ==
  {[providers |-> <<[peer |-> n1, region |-> a.region, place |-> a.place],
                    [peer |-> n2, region |-> b.region, place |-> b.place],
                    [peer |-> n3, region |-> <<"BR", "RJ">>, place |-> 2]>>,
    viewer |-> v] :
      a \in McGeo, b \in McGeo,
      v \in {[region |-> <<>>, place |-> -1], [region |-> <<"BR", "SP">>, place |-> 2],
             [region |-> <<"US", "FL">>, place |-> -1], [region |-> <<>>, place |-> 1]}}
McRegistry == <<n1, n2>>

=============================================================================
