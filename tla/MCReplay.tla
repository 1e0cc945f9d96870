-------------------------------- MODULE MCReplay --------------------------------
(***************************************************************************)
(* Values of the constants of NorwayReplay for model checking: a law of    *)
(* two sections with two paragraphs each, and acts of at most four         *)
(* operations, three of them legs.                                         *)
(***************************************************************************)
EXTENDS ReplayLaws, TLC

SectionAddresses == {<<1>>, <<2>>, <<3>>}

LeddAddresses == {<<s, n>> : s \in 0..3, n \in 1..2}

SomeAddresses == SectionAddresses \cup LeddAddresses

Op(action, target, destination, payload, refusing) ==
    [action |-> action, act |-> 1, sequence |-> 0, target |-> target,
     destination |-> destination, payload |-> payload, refusing |-> refusing]

Leg(s, d) == Op("RENUMBER", s, d, NoText, FALSE)

Drop(a) == Op("REPEAL", a, NoWhere, NoText, FALSE)

Put(a, refusing) == Op("INSERT", a, NoWhere, <<"new", a>>, refusing)

SomeTexts == {<<kind, a>> : kind \in {"old", "new"}, a \in SomeAddresses}

\* The law in the beginning shows its addresses, those of missing apart.
LawWithout(missing) ==
    [a \in SomeAddresses |->
        IF a[1] \in {0, 3} \/ a \in missing \/ <<a[1]>> \in missing THEN NoText ELSE <<"old", a>>]

SomeLaws == {LawWithout({}), LawWithout({<<1, 2>>}), LawWithout({<<2>>})}

WholeLaw == {LawWithout({})}

\* In the beginning there are two sections with two ledd each.
Ledds == {<<s, n>> : s \in 1..2, n \in 1..2}

SectionLegs == {Leg(s, d) : s, d \in SectionAddresses}

WithinSections == {Leg(s, d) : s, d \in Ledds}

LeddLegs == WithinSections \cup {Leg(<<1, 1>>, <<3, 1>>)}

Moving == {l \in SectionLegs \cup LeddLegs : l.target # l.destination}

\* The operations in some order, with their places as sequence numbers.
AsAct(act, list) == [n \in DOMAIN list |-> [list[n] EXCEPT !.act = act, !.sequence = n]]

SetsOfLegs(legs, n) == UNION {kSubset(k, legs) : k \in 0..n}

OneWay(set) == \A l, m \in set : l.target = m.target => l = m

\* What else an act may do.
Besides ==
    {<<>>, <<Drop(<<1, 2>>)>>, <<Drop(<<2>>)>>,
     <<Put(<<1, 1>>, TRUE)>>, <<Put(<<1, 2>>, FALSE)>>, <<Put(<<2>>, FALSE)>>}

\* Acts in which no provision is sent to two places, and none to its own.
OneAct ==
    {AsAct(1, other \o SetToSeq(legs)) :
        other \in Besides, legs \in {L \in SetsOfLegs(Moving, 3) : OneWay(L)}}

\* An act applied twice, and one that announces a leg twice.
Again ==
    LET acts == {SetToSeq(legs) \o <<Put(<<1, 1>>, TRUE)>> :
                     legs \in {L \in SetsOfLegs(Moving, 2) : OneWay(L)}}
    IN  {AsAct(2, a) \o AsAct(1, a) : a \in acts} \cup {AsAct(1, a \o a) : a \in acts}

\* Acts in which a provision is sent to its own place, beside another leg.
Staying ==
    {AsAct(1, <<stay, leg>>) :
        stay \in {Leg(a, a) : a \in SectionAddresses \cup Ledds}, leg \in Moving}

SafePrograms == OneAct \cup Again \cup {p \in Staying : OneWay(Range(p))}

\* Acts that send a paragraph to two other places.
ContestedPrograms ==
    {AsAct(1, SetToSeq(L)) :
        L \in {S \in SetsOfLegs(WithinSections \cap Moving, 2) : ~OneWay(S)}}

\* There is room in both sections.
RoomyLaw == {LawWithout({<<1, 2>>, <<2, 2>>})}

\* Acts that leave a paragraph where it is, alone or beside another leg.
StayingPrograms ==
    {AsAct(1, <<Leg(a, a)>> \o others) :
        a \in Ledds, others \in {<<>>} \cup {<<l>> : l \in WithinSections \cap Moving}}

=============================================================================
