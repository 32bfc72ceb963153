----------------------------- MODULE MCPcieEnum -----------------------------
(***************************************************************************)
(* Machines for PcieEnum.  The windows' granule is 16 units; BARs of one   *)
(* to sixteen units make starts that are aligned for some sizes and not    *)
(* for others, and areas of one granule and of several; BARs of two and    *)
(* four granules are larger than the accounts of the code allow for.       *)
(***************************************************************************)
EXTENDS PcieEnum

NP(n) == [kind |-> "np", size |-> n]
P(n) == [kind |-> "p", size |-> n]
P64(n) == [kind |-> "p64", size |-> n]

Fn(b, h, up, kind, bars) == [on |-> <<b, h, up>>, kind |-> kind, bars |-> bars]

\* The areas of the n-th host bridge of the machine.
Hb(start, n) ==
  [start |-> start,
   area |-> [np |-> 4000 * n + 416, p |-> 4000 * n + 800, p64 |-> 4000 * n + 1216],
   rp |-> [p |-> 4000 * n + 2000, p64 |-> 4000 * n + 2400]]

Ecam(seg, start, end, hbs) == [seg |-> seg, start |-> start, end |-> end, hbs |-> hbs]

OneHb(end) == <<Ecam(0, 0, end, <<Hb(0, 0)>>)>>

\* BARs of an endpoint whose 32-bit ones do not end on a granule.  A bridge has
\* one prefetchable window, so a machine uses 32-bit or 64-bit prefetchable
\* BARs.
BarsNP == {<<>>, <<NP(1), NP(1)>>, <<NP(2), NP(0), NP(1)>>, <<NP(1), NP(1), NP(2)>>,
           <<NP(16), NP(1), NP(4)>>}
BarPairs ==
  LET Pairs(S) == (BarsNP \cup S) \X (BarsNP \cup S)
  IN  Pairs({<<NP(1), P(2), P(1), NP(1)>>})
        \cup Pairs({<<P64(1)>>, <<P64(16), NP(1), P64(1), NP(1)>>})

PortBars == {<<>>, <<P(1)>>, <<P64(2)>>}

\* Two root ports with an endpoint each.
TwoPorts == {[blocks |-> OneHb(4),
              fn |-> <<Fn(1, 1, 0, "RP", r), Fn(1, 1, 1, "EP", ab[1]),
                       Fn(1, 1, 0, "RP", r), Fn(1, 1, 3, "EP", ab[2])>>] :
             ab \in BarPairs, r \in PortBars}

\* BARs of several granules: followed by small ones at a multiple of their size or
\* not, or last below their bridge; 32-bit and 64-bit prefetchable BARs together.
LargeBars == {<<NP(1), NP(1)>>, <<NP(32), NP(1), NP(1)>>, <<NP(1), NP(32), NP(1), NP(1)>>,
              <<P64(64), P64(1)>>, <<P64(1), P64(64)>>, <<P64(32)>>, <<P(1), P(1)>>}
Large == {[blocks |-> OneHb(5),
           fn |-> <<Fn(1, 1, 0, "RP", r), Fn(1, 1, 1, "SW", r), Fn(1, 1, 2, "EP", a),
                    Fn(1, 1, 0, "RP", <<P64(1), P(4)>>), Fn(1, 1, 4, "EP", b)>>] :
          a \in LargeBars, b \in LargeBars, r \in {<<>>, <<P64(2), P(1)>>}}

\* A host bridge, a switch with two endpoints below a root port, then a root port
\* with an endpoint, and an integrated endpoint.
Switch == {[blocks |-> OneHb(7),
            fn |-> <<Fn(1, 1, 0, "HB", <<>>), Fn(1, 1, 0, "RP", <<P(1)>>),
                     Fn(1, 1, 2, "SW", <<>>), Fn(1, 1, 3, "SW", <<>>),
                     Fn(1, 1, 4, "EP", ab[1]), Fn(1, 1, 3, "SW", <<>>),
                     Fn(1, 1, 6, "EP", ab[2]), Fn(1, 1, 0, "RP", <<>>),
                     Fn(1, 1, 8, "EP", ab[1]), Fn(1, 1, 0, "RCiEP", ab[1])>>] :
           ab \in BarPairs}

\* A root port with nothing below, and one with two endpoints and a function
\* without the PCI Express capability on its bus.
Shared == {[blocks |-> OneHb(3),
            fn |-> <<Fn(1, 1, 0, "RP", <<>>), Fn(1, 1, 0, "RP", <<P(1)>>),
                     Fn(1, 1, 2, "EP", ab[1]), Fn(1, 1, 2, "EP", ab[2]),
                     Fn(1, 1, 2, "PCI", <<>>)>>] :
           ab \in BarPairs}

\* Two host bridges in one ECAM, and two segments that use the same numbers.
TwoHbs == {[blocks |-> <<Ecam(0, 0, 15, <<Hb(0, 0), Hb(8, 1)>>)>>,
            fn |-> <<Fn(1, 1, 0, "RP", <<>>), Fn(1, 1, 1, "EP", ab[1]),
                     Fn(1, 2, 0, "RP", <<P(1)>>), Fn(1, 2, 3, "EP", ab[2])>>] :
           ab \in BarPairs}
TwoSegments == {[blocks |-> <<Ecam(0, 0, 3, <<Hb(0, 0)>>), Ecam(1, 0, 3, <<Hb(0, 1)>>)>>,
                 fn |-> <<Fn(1, 1, 0, "RP", <<>>), Fn(1, 1, 1, "SW", <<>>),
                          Fn(1, 1, 2, "EP", ab[1]), Fn(2, 1, 0, "RP", <<P(1)>>),
                          Fn(2, 1, 4, "EP", ab[2]), Fn(2, 1, 0, "RP", <<>>)>>] :
                ab \in BarPairs}

\* An ECAM with one bus less than the bridges ask for.
Short == {[blocks |-> OneHb(1),
           fn |-> <<Fn(1, 1, 0, "RP", <<>>), Fn(1, 1, 1, "EP", a),
                    Fn(1, 1, 0, "RP", <<>>)>>] : a \in BarsNP}

MCPlatforms == TwoPorts \cup Large \cup Switch \cup Shared \cup TwoHbs \cup TwoSegments \cup Short

\* Two root ports whose endpoints have one BAR each.
MCSingleBar == {[blocks |-> OneHb(4),
                 fn |-> <<Fn(1, 1, 0, "RP", <<>>), Fn(1, 1, 1, "EP", <<NP(1)>>),
                          Fn(1, 1, 0, "RP", <<>>), Fn(1, 1, 3, "EP", <<NP(1)>>)>>]}
=============================================================================
