----------------------------- MODULE MCStartup ------------------------------
(* Instances of Startup for TLC: two families of command lines, so that all *)
(* lists of percentages do not meet all screens and users.                  *)
EXTENDS Startup

ListTotals == {0, 1, 2, 5, 7, 25}
SmallTotals == {0, 1, 3, 5}

Ok(pct) == [form |-> "ok", pct |-> pct]
Blank == [form |-> "blank", pct |-> 0]
Bad == [form |-> "bad", pct |-> 0]
List(parts) == [builtin |-> FALSE, parts |-> parts]

\* Percentages below zero, that round to nothing, that leave a remainder, that
\* ask for more than all, with blanks and errors between them.
UserLists == {List(parts) : parts \in BoundedSeq({Ok(-50), Ok(2), Ok(40), Ok(130), Blank, Bad}, 4)}

\* defaultTickClasses and realisticTickClasses, and defaultAlgoTiers.
TickTable == [builtin |-> TRUE, parts |-> <<Ok(2), Ok(8), Ok(40), Ok(50)>>]
TierTable == [builtin |-> TRUE, parts |-> <<Ok(1), Ok(10), Ok(89)>>]

Line(ticks, tiers, symbols, users, algoUsers, screens, visibleK) ==
    [valid |-> TRUE, role |-> "all", shardID |-> 0, shardCount |-> 2,
     ticks |-> ticks, tiers |-> tiers, symbols |-> symbols, users |-> users,
     algoUsers |-> algoUsers, screens |-> screens, visibleK |-> visibleK]

\* One market process per list; its algo tiers are cut by the same steps.
ListFlags ==
    {[Line(list, TierTable, n, 0, 0, <<>>, 0) EXCEPT !.role = "market"] :
        list \in UserLists, n \in ListTotals}

Symbols(first, last) == [form |-> "ok", first |-> first, last |-> last]
ScreenLists ==
    {<<>>, <<Symbols(0, 1)>>, <<Symbols(1, 9), Symbols(3, 3)>>, <<Symbols(4, 2)>>,
     <<Symbols(9, 12)>>, <<[form |-> "blank", first |-> 0, last |-> 0], Symbols(2, 4)>>,
     <<Symbols(0, 4), [form |-> "bad", first |-> 0, last |-> 0]>>}

\* All screens and numbers of slots, with more and fewer algo users than users.
UserFlags ==
    {[Line(TickTable, TierTable, n, users, algo, screens, visibleK)
        EXCEPT !.shardID = shard] :
        n \in SmallTotals, users \in {0, 3}, algo \in {0, 2, 5}, shard \in {0, 1},
        screens \in ScreenLists, visibleK \in {0, 1, 3, 4, 7}}

\* The other ways to be told to stop, and the lists that fail late.
OddFlags ==
    {[Line(TickTable, tiers, 5, 3, 3, <<>>, 2) EXCEPT !.valid = v, !.role = r, !.shardID = s] :
        tiers \in {List(<<Ok(40), Blank>>), List(<<Ok(40), Bad>>), List(<<Blank>>), TierTable},
        v \in BOOLEAN, r \in {"all", "users", "market", "accounts", "other"}, s \in {0, 1, 2}}

MCCaps == <<2, 3, 5>>

MCFlags == ListFlags \cup UserFlags \cup OddFlags
MCSpecs == UserLists \cup {TickTable, TierTable} \cup {f.tiers : f \in OddFlags}
MCTotals == ListTotals \cup 0..5

\* What buildVisible may be given: lists of ranges of existing symbols.
Ranges(n) == {r \in [start : 0..n, end : 0..n] : r.start <= r.end}
MCConfigs ==
    UNION {[symbols : {n}, visibleK : {0, 1, 3, 4, 7}, uid : 0..2,
            screens : BoundedSeq(Ranges(n), 2) \ {<<>>}] : n \in SmallTotals}
=============================================================================
