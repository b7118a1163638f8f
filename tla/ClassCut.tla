------------------------------ MODULE ClassCut ------------------------------
(***************************************************************************)
(* How a list of percentages is cut into classes of consecutive items: the *)
(* loop of ParseTickClasses and ParseAlgoTiers (trading-sim/partition.go), *)
(* which is also the loop of realisticTickClasses, defaultTickClasses and  *)
(* defaultAlgoTiers without the parsing and without the last fix-up.       *)
(*                                                                         *)
(* A part of the specification is a well-formed entry with its percentage, *)
(* an entry that does not parse, or blank (two commas, or one at an end).  *)
(* Names and rates are left out; percentages are whole numbers, and        *)
(* pct / 100.0 * total is rounded half up, as math.Round does with what is *)
(* not negative.                                                           *)
(***************************************************************************)
EXTENDS Integers, Sequences, FiniteSets, Sharding

CONSTANTS
    Specs,         \* the lists: [builtin |-> ..., parts |-> <<...>>]
    Totals,        \* numbers of items to cut
    ShardCounts    \* numbers of shards the classes are striped over

Part == [form : {"ok", "blank", "bad"}, pct : Int]

ASSUME SpecsAssumption ==
    \A s \in Specs :
        /\ s \in [builtin : BOOLEAN, parts : Seq(Part)]
        /\ s.builtin => /\ s.parts # <<>>
                        /\ \A k \in 1..Len(s.parts) : s.parts[k].form = "ok"
ASSUME NumbersAssumption == Totals \subseteq Nat /\ ShardCounts \subseteq Nat \ {0}

VARIABLES
    spec, total,   \* the arguments
    pc,            \* "loop", "fix", "done", or "error": an error was returned
    i,             \* the next part
    cursor,        \* the first item not in a class yet
    classes

vars == <<spec, total, pc, i, cursor, classes>>

Class == [start : Nat, end : Nat]

TypeOK ==
    /\ spec \in Specs /\ total \in Totals
    /\ pc \in {"loop", "fix", "done", "error"}
    /\ i \in 1..(Len(spec.parts) + 1)
    /\ cursor \in Nat
    /\ classes \in Seq(Class)

Init ==
    /\ spec \in Specs /\ total \in Totals
    /\ pc = "loop" /\ i = 1 /\ cursor = 0 /\ classes = <<>>

part == spec.parts[i]

SkipBlank ==
    /\ pc = "loop" /\ i <= Len(spec.parts) /\ part.form = "blank"
    /\ i' = i + 1
    /\ UNCHANGED <<spec, total, pc, cursor, classes>>

Reject ==
    /\ pc = "loop" /\ i <= Len(spec.parts) /\ part.form = "bad"
    /\ pc' = "error"
    /\ UNCHANGED <<spec, total, i, cursor, classes>>

\* How many items an entry asks for: at least one.
Count(pct) ==
    LET rounded == (2 * pct * total + 100) \div 200
    IN  IF rounded < 1 THEN 1 ELSE rounded

\* Where the class ends: the last part takes all that is left, and no class
\* goes past the end.  A bug in it: only the last part is cut off there.
CutEndUnclamped(count) ==
    IF i = Len(spec.parts) THEN total ELSE cursor + count
CutEnd(count) ==
    IF i = Len(spec.parts) \/ cursor + count > total THEN total ELSE cursor + count

Cut ==
    /\ pc = "loop" /\ i <= Len(spec.parts) /\ part.form = "ok"
    /\ LET end == CutEnd(Count(part.pct))
       IN  /\ classes' = IF cursor < end
                         THEN Append(classes, [start |-> cursor, end |-> end])
                         ELSE classes
           /\ cursor' = end
           /\ pc' = IF end >= total THEN "fix" ELSE "loop"
    /\ i' = i + 1
    /\ UNCHANGED <<spec, total>>

\* The list ends without a part that took the rest: the last one was blank.
EndLoop ==
    /\ pc = "loop" /\ i > Len(spec.parts)
    /\ pc' = "fix"
    /\ UNCHANGED <<spec, total, i, cursor, classes>>

\* After the loop of the two parsers: the last class is stretched over what
\* no class covers.  The built-in tables are returned as they are.
FixUp ==
    /\ pc = "fix"
    /\ classes' = IF ~spec.builtin /\ cursor < total /\ classes # <<>>
                  THEN [classes EXCEPT ![Len(classes)].end = total]
                  ELSE classes
    /\ pc' = "done"
    /\ UNCHANGED <<spec, total, i, cursor>>

Next == SkipBlank \/ Reject \/ Cut \/ EndLoop \/ FixUp

Spec == Init /\ [][Next]_vars

-----------------------------------------------------------------------------
(* Properties *)

\* The (class, shard) pairs that publish an item when the classes are striped
\* over shardCount shards.
Owners(item, shardCount) ==
    {o \in (1..Len(classes)) \X (0..(shardCount - 1)) :
        item \in Owned(classes[o[1]], o[2], shardCount)}

\* Every item has exactly one publisher in the whole system, whatever the
\* percentages, and nobody publishes an item that does not exist: shards that
\* never talk to each other (main.go:4-8) still split all the work, without a
\* symbol ticking twice or not at all.  (A list without any entry gives no
\* classes and nothing is published.)
SingleOwner ==
    pc = "done" /\ classes # <<>> =>
        \A shardCount \in ShardCounts :
            /\ \A item \in 0..(total - 1) : \E o \in Owners(item, shardCount) :
                    \A p \in Owners(item, shardCount) : p = o
            /\ \A k \in 1..Len(classes), s \in 0..(shardCount - 1) :
                    Owned(classes[k], s, shardCount) \subseteq 0..(total - 1)

\* A list with an entry covers all items, built-in or parsed: there is no way
\* to lose the symbols behind the last class to rounding or to a blank last
\* part, which the loop skips without giving it the remainder.
EntriesCover ==
    pc = "done" /\ total > 0 /\ (\E k \in 1..(i - 1) : spec.parts[k].form = "ok") =>
        classes # <<>> /\ classes[Len(classes)].end = total
=============================================================================
