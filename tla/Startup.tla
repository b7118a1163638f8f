------------------------------- MODULE Startup -------------------------------
(***************************************************************************)
(* From the command line to the first subscription: main of trading-sim    *)
(* checks the flags, parses the screens, the tick classes and the algo     *)
(* tiers, and starts its shards; one user of the user shard then chooses   *)
(* its symbols.  The two lists are cut by the steps of ClassCut, the       *)
(* symbols are chosen by those of Visible.                                 *)
(*                                                                         *)
(* The processes of a run share their flags but for the role and the shard *)
(* id, and each does this on its own: what one computes stands for what    *)
(* they all compute.  --size and --protocol are checked as valid or not.   *)
(***************************************************************************)
EXTENDS ClassCut, Visible

CONSTANTS
    Flags,        \* command lines
    ScreenCaps    \* <<50, 100, 500>> in defaultScreens

\* An entry of --screens; a range starts with a digit, so its start is not negative.
Entry == [form : {"ok", "blank", "bad"}, first : Nat, last : Int]

FlagTypes ==
    [valid : BOOLEAN, role : STRING, shardID : Nat, shardCount : ShardCounts,
     ticks : Specs, tiers : Specs, symbols : Totals, users : Int, algoUsers : Int,
     screens : Seq(Entry), visibleK : Nat]

ASSUME FlagsAssumption ==
    \A f \in Flags :
        /\ f \in FlagTypes
        /\ Lesser(f.algoUsers, f.users) > 0 => Lesser(f.algoUsers, f.users) \in Totals
ASSUME CapsAssumption ==
    ScreenCaps \in Seq(Nat) /\ Len(ScreenCaps) = 3
    /\ ScreenCaps[1] <= ScreenCaps[2] /\ ScreenCaps[2] <= ScreenCaps[3]

VARIABLES
    flags,          \* *algoUsers is clamped in place
    phase,          \* where main is: "flags", "screens", "ticks", "tiers",
                    \* "launch", "user", "running"; or "exit": os.Exit(1)
    tickClasses     \* cfg.TickClasses; the tiers are left in classes

startVars == <<vars, buildVars, flags, phase, tickClasses>>

-----------------------------------------------------------------------------
(* ParseScreens *)

\* defaultScreens.
DefaultScreens(n) ==
    LET cap(j) == Lesser(ScreenCaps[j], n)
        home == [start |-> 0, end |-> cap(1)]
        trending == [start |-> 0, end |-> cap(2)]
        midcap == [start |-> cap(2), end |-> cap(3)]
        kept == (IF cap(1) > 0 THEN <<home>> ELSE <<>>)
                \o (IF cap(2) > cap(1) THEN <<trending>> ELSE <<>>)
                \o (IF cap(3) > cap(2) THEN <<midcap>> ELSE <<>>)
    IN  IF kept = <<>> THEN <<[start |-> 0, end |-> n]>> ELSE kept

\* A list of entries [form, first, last], the last index inclusive, and what
\* ParseScreens makes of it: a range is cut off at the number of symbols, and
\* one with nothing left in it is dropped.
ScreensFail(entries) == \E j \in 1..Len(entries) : entries[j].form = "bad"

\* A bug in it: a range is not cut off, and is dropped only if it was empty.
ParseScreensUncut(entries, n) ==
    LET range(e) == [start |-> e.first, end |-> e.last + 1]
        kept == SelectSeq(entries, LAMBDA e : e.form = "ok" /\ e.first <= e.last)
    IN  IF kept = <<>> THEN DefaultScreens(n)
        ELSE [j \in 1..Len(kept) |-> range(kept[j])]

\* The range of an entry, cut off at the number of symbols, and those of the
\* entries that have something left.
RangeOf(e, n) == [start |-> e.first, end |-> Lesser(e.last + 1, n)]
Kept(entries, n) ==
    LET kept[j \in 0..Len(entries)] ==
            IF j = 0 THEN <<>>
            ELSE IF entries[j].form = "ok" /\ entries[j].first < RangeOf(entries[j], n).end
                 THEN Append(kept[j - 1], RangeOf(entries[j], n))
                 ELSE kept[j - 1]
    IN  kept[Len(entries)]

ParseScreens(entries, n) ==
    IF Kept(entries, n) = <<>> THEN DefaultScreens(n) ELSE Kept(entries, n)

-----------------------------------------------------------------------------
(* main *)

StartInit ==
    /\ flags \in Flags /\ phase = "flags" /\ tickClasses = <<>>
    /\ spec = flags.ticks /\ total = flags.symbols
    /\ pc = "loop" /\ i = 1 /\ cursor = 0 /\ classes = <<>>
    /\ cfg = [symbols |-> flags.symbols, visibleK |-> flags.visibleK,
              screens |-> <<>>, uid |-> 0]
    /\ step = "screen" /\ fromScreen = <<>> /\ zipfPicked = <<>>
    /\ rng = 0 /\ maxTries = 0 /\ visibleIdx = <<>> /\ notVisible = {}

\* A bug in it: more algo users than users are let through.
CheckFlagsUnclamped ==
    /\ phase = "flags"
    /\ phase' = IF flags.valid /\ flags.shardID < flags.shardCount
                THEN "screens" ELSE "exit"
    /\ UNCHANGED <<vars, buildVars, flags, tickClasses>>
CheckFlags ==
    /\ phase = "flags"
    /\ IF flags.valid /\ flags.shardID < flags.shardCount
       THEN /\ phase' = "screens"
            /\ flags' = [flags EXCEPT !.algoUsers = Lesser(@, flags.users)]
       ELSE phase' = "exit" /\ UNCHANGED flags
    /\ UNCHANGED <<vars, buildVars, tickClasses>>

GetScreens ==
    /\ phase = "screens"
    /\ IF ScreensFail(flags.screens)
       THEN phase' = "exit" /\ UNCHANGED cfg
       ELSE /\ phase' = "ticks"
            /\ cfg' = [cfg EXCEPT !.screens = ParseScreens(flags.screens, flags.symbols)]
    /\ UNCHANGED <<vars, step, fromScreen, zipfPicked, rng, maxTries, visibleIdx,
                   notVisible, flags, tickClasses>>

\* A step of ParseTickClasses or of ParseAlgoTiers.
CutStep ==
    /\ phase \in {"ticks", "tiers"}
    /\ Next
    /\ UNCHANGED <<buildVars, flags, phase, tickClasses>>

\* The tick classes are there: on to the algo tiers, if there are algo users.
TicksParsed ==
    /\ phase = "ticks" /\ pc = "done"
    /\ tickClasses' = classes
    /\ IF flags.algoUsers > 0
       THEN /\ phase' = "tiers"
            /\ spec' = flags.tiers /\ total' = flags.algoUsers
       ELSE phase' = "launch" /\ UNCHANGED <<spec, total>>
    /\ pc' = "loop" /\ i' = 1 /\ cursor' = 0 /\ classes' = <<>>
    /\ UNCHANGED <<buildVars, flags>>

TiersParsed ==
    /\ phase = "tiers" /\ pc = "done"
    /\ phase' = "launch"
    /\ UNCHANGED <<vars, buildVars, flags, tickClasses>>

ParseFails ==
    /\ phase \in {"ticks", "tiers"} /\ pc = "error"
    /\ phase' = "exit"
    /\ UNCHANGED <<vars, buildVars, flags, tickClasses>>

MyUsers == ShardIndices(flags.users, flags.shardID, flags.shardCount)

\* The shards of the role are started; a user shard that owns a user follows
\* it into buildVisible.
Launch ==
    /\ phase = "launch"
    /\ IF flags.role \in {"all", "users"} /\ MyUsers # {}
       THEN /\ phase' = "user"
            /\ \E uid \in MyUsers : cfg' = [cfg EXCEPT !.uid = uid]
       ELSE /\ phase' = IF flags.role \in {"all", "users", "market", "accounts"}
                        THEN "running" ELSE "exit"
            /\ UNCHANGED cfg
    /\ UNCHANGED <<vars, step, fromScreen, zipfPicked, rng, maxTries, visibleIdx,
                   notVisible, flags, tickClasses>>

UserStep ==
    /\ phase = "user"
    /\ BuildNext
    /\ phase' = IF step' = "built" THEN "running" ELSE "user"
    /\ UNCHANGED <<vars, flags, tickClasses>>

StartNext ==
    \/ CheckFlags \/ GetScreens \/ CutStep \/ TicksParsed \/ TiersParsed
    \/ ParseFails \/ Launch \/ UserStep

StartSpec == StartInit /\ [][StartNext]_startVars /\ WF_startVars(StartNext)

-----------------------------------------------------------------------------
(* Properties *)

HasEntry(list) == \E j \in 1..Len(list.parts) : list.parts[j].form = "ok"

\* The (class, shard) pairs of the whole system that publish an item.
Publishers(cut, item) ==
    {o \in (1..Len(cut)) \X (0..(flags.shardCount - 1)) :
        item \in Owned(cut[o[1]], o[2], flags.shardCount)}

\* What a user watches is published, and once: every symbol it subscribes to
\* has one publisher among all market shards; it has order and trade feeds if
\* and only if one account shard publishes them; and no account shard
\* publishes for a user that does not exist.  Three parts of the code that
\* never meet at run time have to agree on it: the tick classes, the clamp of
\* --algo-users with the tiers, and buildVisible with the uid < AlgoUsers of
\* userConn.run.
EveryFeedPublished ==
    phase = "running" =>
        /\ HasEntry(flags.ticks) => \A symbol \in Range(visibleIdx) :
                Cardinality(Publishers(tickClasses, symbol)) = 1
        /\ HasEntry(flags.tiers) => \A uid \in MyUsers :
                Cardinality(Publishers(classes, uid)) = IF uid < flags.algoUsers THEN 1 ELSE 0
        /\ \A tier \in 1..Len(classes) : ClassRange(classes[tier]) \subseteq 0..(flags.users - 1)

\* Every user finds a screen to start on, and a range that exists: the modulo
\* over the screens never divides by zero, and the slice made for a range
\* never has a negative capacity (Indices, partition.go).  Either would take
\* the whole process down, and with it all other users of the shard.
ScreensUsable ==
    phase \notin {"flags", "screens", "exit"} =>
        /\ cfg.screens # <<>>
        /\ \A s \in Range(cfg.screens) :
            /\ s.start <= s.end /\ s.end <= cfg.symbols
            /\ cfg.symbols > 0 => s.start < s.end

\* A process gets started or gives up, whatever it is told: in particular a
\* user is done sampling after a bounded number of draws also when every one
\* of them hits a symbol it has (an extreme alpha).
StartsOrExits == <>(phase \in {"running", "exit"})
=============================================================================
