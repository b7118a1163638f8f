------------------------------- MODULE Visible -------------------------------
(***************************************************************************)
(* The symbols a user sees first: userConn.buildVisible (trading-sim/      *)
(* user.go) with ZipfSampler.Sample (trading-sim/partition.go).  Half of   *)
(* the slots are drawn from the user's screen, the rest from the other     *)
(* symbols by rejection sampling, with a limit on the tries and a          *)
(* sequential fill behind it.                                              *)
(*                                                                         *)
(* The weights are left out: a draw may give any index of the pool, as it  *)
(* may in the code whatever the exponent.  The pool is a set; it is        *)
(* scanned in ascending order, the order the code builds it in.            *)
(***************************************************************************)
EXTENDS Integers, Sequences, SequencesExt

CONSTANTS
    Configs,        \* what buildVisible reads
    TriesPerPick    \* the 30 of maxTries := k * 30

\* A range of symbol indices: End is exclusive.
Screen == [start : Nat, end : Nat]
Config == [symbols : Nat, visibleK : Nat, screens : Seq(Screen), uid : Nat]

\* What ParseScreens leaves to choose from (Startup shows that it does).
Usable(c) ==
    /\ c \in Config /\ c.screens # <<>>
    /\ \A j \in 1..Len(c.screens) :
        c.screens[j].start <= c.screens[j].end /\ c.screens[j].end <= c.symbols

ASSUME ConfigsAssumption == \A c \in Configs : Usable(c)
ASSUME TriesAssumption == TriesPerPick \in Nat

VARIABLES
    cfg,          \* the configuration and the user's uid
    step,         \* "screen", "sample", "assemble", or "built"
    fromScreen,   \* screenIdxs[:kScreen] after the shuffle
    zipfPicked,   \* Sample's result; emptied as it is copied into the slots
    rng,          \* the generator: all that is kept of it is that a draw moves it
    maxTries,
    visibleIdx, notVisible

buildVars == <<cfg, step, fromScreen, zipfPicked, rng, maxTries,
               visibleIdx, notVisible>>

BuildTypeOK ==
    /\ cfg \in Config
    /\ step \in {"screen", "sample", "assemble", "built"}
    /\ fromScreen \in Seq(Nat) /\ zipfPicked \in Seq(Nat)
    /\ rng \in {0, 1} /\ maxTries \in Nat
    /\ visibleIdx \in Seq(Nat)
    /\ notVisible \in SUBSET Nat

Lesser(a, b) == IF a < b THEN a ELSE b

AllSymbols == 0..(cfg.symbols - 1)
k == Lesser(cfg.visibleK, cfg.symbols)

\* cfg.Screens[u.uid%len(cfg.Screens)] and Screen.Indices.
screen == cfg.screens[(cfg.uid % Len(cfg.screens)) + 1]
Indices == screen.start..(Lesser(screen.end, cfg.symbols) - 1)

kScreen == Lesser(k \div 2, Cardinality(Indices))

\* What the other slots are drawn from.
\* A bug in it: the symbols already taken from the screen are still in it.
PoolOfAll == AllSymbols
Pool == AllSymbols \ Range(fromScreen)
kZipf == k - kScreen
Unpicked == Pool \ Range(zipfPicked)

BuildInit ==
    /\ cfg \in Configs
    /\ step = "screen"
    /\ fromScreen = <<>> /\ zipfPicked = <<>> /\ rng = 0 /\ maxTries = 0
    /\ visibleIdx = <<>> /\ notVisible = {}

\* The shuffle, of which kScreen entries are used, and the head of Sample.  A
\* pool that is wanted whole is copied in order, which is the fill with no
\* tries before it.
PickScreen ==
    /\ step = "screen"
    /\ \E first \in [1..kScreen -> Indices] :
        /\ IsInjective(first)
        /\ fromScreen' = first
    /\ step' = "sample"
    /\ maxTries' = IF kZipf >= cfg.symbols - kScreen THEN 0 ELSE kZipf * TriesPerPick
    /\ UNCHANGED <<cfg, zipfPicked, rng, visibleIdx, notVisible>>

\* One turn of the rejection loop.
\* A bug in it: only an accepted draw counts as a try.
DrawCountingHits ==
    /\ step = "sample" /\ Len(zipfPicked) < kZipf /\ maxTries > 0
    /\ \E idx \in Pool :
        IF idx \in Range(zipfPicked)
        THEN UNCHANGED <<zipfPicked, maxTries>>
        ELSE /\ zipfPicked' = Append(zipfPicked, idx)
             /\ maxTries' = maxTries - 1
    /\ rng' = 1 - rng
    /\ UNCHANGED <<cfg, step, fromScreen, visibleIdx, notVisible>>
Draw ==
    /\ step = "sample" /\ Len(zipfPicked) < kZipf /\ maxTries > 0
    /\ \E idx \in Pool :
        zipfPicked' = IF idx \in Range(zipfPicked) THEN zipfPicked
                      ELSE Append(zipfPicked, idx)
    /\ maxTries' = maxTries - 1 /\ rng' = 1 - rng
    /\ UNCHANGED <<cfg, step, fromScreen, visibleIdx, notVisible>>

\* One turn of the fill: the next index of the pool that is not picked yet.
Fill ==
    /\ step = "sample" /\ Len(zipfPicked) < kZipf /\ maxTries = 0
    /\ \E idx \in Unpicked :
        /\ \A other \in Unpicked : idx <= other
        /\ zipfPicked' = Append(zipfPicked, idx)
    /\ UNCHANGED <<cfg, step, fromScreen, rng, maxTries, visibleIdx, notVisible>>

\* Sample returns, and the screen's symbols get the first slots.
Sampled ==
    /\ step = "sample"
    /\ Len(zipfPicked) >= kZipf \/ (maxTries = 0 /\ Unpicked = {})
    /\ step' = "assemble"
    /\ visibleIdx' = fromScreen
    /\ UNCHANGED <<cfg, fromScreen, zipfPicked, rng, maxTries, notVisible>>

\* The loop over zipfPicked: what has a slot already gets no second one.
Assemble ==
    /\ step = "assemble" /\ zipfPicked # <<>>
    /\ LET idx == Head(zipfPicked)
       IN  visibleIdx' = IF idx \in Range(visibleIdx) THEN visibleIdx
                         ELSE Append(visibleIdx, idx)
    /\ zipfPicked' = Tail(zipfPicked)
    /\ UNCHANGED <<cfg, step, fromScreen, rng, maxTries, notVisible>>

Built ==
    /\ step = "assemble" /\ zipfPicked = <<>>
    /\ step' = "built"
    /\ notVisible' = AllSymbols \ Range(visibleIdx)
    /\ UNCHANGED <<cfg, fromScreen, zipfPicked, rng, maxTries, visibleIdx>>

BuildNext == PickScreen \/ Draw \/ Fill \/ Sampled \/ Assemble \/ Built

BuildSpec == BuildInit /\ [][BuildNext]_buildVars

-----------------------------------------------------------------------------
(* Properties *)

\* Where every user starts, and what scrolling relies on (UserConn's Init):
\* all slots hold different symbols, as many as were asked for or exist, and
\* the pool that scrolling draws from is exactly the rest.  A pool that still
\* holds a visible symbol would give it two slots, and two subscriptions to
\* one subject; one that misses a symbol hides it for good.
SlotsAndRest ==
    step = "built" =>
        /\ visibleIdx \in [1..k -> AllSymbols]
        /\ IsInjective(visibleIdx)
        /\ notVisible = AllSymbols \ Range(visibleIdx)

\* "Half the visible slots come from the user's assigned screen"
\* (user.go:268), or the whole screen when it is smaller: the sampling never
\* eats into that half.
HalfFromScreen ==
    step = "built" =>
        Cardinality({s \in 1..Len(visibleIdx) : visibleIdx[s] \in screen.start..(screen.end - 1)})
            >= Lesser(k \div 2, screen.end - screen.start)
=============================================================================
