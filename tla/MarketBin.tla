----------------------------- MODULE MarketBin ------------------------------
(***************************************************************************)
(* The stand-alone tools for the binary protocol: market-sim-bin publishes *)
(* over several connections, one goroutine each, and market-sub-bin reads  *)
(* over several, with a second goroutine per connection that watches stop. *)
(* They are two processes with a broker between them; each has a stop of   *)
(* its own and prints one count at the end.  The module is about what the  *)
(* two counts are worth.                                                   *)
(*                                                                         *)
(* A message is its symbol; payloads, latencies, tick rates and Ping are   *)
(* left out.  The broker (external) passes a message on to every           *)
(* connection that is subscribed to its symbol, or loses it.  It need not  *)
(* read: neither the publisher's Write nor that of a Sub frame has a       *)
(* deadline (the subscriber sets one at stop, on connections it reads).    *)
(***************************************************************************)
EXTENDS Integers, FiniteSets, Tally

CONSTANTS
    NumSymbols,   \* --symbols of both tools
    ConnFlags,    \* the values of --conns to look at
    PerTick,      \* msgsPerTick: frames written at once
    PubBatch,     \* 1024: messages counted locally before published is updated
    SubBatch,     \* 512: the same for received
    MaxWritten    \* bound: messages written, over all connections

ASSUME SymbolsAssumption == NumSymbols \in Nat \ {0}
ASSUME FlagsAssumption == ConnFlags \subseteq Int
ASSUME BatchAssumption ==
    PerTick \in Nat \ {0} /\ PubBatch \in Nat \ {0} /\ SubBatch \in Nat \ {0}

Syms == 0..(NumSymbols - 1)

\* main clamps --conns to at least one, and to one symbol per connection.
NumConns(flag) ==
    LET atLeastOne == IF flag < 1 THEN 1 ELSE flag
    IN  IF atLeastOne > NumSymbols THEN NumSymbols ELSE atLeastOne

\* Symbols are striped over the connections.
\* A bug in it: each connection gets its stripe and all that follow.
PartitionFrom(c, conns) == {i \in Syms : i % conns >= c}
Partition(c, conns) == {i \in Syms : i % conns = c}

VARIABLES
    pubFlag, subFlag,     \* --conns of the two tools; they never change
    pubStop, subStop,     \* the stop flag of each process
    ppc, pubLocal,        \* per publisher: its place ("wait" is the wait for a tick
                          \* and the Write), localCount
    published, failed,    \* the shared counter; publishers whose Write failed
    spc, subUp, subLocal, \* the same per subscriber ("subscribe": it writes its Sub
                          \* frames; "await": it waits for its watcher)
    stopCh,               \* per subscriber: its watcher has closed stopCh
    inFlight,             \* per subscriber: messages on their way to it
    received,
    latCh,                \* results sent on latCh
    pubReport, subReport, \* what the two processes print, -1 before
    wrote, handled \* ghosts: messages written, messages read

pubVars == <<pubStop, ppc, pubLocal, published, failed, wrote, pubReport>>
subVars == <<subStop, spc, subUp, subLocal, stopCh, received, latCh, handled, subReport>>
flags == <<pubFlag, subFlag>>
vars == <<flags, pubVars, subVars, inFlight>>

Pubs == 0..(NumConns(pubFlag) - 1)
Subs == 0..(NumConns(subFlag) - 1)

TypeOK ==
    /\ pubFlag \in ConnFlags /\ subFlag \in ConnFlags
    /\ pubStop \in BOOLEAN /\ subStop \in BOOLEAN
    /\ ppc \in [Pubs -> {"dial", "test", "wait", "final", "done"}]
    /\ pubLocal \in [Pubs -> 0..(PubBatch - 1)]
    /\ published \in Nat /\ failed \in SUBSET Pubs
    /\ spc \in [Subs -> {"dial", "subscribe", "read", "await", "done"}]
    /\ subUp \in [Subs -> BOOLEAN] /\ subLocal \in [Subs -> 0..(SubBatch - 1)]
    /\ stopCh \in [Subs -> BOOLEAN] /\ inFlight \in [Subs -> Nat]
    /\ received \in Nat /\ latCh \in 0..Cardinality(Subs)
    /\ pubReport \in Nat \cup {-1} /\ subReport \in Nat \cup {-1}
    /\ wrote \in Nat /\ handled \in Nat

Init ==
    /\ pubFlag \in ConnFlags /\ subFlag \in ConnFlags
    /\ pubStop = FALSE /\ subStop = FALSE
    /\ ppc = [c \in Pubs |-> "dial"]
    /\ pubLocal = [c \in Pubs |-> 0] /\ published = 0 /\ failed = {}
    /\ spc = [c \in Subs |-> "dial"] /\ subUp = [c \in Subs |-> FALSE]
    /\ subLocal = [c \in Subs |-> 0] /\ stopCh = [c \in Subs |-> FALSE]
    /\ inFlight = [c \in Subs |-> 0] /\ received = 0 /\ latCh = 0
    /\ pubReport = -1 /\ subReport = -1
    /\ wrote = 0 /\ handled = 0

-----------------------------------------------------------------------------
(* market-sim-bin: runPublisher *)

PubAt(c, from, to) == ppc[c] = from /\ ppc' = [ppc EXCEPT ![c] = to]

\* One attempt to connect; without a connection the goroutine returns.
PubDial(c) ==
    /\ PubAt(c, "dial", "test") \/ PubAt(c, "dial", "done")
    /\ UNCHANGED <<pubStop, pubLocal, published, failed, wrote, pubReport>>
    /\ UNCHANGED <<flags, subVars, inFlight>>

\* The loop test.
PubTest(c) ==
    /\ PubAt(c, "test", IF pubStop THEN "final" ELSE "wait")
    /\ UNCHANGED <<pubStop, pubLocal, published, failed, wrote, pubReport>>
    /\ UNCHANGED <<flags, subVars, inFlight>>

\* n messages of the symbols in f go to those who are subscribed to them; each
\* connection may lose some of its own, for want of a Sub frame too.
Subscribed(t) == spc[t] \in {"subscribe", "read", "await"} /\ subUp[t]
FanOut(f) ==
    \E lose \in SUBSET (DOMAIN f) :
        inFlight' = [t \in Subs |->
            inFlight[t] + IF Subscribed(t)
                          THEN Cardinality({k \in DOMAIN f \ lose :
                                              f[k] \in Partition(t, NumConns(subFlag))})
                          ELSE 0]

\* A tick comes: PerTick messages of the partition's symbols are encoded and
\* counted, full batches moved to published, before the buffer is written.
\* Behind stop, each connection may have one more tick, over the bound.
Encode(c, f) ==
    /\ ppc[c] = "wait" /\ (wrote < MaxWritten \/ pubStop)
    /\ f \in [1..PerTick -> Partition(c, NumConns(pubFlag))]
    /\ published' = published + PubBatch * ((pubLocal[c] + PerTick) \div PubBatch)

\* What Encode leaves in localCount.
\* Bugs in it: it is looked at once per tick and then set back to zero; it is
\* not set back at all.
RestAlwaysZero(c) == IF pubLocal[c] + PerTick >= PubBatch THEN 0 ELSE pubLocal[c] + PerTick
RestKept(c) == pubLocal[c] + PerTick
Rest(c) == (pubLocal[c] + PerTick) % PubBatch

WriteOK(c) ==
    /\ \E f \in [1..PerTick -> Partition(c, NumConns(pubFlag))] : Encode(c, f) /\ FanOut(f)
    /\ pubLocal' = [pubLocal EXCEPT ![c] = Rest(c)]
    /\ wrote' = wrote + PerTick
    /\ ppc' = [ppc EXCEPT ![c] = "test"]
    /\ UNCHANGED <<pubStop, failed, pubReport>>
    /\ UNCHANGED <<flags, subVars>>

\* The connection has broken: Write fails, after having written some of the
\* frames.  The goroutine returns and localCount is lost with it.
WriteFailed(c) ==
    /\ ppc' = [ppc EXCEPT ![c] = "done"]
    /\ \E n \in 0..(PerTick - 1) :
        /\ wrote' = wrote + n
        /\ \E f \in [1..PerTick -> Partition(c, NumConns(pubFlag))] :
            Encode(c, f) /\ FanOut([k \in 1..n |-> f[k]])
    /\ pubLocal' = [pubLocal EXCEPT ![c] = 0]
    /\ failed' = failed \cup {c}
    /\ UNCHANGED <<pubStop, pubReport>>
    /\ UNCHANGED <<flags, subVars>>

\* After the loop.
PubFinal(c) ==
    /\ PubAt(c, "final", "done")
    /\ published' = published + pubLocal[c]
    /\ pubLocal' = [pubLocal EXCEPT ![c] = 0]
    /\ UNCHANGED <<pubStop, failed, wrote, pubReport>>
    /\ UNCHANGED <<flags, subVars, inFlight>>

\* main: stop, wg.Wait, and the count.
PubSetStop ==
    /\ ~pubStop /\ pubStop' = TRUE
    /\ UNCHANGED <<ppc, pubLocal, published, failed, wrote, pubReport>>
    /\ UNCHANGED <<flags, subVars, inFlight>>

PubReport ==
    /\ pubStop /\ pubReport = -1 /\ \A c \in Pubs : ppc[c] = "done"
    /\ pubReport' = published
    /\ UNCHANGED <<pubStop, ppc, pubLocal, published, failed, wrote>>
    /\ UNCHANGED <<flags, subVars, inFlight>>

PubStep(c) == PubDial(c) \/ PubTest(c) \/ WriteOK(c) \/ WriteFailed(c) \/ PubFinal(c)

-----------------------------------------------------------------------------
(* market-sub-bin: runSubscriber and its watcher *)

SubAt(t, from, to) == spc[t] = from /\ spc' = [spc EXCEPT ![t] = to]

\* One attempt to connect; when it fails the goroutine sends its empty result and
\* returns.
SubDial(t) ==
    /\ \/ /\ SubAt(t, "dial", "subscribe")
          /\ subUp' = [subUp EXCEPT ![t] = TRUE]
          /\ UNCHANGED latCh
       \/ SubAt(t, "dial", "done") /\ latCh' = latCh + 1 /\ UNCHANGED subUp
    /\ UNCHANGED <<subStop, subLocal, stopCh, received, handled, subReport>>
    /\ UNCHANGED <<flags, pubVars, inFlight>>

\* The Sub frames of the partition are written; on a broken connection one may
\* fail, and then the goroutine ends like one that could not connect.
SubFrames(t) ==
    /\ \/ SubAt(t, "subscribe", "read") /\ UNCHANGED latCh
       \/ SubAt(t, "subscribe", "done") /\ ~subUp[t] /\ latCh' = latCh + 1
    /\ UNCHANGED <<subUp, subStop, subLocal, stopCh, received, handled, subReport>>
    /\ UNCHANGED <<flags, pubVars, inFlight>>

\* A message is read.
ReadMsg(t) ==
    /\ spc[t] = "read" /\ inFlight[t] > 0
    /\ inFlight' = [inFlight EXCEPT ![t] = @ - 1]
    /\ handled' = handled + 1
    /\ IF subLocal[t] + 1 = SubBatch
       THEN received' = received + SubBatch /\ subLocal' = [subLocal EXCEPT ![t] = 0]
       ELSE subLocal' = [subLocal EXCEPT ![t] = @ + 1] /\ UNCHANGED received
    /\ UNCHANGED <<subStop, spc, subUp, stopCh, latCh, subReport>>
    /\ UNCHANGED <<flags, pubVars>>

\* A read fails: the connection is gone, or the deadline set by the watcher has
\* passed, which also ends a connection that still has messages.
ReadFailed(t) ==
    /\ SubAt(t, "read", "await")
    /\ (~subUp[t] /\ inFlight[t] = 0) \/ stopCh[t]
    /\ UNCHANGED <<subStop, subUp, subLocal, stopCh, received, latCh, handled, subReport>>
    /\ UNCHANGED <<flags, pubVars, inFlight>>

\* The watcher has seen stop: it sets the deadline and closes stopCh.  There is
\* one per goroutine that got as far as reading.
\* A bug in it: a watcher gives up when the reader has already failed.
WatchOnlyReading(t) ==
    /\ subStop /\ spc[t] = "read" /\ ~stopCh[t]
    /\ stopCh' = [stopCh EXCEPT ![t] = TRUE]
    /\ UNCHANGED <<subStop, spc, subUp, subLocal, received, latCh, handled, subReport>>
    /\ UNCHANGED <<flags, pubVars, inFlight>>
Watch(t) ==
    /\ subStop /\ spc[t] \in {"read", "await"} /\ ~stopCh[t]
    /\ stopCh' = [stopCh EXCEPT ![t] = TRUE]
    /\ UNCHANGED <<subStop, spc, subUp, subLocal, received, latCh, handled, subReport>>
    /\ UNCHANGED <<flags, pubVars, inFlight>>

\* stopCh is closed: the rest is added, the latencies are sent, and the
\* connection is closed.
\* A bug in it: the rest is added only if the reader was still connected.
SubFinalIfUp(t) ==
    /\ SubAt(t, "await", "done") /\ stopCh[t]
    /\ received' = received + (IF subUp[t] THEN subLocal[t] ELSE 0)
    /\ subLocal' = [subLocal EXCEPT ![t] = 0]
    /\ latCh' = latCh + 1
    /\ subUp' = [subUp EXCEPT ![t] = FALSE]
    /\ UNCHANGED <<subStop, stopCh, handled, subReport>>
    /\ UNCHANGED <<flags, pubVars, inFlight>>
SubFinal(t) ==
    /\ SubAt(t, "await", "done") /\ stopCh[t]
    /\ received' = received + subLocal[t]
    /\ subLocal' = [subLocal EXCEPT ![t] = 0]
    /\ latCh' = latCh + 1
    /\ subUp' = [subUp EXCEPT ![t] = FALSE]
    /\ UNCHANGED <<subStop, stopCh, handled, subReport>>
    /\ UNCHANGED <<flags, pubVars, inFlight>>

SubBreak(t) ==
    /\ subUp[t] /\ subUp' = [subUp EXCEPT ![t] = FALSE]
    /\ \E n \in 0..inFlight[t] : inFlight' = [inFlight EXCEPT ![t] = n]
    /\ UNCHANGED <<subStop, spc, subLocal, stopCh, received, latCh, handled, subReport>>
    /\ UNCHANGED <<flags, pubVars>>

\* main: stop, then wg.Wait and one result per connection, then the count.
SubSetStop ==
    /\ ~subStop /\ subStop' = TRUE
    /\ UNCHANGED <<spc, subUp, subLocal, stopCh, received, latCh, handled, subReport>>
    /\ UNCHANGED <<flags, pubVars, inFlight>>

SubReport ==
    /\ subStop /\ subReport = -1
    /\ \A t \in Subs : spc[t] = "done"
    /\ latCh = Cardinality(Subs)
    /\ subReport' = received
    /\ UNCHANGED <<subStop, spc, subUp, subLocal, stopCh, received, latCh, handled>>
    /\ UNCHANGED <<flags, pubVars, inFlight>>

SubStep(t) == SubDial(t) \/ SubFrames(t) \/ ReadMsg(t) \/ ReadFailed(t) \/ SubFinal(t)

Next ==
    \/ \E c \in Pubs : PubStep(c)
    \/ \E t \in Subs : SubStep(t) \/ Watch(t) \/ SubBreak(t)
    \/ PubSetStop \/ PubReport \/ SubSetStop \/ SubReport

Spec == Init /\ [][Next]_vars

\* What each process does without the broker: dials return, deadlines pass, and a
\* Write on a connection that has ended returns.
PubOwnStep == PubReport \/ \E c \in Pubs : PubDial(c) \/ PubTest(c) \/ PubFinal(c)
SubOwnStep ==
    \/ SubReport
    \/ \E t \in Subs :
        \/ SubDial(t) \/ ReadFailed(t) \/ Watch(t) \/ SubFinal(t)
        \/ ~subUp[t] /\ SubFrames(t)

\* Some goroutine of each process keeps running.
Fairness == WF_vars(PubOwnStep) /\ WF_vars(SubOwnStep)

FairSpec == Spec /\ Fairness

-----------------------------------------------------------------------------
(* Properties *)

\* The printed "published" is exactly what was written as long as no Write
\* failed; each publisher whose Write failed puts it off by less than a batch
\* downwards and by at most a tick's frames upwards (market-sim-bin/main.go:149-162).
PublishedWithin ==
    pubReport # -1 =>
        /\ wrote - pubReport <= (PubBatch - 1) * Cardinality(failed)
        /\ pubReport - wrote <= PerTick * Cardinality(failed)

\* The printed "received" counts every message that was read, on connections
\* that broke long before stop too (market-sub-bin/main.go:150-153).
ReceivedExact == subReport # -1 => subReport = handled

\* No message is received twice over all connections of the subscriber: their
\* partitions do not overlap, whatever --conns the two tools have
\* (market-sub-bin/main.go:190-194).
ReceivedOnce == handled + Tally(inFlight) <= wrote

\* A goroutine is in a Write without deadline.
PubHeldUp == \E c \in Pubs : ppc[c] = "wait"
SubHeldUp == \E t \in Subs : spc[t] = "subscribe" /\ subUp[t]

\* Each tool prints its count after its stop, with broken or refused connections
\* too, and without a message: all that wg.Wait can wait for in vain is a
\* publisher's Write, or a Sub frame's, that the broker never reads
\* (market-sim-bin/main.go:160, 232; market-sub-bin/main.go:88-95, 235).
BothEnd ==
    /\ []<>~PubHeldUp => (pubStop ~> pubReport # -1)
    /\ []<>~SubHeldUp => (subStop ~> subReport # -1)
=============================================================================
