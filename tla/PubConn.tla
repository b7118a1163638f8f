------------------------------ MODULE PubConn -------------------------------
(***************************************************************************)
(* The connection of a publisher (trading-sim/transport.go, binproto.go):  *)
(* binaryPub starts a goroutine with every connection, drainServer, that   *)
(* answers the broker's Pings while the loop of MarketPub publishes.       *)
(*                                                                         *)
(* The broker is external: it may send a frame at any time.  A drainServer *)
(* that finds nothing to read for 500 ms returns; when that is the case is *)
(* left open.  Close ends one that still runs.                             *)
(***************************************************************************)
EXTENDS MarketPub

CONSTANTS
    MaxFrames,   \* bound: frames of the broker under way on a connection
    MaxLeft      \* bound: goroutines of closed connections still running

ASSUME FramesAssumption == MaxFrames \in Nat /\ MaxLeft \in Nat

Kinds == {"ping", "other"}

VARIABLES
    drain,   \* drainServer of the connection: "top" is its loop test, "read" the
             \* read of a header, "pong" the answer; "none" without connection
    inbox,   \* frames that reached the connection and are not read
    left     \* drainServers of closed connections, per place

drainVars == <<drain, inbox, left>>
connVars == <<vars, drainVars>>

Places == {"top", "read", "pong"}

ConnInit == Init /\ drain = "none" /\ inbox = <<>> /\ left = [p \in Places |-> 0]

LoopAlone(A) == A /\ UNCHANGED drainVars
DrainAlone(A) == A /\ UNCHANGED vars

\* newBinaryPub: the connection and its goroutine.
Connect ==
    /\ Dial
    /\ drain' = "top" /\ UNCHANGED <<inbox, left>>

\* binaryPub.Close: drainDone is set and the connection closed under the feet
\* of a drainServer that still runs.
Disconnect ==
    /\ LoopOnly(CloseConn)
    /\ \A p \in Places : left[p] < MaxLeft
    /\ drain' = "none" /\ inbox' = <<>>
    /\ left' = IF drain \in Places THEN [left EXCEPT ![drain] = @ + 1] ELSE left

\* drainServer sets the deadline and reads.  Before Close drainDone is not set.
DrainTop == drain = "top" /\ drain' = "read" /\ UNCHANGED <<inbox, left>>

\* A whole frame is there; only a Ping is answered.
DrainRead ==
    /\ drain = "read" /\ inbox # <<>>
    /\ drain' = IF Head(inbox) = "ping" THEN "pong" ELSE "top"
    /\ inbox' = Tail(inbox) /\ UNCHANGED left

\* The deadline passes, or the connection is broken: any error ends it.
DrainError ==
    /\ drain = "read" /\ (inbox = <<>> \/ ~up)
    /\ drain' = "gone" /\ UNCHANGED <<inbox, left>>

\* The Pong is written; whether it fails is not looked at.
DrainPong == drain = "pong" /\ drain' = "top" /\ UNCHANGED <<inbox, left>>

\* After Close: the loop test sees drainDone, a read fails, so does a write.
\* A bug in it: Close sets drainDone only, and a read has no deadline.
LeftEndsAtTest(p) ==
    /\ p = "top" /\ left[p] > 0
    /\ left' = [left EXCEPT ![p] = @ - 1]
    /\ UNCHANGED <<drain, inbox>>
LeftEnds(p) ==
    /\ p \in {"top", "read"} /\ left[p] > 0
    /\ left' = [left EXCEPT ![p] = @ - 1]
    /\ UNCHANGED <<drain, inbox>>
LeftPong ==
    /\ left["pong"] > 0
    /\ left' = [left EXCEPT !["pong"] = @ - 1, !["top"] = @ + 1]
    /\ UNCHANGED <<drain, inbox>>

BrokerSends ==
    /\ up /\ drain # "none" /\ Len(inbox) < MaxFrames
    /\ \E k \in Kinds : inbox' = Append(inbox, k)
    /\ UNCHANGED <<drain, left>>

\* What the loop does without the broker, Close apart.
LoopMoves ==
    \/ LoopOnly(Outer) \/ LoopOnly(DialFail) \/ LoopOnly(Inner) \/ LoopOnly(Sleep)
    \/ TickFailed \/ Final

LeftStep == LeftPong \/ \E p \in Places : LeftEnds(p)

ConnNext ==
    \/ Connect \/ Disconnect
    \/ LoopAlone(LoopMoves \/ TickOK \/ LoopOnly(Break) \/ LoopOnly(SetStop))
    \/ DrainAlone(DrainTop \/ DrainRead \/ DrainError \/ DrainPong \/ LeftStep)
    \/ DrainAlone(BrokerSends)

ConnSpec == ConnInit /\ [][ConnNext]_connVars

\* The loop keeps running, but for Writes the broker holds up, and so do the
\* goroutines it left: their connections are closed.
FairConnSpec ==
    /\ ConnSpec
    /\ WF_connVars(LoopAlone(LoopMoves) \/ Disconnect)
    /\ WF_connVars(DrainAlone(LeftStep))

-----------------------------------------------------------------------------
(* Properties *)

\* Each connection starts a goroutine that nobody waits for; none is left over
\* when the loop has ended, however many connections there were
\* (transport.go:60, 74-77; binproto.go:74-95).
NoneLeft == pc = "done" ~> drain = "none" /\ \A p \in Places : left[p] = 0

\* binproto.go:72-73: drainServer responds "to Pings with Pong, until stop fires or
\* conn closes".  A Ping that has reached a connection that works and is not
\* closed finds somebody to read it.
PingsAreRead == up /\ drain = "gone" => \A k \in DOMAIN inbox : inbox[k] # "ping"
=============================================================================
