------------------------------ MODULE PubLoop -------------------------------
(***************************************************************************)
(* The connection loop that MarketShard.runClass (trading-sim/market.go)   *)
(* and AccountShard.runTier (trading-sim/account.go) share: dial, publish  *)
(* one message per tick until stop or a failed Publish, close, wait, dial  *)
(* again.  MarketPub and AccountPub add what a tick does.                  *)
(*                                                                         *)
(* stop is an atomic flag set by main, read only where the code reads it.  *)
(* A connection breaks without the loop's knowledge: a Publish on a broken *)
(* one may still succeed (the bytes went to the socket buffer).  A         *)
(* connection that works and that the broker does not read holds up the    *)
(* Write of a Publish for as long as it likes: no write deadline is set    *)
(* (transport.go:71).  Tick rates are left out: a tick comes some time     *)
(* after the loop waits for it.                                            *)
(***************************************************************************)
EXTENDS Integers

VARIABLES
    pc,     \* where the goroutine is: "outer" and "inner" are the two loop
            \* tests, "wait" is the select on the ticker and the Publish
            \* that follows, whose number nobody else sees before it returns
    up,     \* the connection works
    stop

loopVars == <<pc, up, stop>>

LoopTypeOK ==
    /\ pc \in {"outer", "dial", "inner", "wait", "close", "sleep", "final", "done"}
    /\ up \in BOOLEAN /\ stop \in BOOLEAN

LoopInit == pc = "outer" /\ up = FALSE /\ stop = FALSE

Outer ==
    /\ pc = "outer"
    /\ pc' = IF stop THEN "final" ELSE "dial"
    /\ UNCHANGED <<up, stop>>

\* dialPublisher returns a connection, stopped or not.
DialOK ==
    /\ pc = "dial"
    /\ pc' = "inner" /\ up' = TRUE
    /\ UNCHANGED stop

\* A dial fails: dialPublisher gives up if stop is set by now.  If not, it
\* sleeps and dials again, which changes nothing.
\* A bug in it: it dials again in any case.
DialFailRetries == pc = "dial" /\ stop /\ UNCHANGED loopVars
DialFail ==
    /\ pc = "dial" /\ stop
    /\ pc' = "final"
    /\ UNCHANGED <<up, stop>>

\* The test of the inner loop.
\* A bug in it: stop is only looked at between connections.
InnerIgnoresStop ==
    /\ pc = "inner"
    /\ pc' = "wait"
    /\ UNCHANGED <<up, stop>>
Inner ==
    /\ pc = "inner"
    /\ pc' = IF stop THEN "close" ELSE "wait"
    /\ UNCHANGED <<up, stop>>

\* Flush and Close, then the second look at stop.
CloseConn ==
    /\ pc = "close"
    /\ up' = FALSE
    /\ pc' = IF stop THEN "outer" ELSE "sleep"
    /\ UNCHANGED stop

Sleep ==
    /\ pc = "sleep"
    /\ pc' = "outer"
    /\ UNCHANGED <<up, stop>>

LoopStep == Outer \/ DialOK \/ DialFail \/ Inner \/ CloseConn \/ Sleep

Break == up /\ up' = FALSE /\ UNCHANGED <<pc, stop>>

\* The goroutine is in a Write that the broker, by not reading, keeps it in.
HeldUp == pc = "wait" /\ up

SetStop == ~stop /\ stop' = TRUE /\ UNCHANGED <<pc, up>>
=============================================================================
