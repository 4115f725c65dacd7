---------------------- MODULE TcpImplementsCoordinator ----------------------
(* TcpTransport does what Coordinator promises of an entry with one          *)
(* transport.  The mapping forgets the loop's queue, the lock and the        *)
(* network, and keeps where the poll, the writes and the unloading stand.    *)
EXTENDS TcpTransport

Link == IF Connected THEN "up" ELSE IF conn # None THEN "stale" ELSE "none"

EntryState == CASE pc[Unload] = "setup" -> "setup"
                [] pc[Unload] \in {"idle", "begin"} -> "loaded"
                [] pc[Unload] = "closeU" -> "unloading"
                [] pc[Unload] = "done" -> "unloaded"

PollAt == CASE pc[Poll] = "idle" -> "idle"
            [] pc[Poll] = "begin" -> "check"
            [] pc[Poll] \in {"closeC", "opening", "iv", "login"} -> "connect"
            [] pc[Poll] \in Reading \cup {"acquire", "locked"} -> "read"
            [] pc[Poll] \in {"failed", "closeE"} -> "hangup"

\* The entry's one transport has the number 1, and 0 stands for none.
Index(b) == IF b THEN 1 ELSE 0
ClosingOne == Index(pc[Unload] = "closeU")
ActiveOne == Index(active)
Outcome == IF result = "empty" THEN "ok" ELSE result
WritesTo == [w \in Writers |-> Index(pc[w] \in {"locked", "ack"})]

C == INSTANCE Coordinator WITH
    N <- 1,
    link <- <<Link>>,
    entry <- EntryState,
    closing <- ClosingOne,
    at <- PollAt,
    turn <- 1,
    active <- ActiveOne,
    result <- Outcome,
    busy <- WritesTo

\* Every step of the loop, of Home Assistant and of the network is one of the
\* coordinator's or invisible to it.
StepsImplementCoordinator == C!Spec

\* Every step of the loop, of Home Assistant and of the network is a step of the
\* coordinator and its one transport, or invisible to them; and under the
\* loop's fairness every operation of the transport that has begun ends.
ImplementsCoordinator == C!FairSpec
=============================================================================
