---------------------- MODULE BleImplementsCoordinator ----------------------
(* BleTransport does what Coordinator promises of an entry with one          *)
(* transport.  The mapping forgets the indications and the device, and keeps *)
(* where the poll, the writes and the unloading stand.                       *)
EXTENDS BleTransport

Link == IF Connected THEN "up" ELSE IF client # None THEN "stale" ELSE "none"

EntryState == CASE pc[Unload] = "setup" -> "setup"
                [] pc[Unload] = "idle" -> "loaded"
                [] pc[Unload] = "hangU" -> "unloading"
                [] pc[Unload] = "done" -> "unloaded"

PollAt == CASE pc[Poll] = "idle" -> "idle"
            [] pc[Poll] = "begin" -> "check"
            [] pc[Poll] \in {"hangC", "hangF"} \cup Connecting \cup Handshake -> "connect"
            [] pc[Poll] \in {"read", "ask", "collect"} -> "read"
            [] pc[Poll] \in {"failed", "hangE"} -> "hangup"

\* The entry's one transport has the number 1, and 0 stands for none.
Index(b) == IF b THEN 1 ELSE 0
ClosingOne == Index(pc[Unload] = "hangU")
ActiveOne == Index(active)
WritesTo == [w \in Writers |-> Index(pc[w] = "write")]

C == INSTANCE Coordinator WITH
    N <- 1,
    link <- <<Link>>,
    entry <- EntryState,
    closing <- ClosingOne,
    at <- PollAt,
    turn <- 1,
    active <- ActiveOne,
    result <- result,
    busy <- WritesTo

\* Every step of a task, of bleak and of the device is a step of the coordinator
\* and its one transport, or invisible to them.
ImplementsCoordinator == C!Spec
=============================================================================
