----------------------------- MODULE Coordinator -----------------------------
(* The coordinator (coordinator.py) over any number of transports, with the  *)
(* writes of the entities and the unloading of the entry running beside its  *)
(* poll.  A transport is only what base.py lets its callers see of it: it    *)
(* holds no link, a link without a session, or a session (`connected`); an   *)
(* operation on it begins and ends in steps of its own, in between others    *)
(* run.  TcpImplementsCoordinator and BleImplementsCoordinator show that     *)
(* tcp.py and ble.py keep to this.                                           *)
EXTENDS Naturals

CONSTANTS
    N,        \* how many transports the entry has
    Writers   \* entities that can call write()

ASSUME TransportsAssumption == N \in Nat \ {0}

Transports == 1..N

VARIABLES
    link,           \* what each transport holds: "none", "stale", "up"
    entry,          \* the entry: "setup", "loaded", "unloading", "unloaded"
    closing,        \* the transport that async_unload_entry disconnects, or 0
    at,             \* where the poll is
    turn, attempt,  \* the transport it tries, and which of the two attempts
    active, result, \* active_transport, or 0; what the last poll came to
    busy            \* the transport each write is under way on, or 0

progress == <<turn, attempt>>
outcome == <<active, result>>
vars == <<link, entry, closing, at, progress, outcome, busy>>

Init ==
    /\ link = [t \in Transports |-> "none"]
    /\ entry = "setup" /\ closing = 0
    /\ at = "idle" /\ turn = 1 /\ attempt = 1
    /\ active = 0 /\ result = "none"
    /\ busy = [w \in Writers |-> 0]

\* A definition that only PROJECT.json uses (SessionTooSoon, SameAttempt...) is a faulty
\* variant of the one that follows it.
Stale(t) == IF link[t] = "up" THEN "stale" ELSE link[t]
Drops(t) == link' = [link EXCEPT ![t] = Stale(t)]

-----------------------------------------------------------------------------
(* The poll.                                                                 *)

\* The first refresh belongs to the set-up; unloading ends the schedule.
PollStart ==
    /\ at = "idle"
    /\ entry = "loaded" \/ (entry = "setup" /\ result = "none")
    /\ at' = "check" /\ turn' = 1 /\ attempt' = 1 /\ result' = "none"
    /\ UNCHANGED <<link, entry, closing, active, busy>>

CheckConnected ==
    /\ at = "check"
    /\ at' = IF link[turn] = "up" THEN "read" ELSE "connect"
    /\ UNCHANGED <<link, entry, closing, progress, outcome, busy>>

SessionTooSoon == {"none", "stale", "up"}
Dialled == {"none", "stale"}

\* connect() hangs up what there was, and gets a link before it has a session.
Dial ==
    /\ at = "connect"
    /\ \E l \in Dialled : link' = [link EXCEPT ![turn] = l]
    /\ UNCHANGED <<entry, closing, at, progress, outcome, busy>>

\* A session needs the link still to be there: unloading may have closed it.
ConnectReturns ==
    /\ at = "connect" /\ at' = "read"
    /\ link' = [link EXCEPT ![turn] = IF @ = "stale" THEN "up" ELSE @]
    /\ UNCHANGED <<entry, closing, progress, outcome, busy>>

\* A failed connect() may have hung up itself.
ConnectFails ==
    /\ at = "connect" /\ at' = "hangup"
    /\ UNCHANGED link \/ link' = [link EXCEPT ![turn] = "none"]
    /\ UNCHANGED <<entry, closing, progress, outcome, busy>>

\* An exception that is no TransportError ends the poll where it is.
ConnectEscapes ==
    /\ at = "connect" /\ at' = "idle" /\ result' = "escaped"
    /\ UNCHANGED <<link, entry, closing, progress, active, busy>>

ReadReturns ==
    /\ at = "read" /\ at' = "idle"
    /\ active' = turn /\ result' = "ok"
    /\ entry' = IF entry = "setup" THEN "loaded" ELSE entry
    /\ UNCHANGED <<link, closing, progress, busy>>

ReadFails ==
    /\ at = "read" /\ at' = "hangup"
    /\ Drops(turn)
    /\ UNCHANGED <<entry, closing, progress, outcome, busy>>

HangingUp ==
    /\ at = "hangup" /\ Drops(turn)
    /\ UNCHANGED <<entry, closing, at, progress, outcome, busy>>

SameAttempt == attempt' = attempt
NextAttempt == attempt' = attempt + 1

OneTooMany == attempt = 3
LastAttempt == attempt = 2

KeepsLink == UNCHANGED link
LetsGo == link' = [link EXCEPT ![turn] = "none"]

\* disconnect() has returned: the next attempt, the next transport, or nobody left.
HungUp ==
    /\ at = "hangup" /\ LetsGo
    /\ \/ ~LastAttempt /\ at' = "check" /\ NextAttempt /\ UNCHANGED <<turn, outcome>>
       \/ LastAttempt /\ turn < N /\ at' = "check" /\ turn' = turn + 1 /\ attempt' = 1 /\ UNCHANGED outcome
       \/ LastAttempt /\ turn = N /\ at' = "idle" /\ active' = 0 /\ result' = "failed" /\ UNCHANGED progress
    /\ UNCHANGED <<entry, closing, busy>>

\* Home Assistant cancels a refresh still running once the entry is unloaded.
Cancelled ==
    /\ at # "idle" /\ entry = "unloaded"
    /\ at' = "idle" /\ result' = "cancelled"
    /\ UNCHANGED link \/ (at = "read" /\ Drops(turn))
    /\ UNCHANGED <<entry, closing, progress, active, busy>>

-----------------------------------------------------------------------------
(* Writes, and unloading.                                                    *)

\* The entity picks the active transport; one without a session raises at once.
WriteBegins(w) ==
    /\ busy[w] = 0 /\ entry = "loaded"
    /\ active # 0 /\ link[active] = "up"
    /\ busy' = [busy EXCEPT ![w] = active]
    /\ UNCHANGED <<link, entry, closing, at, progress, outcome>>

WriteReturns(w) ==
    /\ busy[w] # 0
    /\ busy' = [busy EXCEPT ![w] = 0]
    /\ UNCHANGED link \/ Drops(busy[w])
    /\ UNCHANGED <<entry, closing, at, progress, outcome>>

UnloadBegins ==
    /\ entry = "loaded"
    /\ IF active = 0
       THEN entry' = "unloaded" /\ UNCHANGED <<link, closing>>
       ELSE entry' = "unloading" /\ closing' = active /\ Drops(active)
    /\ UNCHANGED <<at, progress, outcome, busy>>

UnloadEnds ==
    /\ entry = "unloading"
    /\ entry' = "unloaded" /\ closing' = 0
    /\ link' = [link EXCEPT ![closing] = "none"]
    /\ UNCHANGED <<at, progress, outcome, busy>>

PollStep ==
    \/ CheckConnected \/ ConnectReturns \/ ConnectFails \/ ConnectEscapes
    \/ ReadReturns \/ ReadFails \/ HungUp

Next ==
    \/ PollStart \/ PollStep \/ Dial \/ HangingUp \/ Cancelled
    \/ UnloadBegins \/ UnloadEnds
    \/ \E w \in Writers : WriteBegins(w) \/ WriteReturns(w)

Spec == Init /\ [][Next]_vars

\* Every operation of a transport ends (TcpTransport: PollEnds, WriteEnds).
FairSpec == Spec /\ WF_vars(PollStep)

-----------------------------------------------------------------------------
(* Properties.                                                               *)

\* The state of the coordinator, its transports and the entry keeps its type.
TypeOK ==
    /\ link \in [Transports -> {"none", "stale", "up"}]
    /\ entry \in {"setup", "loaded", "unloading", "unloaded"}
    /\ closing \in 0..N
    /\ at \in {"idle", "check", "connect", "read", "hangup"}
    /\ turn \in Transports /\ attempt \in {1, 2}
    /\ active \in 0..N
    /\ result \in {"none", "ok", "failed", "escaped", "cancelled"}
    /\ busy \in [Writers -> 0..N]

\* A transport is only tried, and only becomes the active one, when those before
\* it have been hung up: no link of a failed transport lingers under a fallback,
\* whether the poll is under way, has succeeded, or was ended by an exception that
\* is no TransportError or by a cancellation.
FallbackInOrder ==
    /\ at # "idle" \/ result \in {"escaped", "cancelled"} =>
          \A t \in Transports : t < turn => link[t] = "none"
    /\ result = "ok" => \A t \in Transports : t < active => link[t] = "none"

\* UpdateFailed means what its message says: every transport failed, none holds
\* a link, and no entity writes to one that did.
UpdateFailedMeansDown ==
    result = "failed" => active = 0 /\ \A t \in Transports : link[t] = "none"

\* What a poll that an exception other than TransportError has ended leaves: the
\* coordinator hangs nothing up then and active_transport stays, but no transport
\* it has tried holds a session, so that a write on one raises at once and does
\* not go out on a connection that no handshake has finished.
EscapeLeavesNoSession ==
    result = "escaped" => \A t \in Transports : t <= turn => link[t] # "up"

\* A poll ends, whichever transports fail and whatever else runs.
PollEnds == at = "check" ~> at = "idle"
=============================================================================
