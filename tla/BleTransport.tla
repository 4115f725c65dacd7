---------------------------- MODULE BleTransport ----------------------------
(* The BLE transport (transport/ble.py) under the coordinator's poll, the     *)
(* writes of the entities and the unloading of the entry.  It has no lock:    *)
(* every await is a place where another task may run.  `running` is the task  *)
(* that goes on without awaiting, None when the event loop is free: only then *)
(* do other tasks, bleak's callbacks and the device get their turn.           *)
EXTENDS Naturals, FiniteSets

CONSTANTS
    Poll, Unload,  \* the coordinator's refresh and async_unload_entry
    Writers,       \* entities that can call write()
    Clients,       \* names of BleakClient objects, reused once forgotten
    None,          \* Python's None
    MaxQueue,      \* bound: indications waiting to be collected
    MaxOrphans     \* bound: clients that are let go with their link up

Tasks == {Poll, Unload} \cup Writers

ASSUME BleConstantsAssumption ==
    /\ Poll # Unload /\ Poll \notin Writers /\ Unload \notin Writers
    /\ None \notin Clients \cup Tasks
    /\ MaxQueue \in Nat \ {0} /\ MaxOrphans \in Nat

VARIABLES
    client,         \* _client
    encrypted, iv,  \* _encrypted; _iv, as the client whose random string gave it
    queue,          \* _notify_queue: the indications not collected yet
    running,        \* the task that goes on without awaiting, or None
    pc, on,         \* where each task is, and the client whose operation it awaits
    acc, random,    \* the poll's locals: what it has collected, the random string's client
    attempt,        \* the coordinator's attempt
    result, active, \* what the last poll came to; is this the active_transport?
    radio,          \* each client's link: "off", "linked", "notifying"
    owed,           \* answers the device may indicate on a link, once or more
    orphans         \* history: clients whose hang-up raised and left the link up

session == <<client, encrypted, iv>>
locals == <<acc, random, attempt>>
outcome == <<result, active>>
device == <<radio, owed, orphans>>
vars == <<session, queue, running, pc, on, locals, outcome, device>>

HangingUp  == {"hangC", "hangF", "hangE", "hangU"}
Connecting == {"dial", "pair", "subscribe"}
Collecting == {"iv", "login", "collect"}
Sending    == {"askIv", "askLogin", "ask", "write"}
Awaiting   == HangingUp \cup Connecting \cup Collecting \cup Sending
Handshake  == {"askIv", "iv", "askLogin", "login"}

Init ==
    /\ client = None /\ encrypted = FALSE /\ iv = None
    /\ queue = {} /\ running = None
    /\ pc = [t \in Tasks |-> IF t = Unload THEN "setup" ELSE "idle"]
    /\ on = [t \in Tasks |-> None]
    /\ acc = {} /\ random = None /\ attempt = 1
    /\ result = "none" /\ active = FALSE
    /\ radio = [c \in Clients |-> "off"] /\ owed = {} /\ orphans = {}

-----------------------------------------------------------------------------
(* Building blocks.  A definition that only PROJECT.json uses (KeepSession,  *)
(* NoKey...) is a faulty variant of the one that follows it.               *)

Connected == encrypted /\ client # None

Runs(t, p) == pc[t] = p /\ running \in {None, t}

\* t goes on to p at once, awaits an operation of c there, or is over.
GoTo(t, p, c) == pc' = [pc EXCEPT ![t] = p] /\ on' = [on EXCEPT ![t] = c]
Continue(t, p) == GoTo(t, p, None) /\ running' = t
Await(t, p, c) == GoTo(t, p, c) /\ running' = None
Finish(t, p) == Await(t, p, None)

KeepSession == UNCHANGED <<encrypted, iv>>
DropSession == encrypted' = FALSE /\ iv' = None

\* disconnect() up to client.disconnect(), which it only awaits when there is one.
HangUp(t, p) ==
    /\ DropSession
    /\ IF client = None THEN Continue(t, p) ELSE Await(t, p, client)
    /\ UNCHANGED <<client, queue, outcome, device>>

NoDisconnect(c) == UNCHANGED device
LinkEnds(c) ==
    /\ radio' = [d \in Clients |-> IF d = c THEN "off" ELSE radio[d]]
    /\ owed' = {r \in owed : r.to # c}
    /\ UNCHANGED orphans

Alive(c) == radio[c] # "off"

\* client.disconnect() raised and the link is still up: disconnect() ignores it.
LinkStays(c) ==
    /\ c \in Clients /\ Alive(c) /\ Cardinality(orphans) < MaxOrphans
    /\ orphans' = orphans \cup {c} /\ UNCHANGED <<radio, owed>>

\* client.disconnect() is over, whatever came of it; then _client goes.
HungUp(t, p) ==
    /\ Runs(t, p)
    /\ LinkEnds(on[t]) \/ LinkStays(on[t])
    /\ UNCHANGED <<encrypted, iv, queue>>

LetGo == client' = None

\* _write_char: only awaited when there still is a client.
Asks(t, p) == client # None /\ Await(t, p, client)

\* A frame is left, and its locals with it.
Forget == acc' = {} /\ random' = None /\ UNCHANGED attempt

Requests(t, kind) == owed' = owed \cup {[to |-> on[t], kind |-> kind]} /\ UNCHANGED <<radio, orphans>>
Sent(t, p, kind) == Runs(t, p) /\ Alive(on[t]) /\ Requests(t, kind)

\* The operation of bleak's that t awaits raised: BleakError, or any other.
Raised(t, p) == Runs(t, p) /\ UNCHANGED device

-----------------------------------------------------------------------------
(* The poll: two attempts of connect if needed, then read.                   *)

\* The first refresh belongs to the set-up; unloading cancels the schedule.
PollStart ==
    /\ Runs(Poll, "idle")
    /\ pc[Unload] = "idle" \/ (pc[Unload] = "setup" /\ result = "none")
    /\ Continue(Poll, "begin")
    /\ attempt' = 1 /\ result' = "none"
    /\ UNCHANGED <<session, queue, acc, random, active, device>>

PollBegin ==
    /\ Runs(Poll, "begin")
    /\ IF Connected
       THEN Continue(Poll, "read") /\ UNCHANGED <<session, queue, outcome, device>>
       ELSE HangUp(Poll, "hangC")
    /\ UNCHANGED locals

Fresh(c) == c # client /\ c \notin orphans /\ ~Alive(c) /\ \A t \in Tasks : on[t] # c

\* connect() has hung up: a new BleakClient dials.
Connect ==
    /\ HungUp(Poll, "hangC")
    /\ \E c \in Clients : Fresh(c) /\ client' = c /\ Await(Poll, "dial", c)
    /\ UNCHANGED <<locals, outcome>>

\* Between the awaits _client may have been let go: pair() then raises, ignored.
Dialled ==
    /\ Runs(Poll, "dial")
    /\ radio' = [radio EXCEPT ![on[Poll]] = "linked"]
    /\ Asks(Poll, "pair") \/ (client = None /\ Continue(Poll, "pair"))
    /\ UNCHANGED <<session, queue, locals, outcome, owed, orphans>>

Paired ==
    /\ Runs(Poll, "pair") /\ Asks(Poll, "subscribe")
    /\ UNCHANGED <<session, queue, locals, outcome, device>>

NoDrain == UNCHANGED queue
Drain == queue' = {}

\* start_notify is done: the handshake drains the queue and asks for the IV.
Subscribed ==
    /\ Runs(Poll, "subscribe") /\ Alive(on[Poll]) /\ Drain
    /\ radio' = [radio EXCEPT ![on[Poll]] = "notifying"]
    /\ \/ Asks(Poll, "askIv") /\ UNCHANGED result
       \/ client = None /\ Finish(Poll, "idle") /\ result' = "escaped"
    /\ UNCHANGED <<session, locals, active, owed, orphans>>

\* Whatever is raised before the handshake becomes a TransportError.
ConnectFails ==
    /\ \/ Raised(Poll, "dial") \/ Raised(Poll, "subscribe")
       \/ Raised(Poll, "pair") /\ client = None
    /\ HangUp(Poll, "hangF") /\ UNCHANGED locals

HandshakeSent ==
    /\ \/ Sent(Poll, "askIv", "iv") /\ Await(Poll, "iv", None)
       \/ Sent(Poll, "askLogin", "result") /\ Await(Poll, "login", None)
    /\ UNCHANGED <<session, queue, locals, outcome>>

\* _collect_indications: one more chunk, and a new deadline.
Collect ==
    /\ \E p \in Collecting : Runs(Poll, p)
    /\ \E chunk \in queue : acc' = acc \cup {chunk} /\ queue' = queue \ {chunk}
    /\ UNCHANGED <<session, running, pc, on, random, attempt, outcome, device>>

Got(kind) == \E i \in acc : i.kind = kind

HandshakeIv ==
    /\ Runs(Poll, "iv")
    /\ \E i \in acc : i.kind = "iv" /\ random' = i.from
    /\ Asks(Poll, "askLogin") /\ acc' = {}
    /\ UNCHANGED <<session, queue, attempt, outcome, device>>

\* Any 0x7035 packet will do: its result field is not looked at.
LoginAnswered == Got("result")

NoKey == encrypted' = TRUE /\ UNCHANGED iv
TakeKey == encrypted' = TRUE /\ iv' = random

HandshakeLogin ==
    /\ Runs(Poll, "login") /\ LoginAnswered
    /\ TakeKey
    /\ Continue(Poll, "read") /\ acc' = {} /\ random' = None
    /\ UNCHANGED <<client, queue, attempt, outcome, device>>

HandshakeFails ==
    /\ \/ Raised(Poll, "askIv") \/ Raised(Poll, "askLogin")
       \/ Runs(Poll, "iv") /\ ~Got("iv") /\ UNCHANGED device
       \/ Runs(Poll, "login") /\ ~LoginAnswered /\ UNCHANGED device
    /\ HangUp(Poll, "hangF") /\ Forget

\* What is no TransportError leaves connect() and the poll as it is: an error
\* that is no BleakError, a random string that is no UTF-8, or
\* `assert self._client is not None`.
HandshakeEscapes ==
    /\ \/ Raised(Poll, "askIv") \/ Raised(Poll, "askLogin")
       \/ Runs(Poll, "iv") /\ Got("iv")
    /\ Finish(Poll, "idle") /\ result' = "escaped" /\ Forget
    /\ UNCHANGED <<session, queue, active, device>>

\* connect() has hung up after its failure, and raises TransportError.
ConnectRaises ==
    /\ HungUp(Poll, "hangF") /\ LetGo
    /\ Continue(Poll, "failed")
    /\ UNCHANGED <<locals, outcome>>

ReadBegin ==
    /\ Runs(Poll, "read")
    /\ IF Connected THEN Drain /\ Asks(Poll, "ask") ELSE Continue(Poll, "failed") /\ UNCHANGED queue
    /\ UNCHANGED <<session, locals, outcome, device>>

ReadSent ==
    /\ Sent(Poll, "ask", "other") /\ Await(Poll, "collect", None)
    /\ UNCHANGED <<session, queue, locals, outcome>>

\* Nothing came, or fields_to_kv raised over what came.
ReadFails ==
    /\ Raised(Poll, "ask") \/ Runs(Poll, "collect")
    /\ encrypted' = FALSE
    /\ Continue(Poll, "failed") /\ Forget
    /\ UNCHANGED <<client, iv, queue, outcome, device>>

\* Whatever was collected, it returns: perhaps {}, and what cannot be decrypted
\* is parsed as it came.  The device's data are left out.
ReadReturns ==
    /\ Runs(Poll, "collect") /\ acc # {}
    /\ pc' = [pc EXCEPT ![Poll] = "idle", ![Unload] = IF @ = "setup" THEN "idle" ELSE @]
    /\ running' = None
    /\ result' = "ok" /\ active' = TRUE /\ Forget
    /\ UNCHANGED <<session, queue, on, device>>

\* The coordinator's `except TransportError`: disconnect, then the next attempt.
AttemptFails == Runs(Poll, "failed") /\ HangUp(Poll, "hangE") /\ UNCHANGED locals

OneTooMany == attempt = 3
LastAttempt == attempt = 2
SameAttempt == attempt' = attempt
NextAttempt == attempt' = attempt + 1

AttemptOver ==
    /\ HungUp(Poll, "hangE") /\ LetGo
    /\ IF LastAttempt
       THEN Finish(Poll, "idle") /\ result' = "failed" /\ active' = FALSE /\ UNCHANGED attempt
       ELSE Continue(Poll, "begin") /\ NextAttempt /\ UNCHANGED outcome
    /\ UNCHANGED <<acc, random>>

-----------------------------------------------------------------------------
(* Writes, unloading, and what reaches the loop from outside.                *)

\* The entity picks the active transport and write() checks it, with no await between.
WriteBegin(w) ==
    /\ Runs(w, "idle") /\ pc[Unload] = "idle"
    /\ active /\ Connected /\ Asks(w, "write")
    /\ UNCHANGED <<session, queue, locals, outcome, device>>

\* The write is over once the GATT write is, done or raised; _encrypted stays.
WriteEnds(w) ==
    /\ Sent(w, "write", "other") \/ Raised(w, "write")
    /\ Finish(w, "idle")
    /\ UNCHANGED <<session, queue, locals, outcome>>

UnloadBegin ==
    /\ Runs(Unload, "idle")
    /\ IF active THEN HangUp(Unload, "hangU")
       ELSE Finish(Unload, "done") /\ UNCHANGED <<session, queue, outcome, device>>
    /\ UNCHANGED locals

UnloadOver ==
    /\ HungUp(Unload, "hangU") /\ LetGo
    /\ Finish(Unload, "done")
    /\ UNCHANGED <<locals, outcome>>

\* Home Assistant cancels a refresh still running once the entry is unloaded:
\* nothing in ble.py or in the coordinator catches that.
Cancel ==
    /\ pc[Unload] = "done" /\ pc[Poll] \in Awaiting /\ running = None
    /\ Finish(Poll, "idle") /\ result' = "cancelled" /\ Forget
    /\ UNCHANGED <<session, queue, active, device>>

\* The device indicates an answer, or another packet in its place, to a subscriber.
Indicate(r) ==
    /\ running = None /\ r \in owed /\ radio[r.to] = "notifying"
    /\ Cardinality(queue) < MaxQueue
    /\ \E kind \in {r.kind, "other"} :
        queue' = queue \cup {[kind |-> kind, from |-> IF kind = "iv" THEN r.to ELSE None]}
    /\ UNCHANGED <<session, running, pc, on, locals, outcome, device>>

LinkDrops(c) ==
    /\ running = None /\ Alive(c) /\ LinkEnds(c)
    /\ UNCHANGED <<session, queue, running, pc, on, locals, outcome>>

PollStep ==
    \/ PollBegin \/ Connect \/ Dialled \/ Paired \/ Subscribed \/ ConnectFails
    \/ HandshakeSent \/ HandshakeIv \/ HandshakeLogin \/ HandshakeFails \/ HandshakeEscapes
    \/ ConnectRaises \/ ReadBegin \/ ReadSent \/ ReadFails \/ ReadReturns
    \/ AttemptFails \/ AttemptOver

Next ==
    \/ PollStart \/ PollStep \/ Collect \/ UnloadBegin \/ UnloadOver \/ Cancel
    \/ \E w \in Writers : WriteBegin(w) \/ WriteEnds(w)
    \/ \E r \in owed : Indicate(r)
    \/ \E c \in Clients : LinkDrops(c)

Spec == Init /\ [][Next]_vars

\* bleak's operations end, what is indicated is collected, and a collection ends
\* once no chunk has come for a while: a chunk that waits moves its deadline.
FairSpec ==
    /\ Spec
    /\ WF_vars(PollStep /\ pc[Poll] \notin Collecting) /\ WF_vars(UnloadOver)
    /\ WF_vars(Collect) /\ WF_vars(PollStep /\ queue = {})
    /\ \A w \in Writers : WF_vars(WriteEnds(w))

-----------------------------------------------------------------------------
(* Properties.                                                               *)

Kinds == {"iv", "result", "other"}
Indication == [from : Clients \cup {None}, kind : Kinds]
Answer == [to : Clients, kind : Kinds]

\* The state of the transport, of its tasks and of the device keeps its type.
TypeOK ==
    /\ {client, iv, random} \subseteq Clients \cup {None} /\ encrypted \in BOOLEAN
    /\ queue \subseteq Indication /\ acc \subseteq Indication
    /\ running \in Tasks \cup {None}
    /\ pc \in [Tasks -> Awaiting \cup {"setup", "idle", "begin", "read", "failed", "done"}]
    /\ on \in [Tasks -> Clients \cup {None}]
    /\ attempt \in {1, 2} /\ active \in BOOLEAN
    /\ result \in {"none", "ok", "failed", "escaped", "cancelled"}
    /\ radio \in [Clients -> {"off", "linked", "notifying"}]
    /\ owed \subseteq Answer /\ orphans \subseteq Clients

StaysLoaded == pc[Unload] \in {"setup", "idle"}

\* A session has the key of the client the transport holds, although all clients
\* share one queue, or else of one whose hang-up failed: only a link that
\* disconnect() could not end gets a random string into a later handshake.  (An
\* unloading that lets go of a client in the middle of its handshake does, too.)
KeyFitsClient == StaysLoaded /\ Connected => iv \in {client} \cup orphans

\* No write gets between the packets of a handshake, although none is locked out:
\* connect() ends the session before its first await.
HandshakeIsExclusive ==
    pc[Poll] \in Connecting \cup Handshake =>
        ~Connected /\ \A w \in Writers : pc[w] = "write" => on[w] # client

\* As long as the entry is not being unloaded, a link is that of the client the
\* transport still holds, and will hang up, unless the hang-up itself has failed:
\* disconnect() forgets such a client, and nothing hangs up its link any more.
NoOrphanLink == StaysLoaded => \A c \in Clients : Alive(c) => c \in {client} \cup orphans

\* What a read decrypts its answer with, _iv after the last await, is a key as
\* long as the entry is not being unloaded, although nothing locks a write, or a
\* hang-up, out of the read.
ReadsWithKey == StaysLoaded /\ pc[Poll] \in {"ask", "collect"} => iv # None

\* A poll that has begun ends, whatever the unloading does, unless the device
\* indicates to one of its collections for ever: nothing bounds a collection.
PollEnds ==
    \/ pc[Poll] = "begin" ~> pc[Poll] = "idle"
    \/ <>[](pc[Poll] \in Collecting) /\ []<>(queue # {})
=============================================================================
