---------------------------- MODULE TcpTransport ----------------------------
(* The TCP transport (transport/tcp.py) under the three kinds of task that   *)
(* Home Assistant runs against it on one event loop: the coordinator's poll  *)
(* (coordinator.py), the writes of switches and selects, and the unloading   *)
(* of the entry.  A task runs alone until it awaits; `ready` is the loop's   *)
(* FIFO of tasks to resume (and of connections to tear down), and a step of  *)
(* the loop runs its head up to the next point where the task awaits or      *)
(* changes shared state.  Device and network act between those steps.        *)
EXTENDS Naturals, Sequences, FiniteSets

CONSTANTS
    Poll, Unload,  \* the coordinator's refresh and async_unload_entry
    Writers,       \* entities that can call write()
    Conns,         \* names of TCP connections, reused once dead
    None,          \* Python's None
    MaxPackets,    \* packets one collection may take (range(10))
    MaxOwed,       \* bound: requests the device has yet to answer
    MaxInbox       \* bound: packets received and not yet read

Tasks == {Poll, Unload} \cup Writers

ASSUME ConstantsAssumption ==
    /\ IsFiniteSet(Writers)
    /\ Poll # Unload /\ Poll \notin Writers /\ Unload \notin Writers
    /\ None \notin Conns /\ Conns \cap Tasks = {}
    /\ MaxPackets \in Nat \ {0} /\ MaxOwed \in Nat \ {0} /\ MaxInbox \in Nat \ {0}

VARIABLES
    conn,           \* _reader and _writer, as the connection they belong to
    encrypted, iv,  \* _encrypted; _iv, as the connection whose login gave it
    firstReadDone,  \* _first_read_done
    lock,           \* _lock: its owner, then the tasks waiting, in order
    ready,          \* the loop's queue: <<task, why it resumes>>, <<c, "lost">>
    pc, on,         \* where each task is, and the connection it awaits
    attempt, budget, fields,  \* the poll's locals: attempt, packets left, any field?
    result, active, \* what the last poll came to; is this the active_transport?
    sock,           \* each connection as the local socket sees it
    auth,           \* the connections whose login the device accepted
    owed, inbox     \* requests the device holds; packets the reader holds

session == <<conn, encrypted, iv, firstReadDone>>
locals  == <<attempt, budget, fields>>
outcome == <<result, active>>
network == <<sock, auth, owed, inbox>>
vars == <<session, lock, ready, pc, on, locals, outcome, network>>

Receiving == {"iv", "login", "collect", "recollect", "ack"}
Closing   == {"closeC", "closeE", "closeU"}
Reading   == {"settle", "collect", "pause", "recollect"}
Holding   == Reading \cup {"ack"}

Init ==
    /\ conn = None /\ encrypted = FALSE /\ iv = None /\ firstReadDone = FALSE
    /\ lock = <<>> /\ ready = <<>>
    /\ pc = [t \in Tasks |-> IF t = Unload THEN "setup" ELSE "idle"]
    /\ on = [t \in Tasks |-> None]
    /\ attempt = 1 /\ budget = MaxPackets /\ fields = FALSE
    /\ result = "none" /\ active = FALSE
    /\ sock = [c \in Conns |-> "closed"] /\ auth = {}
    /\ owed = [c \in Conns |-> <<>>] /\ inbox = [c \in Conns |-> <<>>]

-----------------------------------------------------------------------------
(* Building blocks of a step of the loop.  A definition that only PROJECT.json *)
(* uses (NoLock, KeepKey...) is a faulty variant of the one that follows it.  *)

Connected == encrypted /\ conn # None

Runs(t, p) == ready # <<>> /\ ready[1][1] = t /\ pc[t] = p
Why == ready[1][2]
Suspended(t) == \A i \in DOMAIN ready : ready[i][1] # t

\* The head of the queue goes on to p at once, or awaits there.
Continue(t, p) == pc' = [pc EXCEPT ![t] = p] /\ ready' = [ready EXCEPT ![1] = <<t, "go">>]
Await(t, p) == pc' = [pc EXCEPT ![t] = p] /\ ready' = Tail(ready)
Finish(t, p) == Await(t, p) /\ on' = [on EXCEPT ![t] = None]

\* `async with self._lock`: a task that finds it taken waits for its turn.
NoLock(t) == lock' = Append(lock, t) /\ Continue(t, "locked")
Acquire(t) ==
    /\ lock' = Append(lock, t)
    /\ IF lock = <<>> THEN Continue(t, "locked") ELSE Await(t, "locked")

\* Leaving it schedules the next owner behind everything already scheduled.
NextOwner == IF Len(lock) > 1 THEN <<<<lock[2], "go">>>> ELSE <<>>
ReleaseAndEnd(t) ==
    /\ lock' = Tail(lock)
    /\ pc' = [pc EXCEPT ![t] = "idle"]
    /\ on' = [on EXCEPT ![t] = None]
    /\ ready' = Tail(ready) \o NextOwner

CanSend == conn # None /\ sock[conn] \in {"open", "fin"}

\* _send_raw on a usable socket; a peer that has closed never sees the request.
Send(t, kind, p) ==
    /\ owed' = IF sock[conn] = "open" /\ Len(owed[conn]) < MaxOwed
               THEN [owed EXCEPT ![conn] = Append(@, kind)]
               ELSE owed
    /\ on' = [on EXCEPT ![t] = conn]
    /\ Continue(t, p)

\* What _recv_packet meets on the connection t reads from.
Gets(t, kinds) == /\ Why = "go" /\ sock[on[t]] # "rst" /\ inbox[on[t]] # <<>>
                  /\ Head(inbox[on[t]]) \in kinds
Take(t) == inbox' = [inbox EXCEPT ![on[t]] = Tail(@)]
SeesEof(t) == Why = "go" /\ sock[on[t]] \in {"fin", "closed"} /\ inbox[on[t]] = <<>>
SeesReset(t) == Why = "go" /\ sock[on[t]] = "rst"

RecvBlocks(t) ==
    /\ \E p \in Receiving : Runs(t, p) /\ Await(t, p)
    /\ Why = "go" /\ sock[on[t]] \in {"open", "closing"} /\ inbox[on[t]] = <<>>
    /\ UNCHANGED <<session, lock, on, locals, outcome, network>>

KeepKey == encrypted' = FALSE /\ firstReadDone' = FALSE /\ UNCHANGED iv
DropSession == encrypted' = FALSE /\ firstReadDone' = FALSE /\ iv' = None

HasSession == Connected /\ sock[conn] \in {"open", "fin", "closing"}
HasSocket == conn # None /\ sock[conn] \in {"open", "fin", "closing"}

\* disconnect() up to wait_closed, which a dead socket does not make it await.
Disconnect(t, p) ==
    /\ DropSession
    /\ IF HasSocket
       THEN /\ sock' = [sock EXCEPT ![conn] = "closing"]
            /\ on' = [on EXCEPT ![t] = conn]
            /\ pc' = [pc EXCEPT ![t] = p]
            /\ ready' = Tail(ready) \o (IF sock[conn] = "closing" THEN <<>> ELSE <<<<conn, "lost">>>>)
       ELSE Continue(t, p) /\ UNCHANGED <<sock, on>>
    /\ UNCHANGED <<conn, lock, locals, outcome, auth, owed, inbox>>

AwaitedBy(c, where) == {t \in Tasks : pc[t] \in where /\ on[t] = c /\ Suspended(t)}
InAnyOrder(S) == {s \in [1..Cardinality(S) -> S] : \A i, j \in DOMAIN s : s[i] = s[j] => i = j}
Resuming(c, where) == {[i \in DOMAIN s |-> <<s[i], "go">>] : s \in InAnyOrder(AwaitedBy(c, where))}
WakeReaders(c) == \E r \in Resuming(c, Receiving) : ready' = ready \o r

\* connection_lost: the stream ends for its readers, then wait_closed returns.
ConnectionLost ==
    /\ ready # <<>> /\ Why = "lost"
    /\ LET c == ready[1][1] IN
        /\ sock' = [sock EXCEPT ![c] = "closed"]
        /\ owed' = [owed EXCEPT ![c] = <<>>]
        /\ \E r \in Resuming(c, Receiving), k \in Resuming(c, Closing) : ready' = Tail(ready) \o r \o k
    /\ UNCHANGED <<session, lock, pc, on, locals, outcome, auth, inbox>>

\* The rest of disconnect(): reader and writer go, with what they had buffered.
LetGo ==
    /\ conn' = None
    /\ inbox' = [c \in Conns |-> IF c = conn THEN <<>> ELSE inbox[c]]
    /\ auth' = auth \ {conn}
    /\ UNCHANGED <<encrypted, iv, firstReadDone, sock, owed>>

-----------------------------------------------------------------------------
(* The poll: two attempts of connect if needed, then read.                   *)

PollBegin ==
    /\ Runs(Poll, "begin")
    /\ IF Connected
       THEN /\ Continue(Poll, "acquire")
            /\ UNCHANGED <<session, lock, on, locals, outcome, network>>
       ELSE Disconnect(Poll, "closeC")

\* connect() has hung up and awaits open_connection.
Connect ==
    /\ Runs(Poll, "closeC") /\ Why = "go"
    /\ LetGo
    /\ Finish(Poll, "opening")
    /\ UNCHANGED <<lock, locals, outcome>>

Fresh(c) == /\ c # conn /\ sock[c] \in {"closed", "rst"}
            /\ \A t \in Tasks : pc[t] \in Receiving \cup Closing => on[t] # c

Opened ==
    /\ Runs(Poll, "opening") /\ Why = "go"
    /\ \E c \in Conns :
        /\ Fresh(c)
        /\ conn' = c
        /\ sock' = [sock EXCEPT ![c] = "open"]
        /\ owed' = [owed EXCEPT ![c] = <<"ivreq">>]
        /\ on' = [on EXCEPT ![Poll] = c]
    /\ Continue(Poll, "iv")
    /\ UNCHANGED <<encrypted, iv, firstReadDone, lock, locals, outcome, auth, inbox>>

HandshakeIv ==
    /\ Runs(Poll, "iv") /\ Gets(Poll, {"iv"}) /\ CanSend
    /\ Take(Poll)
    /\ Send(Poll, "login", "login")
    /\ UNCHANGED <<session, lock, locals, outcome, sock, auth>>

AnyLoginAnswer == Gets(Poll, {"ok", "junk"})
LoginAccepted == Gets(Poll, {"ok"})

HandshakeLogin ==
    /\ Runs(Poll, "login") /\ LoginAccepted
    /\ Take(Poll)
    /\ iv' = on[Poll] /\ encrypted' = TRUE
    /\ Continue(Poll, "acquire")
    /\ UNCHANGED <<conn, firstReadDone, lock, on, locals, outcome, sock, auth, owed>>

\* TransportError: refused, wrong answer, end of stream; connect hangs up.
ConnectFails ==
    /\ \/ Runs(Poll, "opening") /\ Why = "timeout" /\ UNCHANGED inbox
       \/ Runs(Poll, "iv") /\ Gets(Poll, {"junk"}) /\ Take(Poll)
       \/ Runs(Poll, "login") /\ Gets(Poll, {"iv", "junk"}) /\ Take(Poll)
       \/ /\ Runs(Poll, "iv") \/ Runs(Poll, "login")
          /\ SeesEof(Poll) /\ UNCHANGED inbox
    /\ Continue(Poll, "failed")
    /\ UNCHANGED <<session, lock, on, locals, outcome, sock, auth, owed>>

\* Any other exception (and a cancellation) leaves connect() and the poll as it is:
\* no answer in time, a reset, a random string that is no text or that cannot be sent back.
HandshakeEscapes ==
    /\ Runs(Poll, "iv") \/ Runs(Poll, "login")
    /\ \/ SeesReset(Poll) /\ result' = "escaped" /\ UNCHANGED inbox
       \/ Why = "timeout" /\ result' = "escaped" /\ UNCHANGED inbox
       \/ Why = "cancel" /\ result' = "cancelled" /\ UNCHANGED inbox
       \/ Runs(Poll, "iv") /\ Gets(Poll, {"iv"}) /\ Take(Poll) /\ result' = "escaped"
    /\ Finish(Poll, "idle")
    /\ UNCHANGED <<session, lock, locals, active, sock, auth, owed>>

\* read(): the session is checked before the lock, and not again under it.
ReadBegin ==
    /\ Runs(Poll, "acquire")
    /\ IF Connected THEN Acquire(Poll) ELSE Continue(Poll, "failed") /\ UNCHANGED lock
    /\ UNCHANGED <<session, on, locals, outcome, network>>

ReadSettles ==
    /\ Runs(Poll, "locked") /\ Why = "go" /\ ~firstReadDone
    /\ Await(Poll, "settle")
    /\ UNCHANGED <<session, lock, on, locals, outcome, network>>

ReadFails ==
    /\ encrypted' = FALSE /\ iv' = None
    /\ lock' = Tail(lock)
    /\ pc' = [pc EXCEPT ![Poll] = "failed"]
    /\ ready' = [ready EXCEPT ![1] = <<Poll, "go">>] \o NextOwner
    /\ UNCHANGED <<conn, on, attempt, budget, outcome, sock, auth, owed>>

ReadSends ==
    /\ \/ Runs(Poll, "locked") /\ firstReadDone
       \/ Runs(Poll, "settle")
       \/ Runs(Poll, "pause")
    /\ Why = "go"
    /\ fields' = FALSE
    /\ firstReadDone' = (firstReadDone \/ pc[Poll] = "settle")
    /\ IF CanSend
       THEN /\ Send(Poll, "read", IF pc[Poll] = "pause" THEN "recollect" ELSE "collect")
            /\ budget' = MaxPackets
            /\ UNCHANGED <<conn, encrypted, iv, lock, attempt, outcome, sock, auth, inbox>>
       ELSE ReadFails /\ UNCHANGED inbox

\* The read returns what it collected, or {}: it counts as a success either way.
ReadReturns(some) ==
    /\ lock' = Tail(lock)
    /\ pc' = [pc EXCEPT ![Poll] = "idle", ![Unload] = IF @ = "setup" THEN "idle" ELSE @]
    /\ on' = [on EXCEPT ![Poll] = None]
    /\ ready' = Tail(ready) \o NextOwner
    /\ result' = IF some THEN "ok" ELSE "empty"
    /\ active' = TRUE

CollectEnds(some) ==
    /\ IF ~some /\ pc[Poll] = "collect"
       THEN Await(Poll, "pause") /\ UNCHANGED <<lock, on, outcome>>
       ELSE ReadReturns(some)
    /\ fields' = some
    /\ UNCHANGED <<session, attempt, budget, sock, auth, owed>>

CollectMore(some) ==
    IF budget = 1
    THEN CollectEnds(some)
    ELSE /\ budget' = budget - 1
         /\ fields' = some
         /\ Continue(Poll, pc[Poll])
         /\ UNCHANGED <<session, lock, on, attempt, outcome, sock, auth, owed>>

\* The packet that ends the collection: of another kind, or the last it may take.
LastPacket == Gets(Poll, {"iv", "ok", "junk"}) \/ (Gets(Poll, {"empty"}) /\ budget = 1)

\* aes_decrypt raises (no key, or a packet cut short), fields_to_kv does, or the
\* connection ends.
CollectFails ==
    /\ \/ Gets(Poll, {"data"}) /\ Take(Poll)
       \/ LastPacket /\ fields /\ Take(Poll)
       \/ Why = "timeout" /\ fields /\ UNCHANGED inbox
       \/ (SeesEof(Poll) \/ SeesReset(Poll)) /\ UNCHANGED inbox
    /\ ReadFails /\ UNCHANGED <<firstReadDone, fields>>

CollectDataPackets ==
    /\ Runs(Poll, "collect") \/ Runs(Poll, "recollect")
    /\ \/ Gets(Poll, {"empty"}) /\ Take(Poll) /\ CollectMore(fields)
       \/ Gets(Poll, {"data"}) /\ iv # None /\ Take(Poll) /\ CollectMore(TRUE)
       \/ Gets(Poll, {"iv", "ok", "junk"}) /\ Take(Poll) /\ CollectEnds(fields)
       \/ Why = "timeout" /\ CollectEnds(fields) /\ UNCHANGED inbox
       \/ CollectFails

\* CancelledError inside read(): the session is dropped, the socket is not.
ReadCancelled ==
    /\ \E p \in Reading : Runs(Poll, p)
    /\ Why = "cancel"
    /\ encrypted' = FALSE /\ iv' = None
    /\ ReleaseAndEnd(Poll)
    /\ result' = "cancelled"
    /\ UNCHANGED <<conn, firstReadDone, locals, active, network>>

\* CancelledError outside the handshake and read(): nothing is cleaned up.
WaitCancelled ==
    /\ \E p \in Closing \cup {"opening", "locked"} : Runs(Poll, p)
    /\ Why = "cancel"
    /\ Finish(Poll, "idle")
    /\ result' = "cancelled"
    /\ UNCHANGED <<session, lock, locals, active, network>>

\* The coordinator's `except TransportError`: disconnect, then the next attempt.
AttemptFails == Runs(Poll, "failed") /\ Disconnect(Poll, "closeE")

OneTooMany == attempt = 3
LastAttempt == attempt = 2

AttemptOver ==
    /\ Runs(Poll, "closeE") /\ Why = "go"
    /\ LetGo
    /\ IF ~LastAttempt
       THEN /\ Continue(Poll, "begin")
            /\ attempt' = attempt + 1 /\ fields' = FALSE
            /\ UNCHANGED <<on, outcome>>
       ELSE /\ Finish(Poll, "idle")
            /\ result' = "failed" /\ active' = FALSE
            /\ UNCHANGED <<attempt, fields>>
    /\ UNCHANGED <<lock, budget>>

-----------------------------------------------------------------------------
(* A write of an entity, and the unloading of the entry.                     *)

WriteBegin(w) ==
    /\ Runs(w, "begin")
    /\ IF Connected THEN Acquire(w) ELSE Await(w, "idle") /\ UNCHANGED lock
    /\ UNCHANGED <<session, on, locals, outcome, network>>

WriteFails(w) ==
    /\ encrypted' = FALSE
    /\ ReleaseAndEnd(w)
    /\ UNCHANGED <<conn, iv, firstReadDone, locals, outcome, network>>

WriteSends(w) ==
    /\ Runs(w, "locked")
    /\ IF iv # None /\ CanSend
       THEN Send(w, "write", "ack") /\ UNCHANGED <<session, lock, locals, outcome, sock, auth, inbox>>
       ELSE WriteFails(w)

\* Whatever packet comes first is the acknowledgement.
WriteAcked(w) ==
    /\ Runs(w, "ack") /\ Gets(w, {"iv", "ok", "data", "empty", "junk"})
    /\ Take(w)
    /\ ReleaseAndEnd(w)
    /\ UNCHANGED <<session, locals, outcome, sock, auth, owed>>

WriteUnanswered(w) ==
    /\ Runs(w, "ack") /\ (Why = "timeout" \/ SeesEof(w) \/ SeesReset(w))
    /\ WriteFails(w)

UnloadBegin ==
    /\ Runs(Unload, "begin")
    /\ IF active THEN Disconnect(Unload, "closeU")
       ELSE /\ Await(Unload, "done")
            /\ UNCHANGED <<session, lock, on, locals, outcome, network>>

UnloadOver ==
    /\ Runs(Unload, "closeU")
    /\ LetGo
    /\ Finish(Unload, "done")
    /\ UNCHANGED <<lock, locals, outcome>>

LoopStep ==
    \/ ConnectionLost \/ PollBegin \/ Connect \/ Opened \/ HandshakeIv \/ HandshakeLogin
    \/ ConnectFails \/ HandshakeEscapes \/ ReadBegin \/ ReadSettles \/ ReadSends
    \/ CollectDataPackets \/ ReadCancelled \/ WaitCancelled
    \/ AttemptFails \/ AttemptOver \/ UnloadBegin \/ UnloadOver
    \/ \E w \in Writers : WriteBegin(w) \/ WriteSends(w) \/ WriteAcked(w) \/ WriteUnanswered(w)
    \/ \E t \in Tasks : RecvBlocks(t)

-----------------------------------------------------------------------------
(* What reaches the loop from outside: Home Assistant, clocks, the network.  *)

Start(t, p) == pc' = [pc EXCEPT ![t] = p] /\ ready' = Append(ready, <<t, "go">>)
Wake(t, why) == ready' = Append(ready, <<t, why>>)

\* The first refresh belongs to the set-up; unloading cancels the schedule.
PollStart ==
    /\ pc[Poll] = "idle"
    /\ pc[Unload] = "idle" \/ (pc[Unload] = "setup" /\ result = "none")
    /\ Start(Poll, "begin")
    /\ attempt' = 1 /\ fields' = FALSE /\ result' = "none"
    /\ UNCHANGED <<session, lock, on, budget, active, network>>

WriteStart(w) ==
    /\ pc[w] = "idle" /\ pc[Unload] = "idle" /\ active
    /\ Start(w, "begin")
    /\ UNCHANGED <<session, lock, on, locals, outcome, network>>

UnloadStart ==
    /\ pc[Unload] = "idle"
    /\ Start(Unload, "begin")
    /\ UNCHANGED <<session, lock, on, locals, outcome, network>>

LeaveQueue(t) ==
    \E i \in DOMAIN lock :
        lock[i] = t /\ lock' = SubSeq(lock, 1, i - 1) \o SubSeq(lock, i + 1, Len(lock))

\* Home Assistant cancels a refresh still running once the entry is unloaded.
Cancel ==
    /\ pc[Unload] = "done" /\ pc[Poll] # "idle" /\ Suspended(Poll)
    /\ IF pc[Poll] = "locked" THEN LeaveQueue(Poll) ELSE UNCHANGED lock
    /\ Wake(Poll, "cancel")
    /\ UNCHANGED <<session, pc, on, locals, outcome, network>>

UntimedLogin == (Receiving \ {"login"}) \cup {"opening", "settle", "pause"}
UntimedAck == (Receiving \ {"ack"}) \cup {"opening", "settle", "pause"}
Timed == Receiving \cup {"opening", "settle", "pause"}

Timer(t) ==
    /\ Suspended(t) /\ pc[t] \in Timed
    /\ Wake(t, IF pc[t] \in {"settle", "pause"} THEN "go" ELSE "timeout")
    /\ UNCHANGED <<session, lock, pc, on, locals, outcome, network>>

OpenSucceeds ==
    /\ pc[Poll] = "opening" /\ Suspended(Poll)
    /\ Wake(Poll, "go")
    /\ UNCHANGED <<session, lock, pc, on, locals, outcome, network>>

Replies(request) == CASE request = "ivreq" -> {"iv", "junk"}
                      [] request = "login" -> {"ok", "junk"}
                      [] request = "read"  -> {"data", "empty", "junk"}
                      [] request = "write" -> {"empty", "junk"}

\* The device answers the oldest request, a read possibly with several packets.
Answer(c) ==
    /\ sock[c] = "open" /\ owed[c] # <<>> /\ Len(inbox[c]) < MaxInbox
    /\ LET request == Head(owed[c]) IN
       \E kind \in Replies(request), last \in BOOLEAN :
        /\ last \/ request = "read"
        /\ inbox' = [inbox EXCEPT ![c] = Append(@, kind)]
        /\ owed' = IF last THEN [owed EXCEPT ![c] = Tail(@)] ELSE owed
        /\ auth' = IF kind = "ok" THEN auth \cup {c} ELSE auth
    /\ WakeReaders(c)
    /\ UNCHANGED <<session, lock, pc, on, locals, outcome, sock>>

NeverAnswers(c) ==
    /\ sock[c] = "open" /\ owed[c] # <<>>
    /\ owed' = [owed EXCEPT ![c] = Tail(@)]
    /\ UNCHANGED <<session, lock, ready, pc, on, locals, outcome, sock, auth, inbox>>

PeerCloses(c) ==
    /\ \/ sock[c] = "open" /\ sock' = [sock EXCEPT ![c] = "fin"]
       \/ sock[c] \in {"open", "fin"} /\ sock' = [sock EXCEPT ![c] = "rst"]
    /\ owed' = [owed EXCEPT ![c] = <<>>]
    /\ WakeReaders(c)
    /\ UNCHANGED <<session, lock, pc, on, locals, outcome, auth, inbox>>

Environment ==
    \/ PollStart \/ UnloadStart \/ Cancel \/ OpenSucceeds
    \/ \E w \in Writers : WriteStart(w)
    \/ \E t \in Tasks : Timer(t)
    \/ \E c \in Conns : Answer(c) \/ NeverAnswers(c) \/ PeerCloses(c)

Next == LoopStep \/ Environment
Spec == Init /\ [][Next]_vars

\* The loop runs what is ready, and timers fire.
\* Nothing is assumed of the device, of the network or of Home Assistant.
FairSpec ==
    /\ Spec
    /\ WF_vars(LoopStep)
    /\ \A t \in Tasks : WF_vars(Timer(t))

-----------------------------------------------------------------------------
(* Properties.                                                               *)

Packet == {"iv", "ok", "data", "empty", "junk"}
Request == {"ivreq", "login", "read", "write"}

Entry == (Tasks \X {"go", "timeout", "cancel"}) \cup (Conns \X {"lost"})
Place == {"setup", "idle", "begin", "opening", "acquire", "locked", "settle", "pause",
          "failed", "done"} \cup Receiving \cup Closing

\* The state of the transport, of its tasks and of the network keeps its type.
TypeOK ==
    /\ conn \in Conns \cup {None} /\ iv \in Conns \cup {None}
    /\ encrypted \in BOOLEAN /\ firstReadDone \in BOOLEAN
    /\ lock \in Seq(Tasks)
    /\ ready \in Seq(Entry)
    /\ pc \in [Tasks -> Place]
    /\ on \in [Tasks -> Conns \cup {None}]
    /\ attempt \in {1, 2} /\ budget \in 1..MaxPackets /\ fields \in BOOLEAN
    /\ result \in {"none", "ok", "empty", "failed", "escaped", "cancelled"}
    /\ active \in BOOLEAN
    /\ sock \in [Conns -> {"closed", "open", "fin", "rst", "closing"}]
    /\ auth \subseteq Conns
    /\ owed \in [Conns -> Seq(Request)] /\ inbox \in [Conns -> Seq(Packet)]

\* For a loop's queue r, a lock l and the place at[t] of each task t.
HolderOwns(l, at) == \A t \in Tasks : at[t] \in Holding => l # <<>> /\ l[1] = t
QueuedWait(l, at) ==
    /\ \A i \in DOMAIN l : at[l[i]] \in Holding \cup {"locked"}
    /\ \A i, j \in DOMAIN l : l[i] = l[j] => i = j
WakeUpIsDue(t, why, l, at) ==
    /\ at[t] \notin {"setup", "idle"}
    /\ why = "go" /\ at[t] = "locked" => l # <<>> /\ l[1] = t
    /\ why = "timeout" => at[t] \in Receiving \cup {"opening"}
    /\ why = "cancel" => t = Poll
    /\ why = "cancel" /\ at[t] = "locked" => \A k \in DOMAIN l : l[k] # t
WakeUpsAreDue(r, l, at) ==
    \A t \in Tasks, i \in DOMAIN r : r[i][1] = t =>
        WakeUpIsDue(t, r[i][2], l, at) /\ \A j \in DOMAIN r : r[j][1] = t => i = j
OwnerIsAwake(r, l, at) ==
    \A t \in Tasks : l # <<>> /\ l[1] = t /\ at[t] = "locked" => \E i \in DOMAIN r : r[i] = <<t, "go">>
OnlyUnloadIsSetUp(at) == \A t \in Tasks : at[t] = "setup" => t = Unload
Disciplined(r, l, at) ==
    HolderOwns(l, at) /\ QueuedWait(l, at) /\ WakeUpsAreDue(r, l, at) /\ OnlyUnloadIsSetUp(at)

\* Whoever is inside `async with self._lock` owns it and is alone there, the lock
\* is granted in order to tasks that still wait for it, and the loop never has
\* two reasons to resume one task: no wake-up is lost, none is left over.
LockDiscipline == Disciplined(ready, lock, pc) /\ OwnerIsAwake(ready, lock, pc)

\* `connected` (base.py: "an active authenticated session") is only ever true of
\* the connection the transport holds, with its own key, after its own login:
\* no interleaving of poll, writes and unload pairs a session with another socket.
ConnectedIsAuthenticated == Connected => conn \in auth /\ iv = conn

\* A key that outlives its session (a failed write keeps _iv) never meets a
\* later connection: nothing is encrypted or decrypted with a stale key.
SessionKeyMatches == iv # None /\ conn # None => iv = conn

\* Two tasks never read one stream (asyncio raises when they do): the lock
\* covers read and write, and the handshake, which takes no lock, never
\* overlaps them.
OneReader == \A t, u \in Tasks : pc[t] \in Receiving /\ pc[u] \in Receiving => t = u

\* disconnect() takes no lock, so it may let a connection go under a task that
\* still reads it: that task sees its own stream end, and never the next one.
ReaderOwnsSocket ==
    \A t \in Tasks : pc[t] \in Receiving /\ on[t] # conn =>
        conn = None /\ (sock[on[t]] = "rst" \/ (sock[on[t]] = "closed" /\ inbox[on[t]] = <<>>))

\* A socket nobody has hung up on is still held by the transport, so that the
\* next connect or unload closes it.
NoOrphanSocket == \A c \in Conns : sock[c] \in {"open", "fin"} => c = conn

\* A write or a poll that has begun ends, whatever the device does: no wait for
\* the lock, a packet or a hang-up is for ever.
WriteEnds == \A w \in Writers : pc[w] = "begin" ~> pc[w] = "idle"
PollEnds == pc[Poll] = "begin" ~> pc[Poll] = "idle"

\* base.py: connect() "Raises TransportError on failure".
ConnectRaisesTransportError == result # "escaped"

\* coordinator.py: the device closes the socket after each response, and "the
\* second attempt handles the reconnect transparently": a poll whose last
\* attempt received the answer does not fail.
AnsweredPollSucceeds == ~(result = "failed" /\ fields)
=============================================================================
