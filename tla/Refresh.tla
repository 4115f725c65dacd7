------------------------------ MODULE Refresh ------------------------------
(* The age of what an entity shows: writes of switches and selects, the       *)
(* refresh that each requests (switch.py, select.py), Home Assistant's        *)
(* debouncer and schedule, and the polls over TCP with their lock.  The data  *)
(* point is its version: each write sends the next one.  How a transport      *)
(* connects is TcpTransport's matter, how packets are put together Status's.  *)
EXTENDS Integers, Sequences, FiniteSets

CONSTANTS
    Refresher,  \* the coordinator's refresh, of which there is one at a time
    Writers,    \* entities that can call write()
    MaxVersion, \* bound: versions written, the first one not counted
    MaxOwed,    \* bound: requests the device has yet to answer
    MaxInbox    \* bound: packets received and not yet read

ASSUME ConstantsAssumption ==
    /\ Refresher \notin Writers
    /\ MaxVersion \in Nat \ {0} /\ MaxOwed \in Nat \ {0} /\ MaxInbox \in Nat \ {0}

VARIABLES
    setting,         \* the device's version of the data point
    written,         \* the last version a write has sent
    owed, inbox,     \* requests the device holds; packets not read yet
    session,         \* "up"; "kept" by a write that failed, with its key; "none"
    open,            \* the transport's stream still leads to the device
    lock,            \* _lock: its owner, then the tasks waiting, in order
    at, sent,        \* where each write is, and the version it has sent
    poll, attempt,   \* where the refresh is, and which of the two attempts
    got, round,      \* the version collected, or 0; which request of the read
    data,            \* the version in the coordinator's data; 0 if it has none
    ok, active,      \* last_update_success; there is an active_transport
    cooling, again,  \* the debouncer's timer, and _execute_at_end_of_timer
    applied,         \* history: the last version that the device took of a write
                     \* that is over
    lost             \* history: this connection has had a read without an answer

device == <<setting, owed, inbox, lost>>
writes == <<written, at, sent, applied>>
refresh == <<poll, attempt, got, round>>
shown == <<data, ok, active>>
debouncer == <<cooling, again>>
vars == <<device, session, open, lock, writes, refresh, shown, debouncer>>

\* After the first refresh, which the set-up awaits.
Init ==
    /\ setting = 1 /\ written = 1 /\ owed = <<>> /\ inbox = <<>>
    /\ session = "up" /\ open = TRUE /\ lock = <<>> /\ at = [w \in Writers |-> "idle"] /\ sent = [w \in Writers |-> 0]
    /\ poll = "idle" /\ attempt = 1 /\ got = 0 /\ round = 1
    /\ data = 1 /\ ok = TRUE /\ active = TRUE
    /\ cooling = FALSE /\ again = FALSE /\ applied = 1 /\ lost = FALSE

-----------------------------------------------------------------------------
(* The lock and the debouncer.  A definition that only PROJECT.json uses      *)
(* (LocksNobodyOut, OneTooMany...) is a faulty variant of the one that follows. *)

LocksNobodyOut(t) == \E i \in DOMAIN lock : lock[i] = t
Owns(t) == lock # <<>> /\ Head(lock) = t
Release == lock' = Tail(lock)

\* What is sent on a stream that the peer has closed is gone.
Sends(request) ==
    \/ open /\ Len(owed) < MaxOwed /\ owed' = Append(owed, request) /\ UNCHANGED lost
    \/ open /\ Len(owed) = MaxOwed /\ UNCHANGED owed /\ lost' = (lost \/ request.kind = "read")
    \/ ~open /\ UNCHANGED <<owed, lost>>

\* disconnect(): with the stream go the requests and the answers under way.
HangUp ==
    /\ session' = "none" /\ open' = FALSE
    /\ owed' = <<>> /\ inbox' = <<>> /\ lost' = FALSE

\* A refresh cancels the timer, and with it what waits for its end.
RefreshStarts ==
    /\ poll' = "begin" /\ cooling' = FALSE /\ again' = FALSE
    /\ UNCHANGED <<attempt, got, round>>

\* async_request_refresh: not before the timer has ended, and not beside another.
RequestRefresh ==
    \/ cooling /\ again' = TRUE /\ UNCHANGED <<refresh, cooling>>
    \/ ~cooling /\ poll # "idle" /\ UNCHANGED <<refresh, debouncer>>
    \/ ~cooling /\ poll = "idle" /\ RefreshStarts

\* update_interval has passed.
Scheduled ==
    /\ poll = "idle" /\ RefreshStarts
    /\ UNCHANGED <<device, session, open, lock, writes, shown>>

CooldownEnds ==
    /\ cooling
    /\ IF again THEN RefreshStarts
       ELSE cooling' = FALSE /\ UNCHANGED <<again, refresh>>
    /\ UNCHANGED <<device, session, open, lock, writes, shown>>

-----------------------------------------------------------------------------
(* A write: whether it succeeds or fails, the entity asks for a refresh.      *)

WriteIsOver(w) ==
    /\ at' = [at EXCEPT ![w] = "idle"] /\ sent' = [sent EXCEPT ![w] = 0]
    /\ applied' = IF sent[w] <= setting /\ sent[w] > applied THEN sent[w] ELSE applied
    /\ RequestRefresh /\ Release
    /\ UNCHANGED <<setting, owed, lost, open, written, shown>>

VersionsLeft == Cardinality({w \in Writers : at[w] = "waiting"}) < MaxVersion + 1 - written

\* Without an active transport nothing happens, without a session write() raises:
\* `connected` is looked at here only, before the lock is waited for.
WriteBegin(w) ==
    /\ at[w] = "idle" /\ active /\ VersionsLeft
    /\ IF session = "up"
       THEN /\ at' = [at EXCEPT ![w] = "waiting"] /\ lock' = Append(lock, w)
            /\ UNCHANGED <<device, written, sent, applied, refresh, shown, debouncer>>
       ELSE /\ RequestRefresh
            /\ UNCHANGED <<device, lock, writes, shown>>
    /\ UNCHANGED <<session, open>>

\* It encrypts with _iv, which a write that has failed leaves in place.
WriteSends(w) ==
    /\ at[w] = "waiting" /\ Owns(w) /\ session # "none"
    /\ written' = written + 1
    /\ sent' = [sent EXCEPT ![w] = written']
    /\ Sends([kind |-> "write", version |-> written'])
    /\ at' = [at EXCEPT ![w] = "ack"]
    /\ UNCHANGED <<setting, inbox, session, open, lock, applied, refresh, shown, debouncer>>

\* Whatever packet comes first is the acknowledgement.
WriteAcked(w) ==
    /\ at[w] = "ack" /\ inbox # <<>>
    /\ inbox' = Tail(inbox)
    /\ WriteIsOver(w) /\ UNCHANGED session

\* No answer, no key, or no stream: TransportError, which the entity swallows.
WriteFails(w) ==
    /\ \/ at[w] = "ack" /\ inbox = <<>>
       \/ at[w] = "waiting" /\ Owns(w) /\ (session = "none" \/ ~open)
    /\ session' = IF session = "up" THEN "kept" ELSE session
    /\ WriteIsOver(w) /\ UNCHANGED inbox

-----------------------------------------------------------------------------
(* The refresh: a poll, of two attempts.                                      *)

PollEnds ==
    /\ poll' = "idle" /\ cooling' \in BOOLEAN
    /\ attempt' = 1 /\ got' = 0 /\ round' = 1
    /\ UNCHANGED again

OneTooMany == attempt = 3
LastAttempt == attempt = 2

\* disconnect(), then the next attempt, or UpdateFailed.
AttemptFails ==
    /\ HangUp
    /\ \/ /\ ~LastAttempt /\ attempt' = attempt + 1 /\ poll' = "begin" /\ got' = 0 /\ round' = 1
          /\ UNCHANGED <<ok, active, debouncer>>
       \/ LastAttempt /\ ok' = FALSE /\ active' = FALSE /\ PollEnds
    /\ UNCHANGED <<setting, writes, data>>

\* read() waits for the lock.
JoinsLock == poll' = "waiting" /\ lock' = Append(lock, Refresher)

\* With a session the poll reads at once; else connect() hangs up first.
PollBegin ==
    /\ poll = "begin"
    /\ \/ session = "up" /\ JoinsLock /\ UNCHANGED <<owed, inbox, lost, session, open>>
       \/ session # "up" /\ HangUp /\ poll' = "connect" /\ UNCHANGED lock
    /\ UNCHANGED <<setting, writes, attempt, got, round, shown, debouncer>>

\* By the time the handshake is done, a write that read the old stream has found
\* it closed (see TcpTransport).
PollConnects ==
    /\ poll = "connect" /\ \A w \in Writers : at[w] # "ack"
    /\ session' = "up" /\ open' = TRUE /\ JoinsLock
    /\ UNCHANGED <<device, writes, attempt, got, round, shown, debouncer>>

ConnectFails == poll = "connect" /\ AttemptFails /\ UNCHANGED lock

\* An exception that is no TransportError ends the poll without another attempt,
\* and leaves the active transport what it was.
ConnectEscapes ==
    /\ poll = "connect" /\ ok' = FALSE /\ PollEnds
    /\ UNCHANGED <<device, session, open, lock, writes, data, active>>

\* Nor does read() look at the session again once it has the lock.
ReadSends ==
    /\ poll = "waiting" /\ Owns(Refresher)
    /\ Sends([kind |-> "read", version |-> 0])
    /\ poll' = "collect"
    /\ UNCHANGED <<setting, inbox, session, open, lock, writes, attempt, got, round, shown, debouncer>>

KeepsOld(v) == data' = IF v = 0 THEN data ELSE v
Replaces(v) == data' = v

\* The read returns what it has, which replaces the coordinator's data; if it
\* has nothing, it first asks again.
CollectEnds ==
    \/ /\ got = 0 /\ round = 1 /\ round' = 2
       /\ Sends([kind |-> "read", version |-> 0])
       /\ UNCHANGED <<lock, poll, attempt, got, shown, debouncer>>
    \/ /\ got # 0 \/ round = 2
       /\ Replaces(got) /\ ok' = TRUE /\ active' = TRUE
       /\ Release /\ PollEnds
       /\ UNCHANGED <<owed, lost>>

CollectTimeout ==
    /\ poll = "collect" /\ inbox = <<>> /\ CollectEnds
    /\ UNCHANGED <<setting, inbox, session, open, writes>>

\* A packet that is no status is passed over, or ends the collection.
CollectPacket ==
    /\ poll = "collect" /\ inbox # <<>>
    /\ inbox' = Tail(inbox)
    /\ \/ /\ Head(inbox).kind = "status" /\ got' = Head(inbox).version
          /\ UNCHANGED <<owed, lost, lock, poll, attempt, round, shown, debouncer>>
       \/ /\ Head(inbox).kind = "ack"
          /\ CollectEnds \/ UNCHANGED <<owed, lost, lock, refresh, shown, debouncer>>
    /\ UNCHANGED <<setting, session, open, writes>>

\* The stream has ended, or a packet cannot be decoded.
ReadFails ==
    /\ \/ poll = "collect" /\ (inbox # <<>> \/ ~open)
       \/ poll = "waiting" /\ Owns(Refresher) /\ ~open
    /\ Release /\ AttemptFails

-----------------------------------------------------------------------------
(* External: the device takes requests in order.  It may stay silent, and the *)
(* connection may go, which the transport learns when it uses it.             *)

Answer ==
    /\ owed # <<>> /\ owed' = Tail(owed) /\ Len(inbox) < MaxInbox
    /\ LET request == Head(owed) IN
        /\ setting' = IF request.kind = "write" THEN request.version ELSE setting
        /\ inbox' = Append(inbox, [kind |-> IF request.kind = "write" THEN "ack" ELSE "status",
                                   version |-> setting'])
    /\ UNCHANGED <<lost, session, open, lock, writes, refresh, shown, debouncer>>

NeverAnswers ==
    /\ owed # <<>> /\ owed' = Tail(owed)
    /\ setting' \in {setting} \cup {v \in {Head(owed).version} : v # 0}
    /\ lost' = (lost \/ Head(owed).kind = "read")
    /\ UNCHANGED <<inbox, session, open, lock, writes, refresh, shown, debouncer>>

PeerCloses ==
    /\ open /\ open' = FALSE
    /\ owed' = <<>> /\ inbox' \in {inbox, <<>>}
    /\ UNCHANGED <<setting, lost, session, lock, writes, refresh, shown, debouncer>>

WriteStep(w) == WriteSends(w) \/ WriteAcked(w) \/ WriteFails(w)
PollStep ==
    \/ PollBegin \/ PollConnects \/ ConnectFails \/ ConnectEscapes
    \/ ReadSends \/ CollectTimeout \/ CollectPacket \/ ReadFails

Next ==
    \/ Scheduled \/ CooldownEnds \/ PollStep
    \/ Answer \/ NeverAnswers \/ PeerCloses
    \/ \E w \in Writers : WriteBegin(w) \/ WriteStep(w)

Spec == Init /\ [][Next]_vars

\* The loop runs what is ready, and its timers fire: those of packets, of the
\* schedule and of the debouncer.  Nothing is assumed of the device.
FairSpec ==
    /\ Spec
    /\ WF_vars(PollStep) /\ WF_vars(Scheduled) /\ WF_vars(CooldownEnds)
    /\ \A w \in Writers : WF_vars(WriteStep(w))

-----------------------------------------------------------------------------
(* Properties.                                                                *)

Versions == 1 .. MaxVersion + 1
Packet == [kind : {"ack", "status"}, version : Versions]
Request == [kind : {"read", "write"}, version : Versions \cup {0}]

\* The state of tasks, debouncer and device keeps its type.
TypeOK ==
    /\ setting \in Versions /\ written \in Versions /\ applied \in Versions
    /\ owed \in Seq(Request) /\ inbox \in Seq(Packet)
    /\ session \in {"up", "kept", "none"}
    /\ {open, ok, active, cooling, again, lost} \subseteq BOOLEAN
    /\ lock \in Seq(Writers \cup {Refresher})
    /\ at \in [Writers -> {"idle", "waiting", "ack"}] /\ sent \in [Writers -> Versions \cup {0}]
    /\ poll \in {"idle", "begin", "connect", "waiting", "collect"} /\ attempt \in {1, 2}
    /\ got \in Versions \cup {0} /\ round \in {1, 2} /\ data \in Versions \cup {0}

\* Nothing is under way, the stream has not gone, though its session may have with
\* a write that failed, and whatever the device was asked on it has been answered,
\* in time or late.
Quiet ==
    /\ poll = "idle" /\ ~again /\ open /\ owed = <<>> /\ inbox = <<>> /\ ~lost
    /\ \A w \in Writers : at[w] = "idle"

\* The refresh that a write asks for is dropped when one is running, and put off
\* during the cooldown; late answers are taken for acknowledgements, and for the
\* answers to later reads.  Even so, when all is quiet the entities show no state
\* from before a write that the device has taken: a refresh that was running has
\* waited for the lock behind the write, has read even if that write has dropped
\* the session, and late answers come in order.
QuietIsFresh == Quiet => data >= applied

\* What a write has set is shown in the end, also when it has failed towards Home
\* Assistant, unless the device cannot be read: no data, or no transport.
WritesShow ==
    \A v \in Versions : applied >= v ~> (data >= v \/ data = 0 \/ ~ok)
=============================================================================
