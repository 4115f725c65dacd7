------------------------- MODULE BleTransport_proof -------------------------
(* Proofs about BleTransport, for any set of writers, any number of clients  *)
(* and any bound on the indications: its types, what keeps the tasks that    *)
(* share it without a lock out of each other's way as long as the entry is   *)
(* loaded, and that its steps are Coordinator's or invisible to it.          *)
EXTENDS BleImplementsCoordinator, TLAPS

USE BleConstantsAssumption DEF Tasks, session, locals, outcome, device

\* Where tasks can be, and that a write under way has its client.
Places ==
    /\ pc[Unload] \in {"setup", "idle", "hangU", "done"}
    /\ pc[Poll] \notin {"setup", "hangU", "write", "done"}
    /\ \A w \in Writers : pc[w] \in {"idle", "write"} /\ (pc[w] = "write" => on[w] \in Clients)

\* A connect() in progress has no session yet, and what writes were under way
\* when it began are not on the client it dials.
NoSessionYet == pc[Poll] \in {"hangC", "hangF"} \cup Connecting \cup Handshake => ~encrypted
WritesElsewhere == pc[Poll] \in Connecting \cup Handshake =>
    \A w \in Writers : pc[w] = "write" => on[w] # client

\* While the entry is loaded, only the poll changes the client it works with.
WorksOnClient == StaysLoaded /\ pc[Poll] \in Awaiting \ Collecting => on[Poll] = client

\* What was collected is dropped with the frame that collected it.
CollectsForOne == pc[Poll] \notin Collecting => acc = {}

\* After the draining, random strings come from the client that is dialled, or
\* from one whose hang-up failed.
RandomIsCurrent == StaysLoaded =>
    /\ pc[Poll] \in {"askIv", "iv"} =>
         \A i \in queue \cup acc : i.kind = "iv" => i.from \in {client} \cup orphans
    /\ pc[Poll] \in {"askLogin", "login"} => random \in {client} \cup orphans

\* What makes the safety properties inductive.
BleInv ==
    /\ Places /\ NoSessionYet /\ WritesElsewhere /\ WorksOnClient /\ CollectsForOne
    /\ RandomIsCurrent /\ ReadsWithKey
    /\ KeyFitsClient /\ NoOrphanLink

-----------------------------------------------------------------------------
(* The types.                                                                *)

\* The places of the poll.
PollPlace == (Awaiting \ {"hangU", "write"}) \cup {"idle", "begin", "read", "failed"}

\* Whoever waits for a GATT write has a client to write to.
SendsToClient == \A t \in Tasks : pc[t] \in Sending => on[t] \in Clients

\* A task that moves keeps the types of places and of what is awaited.
LEMMA MoveType ==
    ASSUME TypeOK, NEW t \in Tasks, NEW p \in PollPlace \cup {"hangU", "write", "done"},
           NEW c \in Clients \cup {None}, GoTo(t, p, c)
    PROVE  /\ pc' \in [Tasks -> Awaiting \cup {"setup", "idle", "begin", "read", "failed", "done"}]
           /\ on' \in [Tasks -> Clients \cup {None}]
           /\ pc'[t] = p /\ on'[t] = c
           /\ \A u \in Tasks : u # t => pc'[u] = pc[u] /\ on'[u] = on[u]
  <1>1. p \in Awaiting \cup {"setup", "idle", "begin", "read", "failed", "done"}
    BY DEF PollPlace, Awaiting, HangingUp, Sending
  <1> QED BY <1>1 DEF GoTo, TypeOK

\* Hanging up keeps types: the task waits for the client, or goes on without one.
LEMMA HangUpType ==
    ASSUME TypeOK, NEW t \in Tasks, NEW p \in HangingUp, HangUp(t, p)
    PROVE  /\ pc' \in [Tasks -> Awaiting \cup {"setup", "idle", "begin", "read", "failed", "done"}]
           /\ on' \in [Tasks -> Clients \cup {None}]
           /\ running' \in Tasks \cup {None}
           /\ pc'[t] = p /\ on'[t] = client
           /\ \A u \in Tasks : u # t => pc'[u] = pc[u] /\ on'[u] = on[u]
           /\ ~encrypted' /\ iv' = None
           /\ UNCHANGED <<client, queue, outcome, device>>
  <1>1. GoTo(t, p, client) /\ running' \in {t, None}
    BY DEF HangUp, Continue, Await
  <1>2. client \in Clients \cup {None} /\ p \in PollPlace \cup {"hangU", "write", "done"}
    BY DEF TypeOK, PollPlace, Awaiting, HangingUp
  <1> QED BY <1>1, <1>2, MoveType DEF HangUp, DropSession

\* A step that moves the task t, or nobody.
Moves(t) ==
    \/ \E p \in PollPlace \cup {"hangU", "write", "done"}, c \in Clients \cup {None} :
        GoTo(t, p, c) /\ (p \in Sending => c # None)
    \/ UNCHANGED <<pc, on>>

\* Where the poll's steps lead.
LEMMA PollMoves ==
    ASSUME TypeOK, PollStart \/ (PollStep /\ ~ReadReturns) \/ Collect \/ Cancel
    PROVE  Moves(Poll) /\ running' \in Tasks \cup {None}
  <1>1. ASSUME NEW p \in PollPlace, NEW c \in Clients \cup {None},
               GoTo(Poll, p, c), p \in Sending => c # None, running' \in {None, Poll}
        PROVE  Moves(Poll) /\ running' \in Tasks \cup {None}
    BY <1>1 DEF Moves
  <1>2. None \in Clients \cup {None} /\ client \in Clients \cup {None}
    BY DEF TypeOK
  <1>3. ASSUME NEW p \in {"hangC", "hangF", "hangE"}, HangUp(Poll, p)
        PROVE  Moves(Poll) /\ running' \in Tasks \cup {None}
    <2>1. GoTo(Poll, p, client) /\ running' \in {None, Poll}
      BY <1>3 DEF HangUp, Continue, Await
    <2>2. p \in PollPlace \ Sending
      BY DEF PollPlace, Awaiting, HangingUp, Sending
    <2> QED BY <1>1, <1>2, <2>1, <2>2
  <1>4. CASE PollBegin \/ ConnectFails \/ HandshakeFails \/ AttemptFails
    <2>1. CASE PollBegin /\ Connected
      BY <1>1, <1>2, <2>1 DEF PollBegin, Continue, PollPlace, Sending
    <2> QED BY <1>3, <1>4, <2>1 DEF PollBegin, ConnectFails, HandshakeFails, AttemptFails
  <1>5. CASE Connect
    <2>1. PICK c \in Clients : Await(Poll, "dial", c)
      BY <1>5 DEF Connect
    <2> QED BY <1>1, <2>1 DEF Await, PollPlace, Awaiting, Connecting, Sending
  <1>6. CASE Dialled \/ Paired \/ Subscribed \/ HandshakeIv
    BY <1>1, <1>2, <1>6 DEF Dialled, Paired, Subscribed, HandshakeIv, Asks, Await, Continue, Finish, PollPlace, Awaiting,
                      Connecting, Sending
  <1>7. CASE HandshakeSent \/ HandshakeLogin \/ HandshakeEscapes \/ ConnectRaises \/ ReadSent \/ ReadFails
    BY <1>1, <1>2, <1>7 DEF HandshakeSent, HandshakeLogin, HandshakeEscapes, ConnectRaises, ReadSent, ReadFails,
                      Continue, Await, Finish, PollPlace, Awaiting, Collecting, Sending
  <1>8. CASE ReadBegin \/ AttemptOver \/ PollStart \/ Cancel
    BY <1>1, <1>2, <1>8 DEF ReadBegin, AttemptOver, PollStart, Cancel, Asks, Continue, Await, Finish, PollPlace,
                      Awaiting, Sending
  <1>9. CASE Collect
    BY <1>9 DEF Collect, Moves, TypeOK
  <1> QED BY <1>4, <1>5, <1>6, <1>7, <1>8, <1>9 DEF PollStep

\* Where the other steps lead.
LEMMA OtherMoves ==
    ASSUME TypeOK,
           \/ \E w \in Writers : WriteBegin(w) \/ WriteEnds(w)
           \/ UnloadBegin \/ UnloadOver \/ (\E r \in owed : Indicate(r)) \/ (\E c \in Clients : LinkDrops(c))
    PROVE  (\E t \in Tasks : Moves(t)) /\ running' \in Tasks \cup {None}
  <1>1. ASSUME NEW t \in Tasks, NEW p \in PollPlace \cup {"hangU", "write", "done"},
               NEW c \in Clients \cup {None}, GoTo(t, p, c), p \in Sending => c # None, running' \in {None, t}
        PROVE  Moves(t) /\ running' \in Tasks \cup {None}
    BY <1>1 DEF Moves
  <1>2. None \in Clients \cup {None} /\ client \in Clients \cup {None} /\ "idle" \in PollPlace
    BY DEF TypeOK, PollPlace
  <1>3. ASSUME NEW w \in Writers, WriteBegin(w) \/ WriteEnds(w)
        PROVE  Moves(w) /\ running' \in Tasks \cup {None}
    BY <1>1, <1>2, <1>3 DEF WriteBegin, WriteEnds, Asks, Await, Finish, Sending
  <1>4. CASE UnloadBegin \/ UnloadOver
    BY <1>1, <1>2, <1>4 DEF UnloadBegin, UnloadOver, HangUp, Continue, Await, Finish, Sending
  <1>5. ASSUME (\E r \in owed : Indicate(r)) \/ (\E c \in Clients : LinkDrops(c))
        PROVE  Moves(Poll) /\ running' \in Tasks \cup {None}
    BY <1>5 DEF Indicate, LinkDrops, Moves, TypeOK
  <1> QED BY <1>3, <1>4, <1>5

\* What a step does to the session, to what was collected and to the device.
LEMMA DataType ==
    ASSUME TypeOK, SendsToClient, Next
    PROVE  /\ {client', iv', random'} \subseteq Clients \cup {None} /\ encrypted' \in BOOLEAN
           /\ queue' \subseteq Indication /\ acc' \subseteq Indication
           /\ attempt' \in {1, 2} /\ active' \in BOOLEAN
           /\ result' \in {"none", "ok", "failed", "escaped", "cancelled"}
           /\ radio' \in [Clients -> {"off", "linked", "notifying"}] /\ owed' \subseteq Answer /\ orphans' \subseteq Clients
  <1> DEFINE Session == {client', iv'} \subseteq Clients \cup {None} /\ encrypted' \in BOOLEAN
             Locals == random' \in Clients \cup {None} /\ acc' \subseteq Indication /\ attempt' \in {1, 2}
             Ends == active' \in BOOLEAN /\ result' \in {"none", "ok", "failed", "escaped", "cancelled"}
             Device == radio' \in [Clients -> {"off", "linked", "notifying"}] /\ owed' \subseteq Answer /\ orphans' \subseteq Clients
             Queue == queue' \subseteq Indication
  <1>1. /\ UNCHANGED session => Session
        /\ UNCHANGED locals => Locals
        /\ UNCHANGED outcome => Ends
        /\ UNCHANGED device => Device
        /\ queue' \in {queue, {}} => Queue
        /\ Forget => Locals
    BY DEF TypeOK, Forget
  <1>2. ASSUME NEW t, NEW p, HangUp(t, p) PROVE Session /\ Ends /\ Device /\ Queue
    BY <1>2 DEF HangUp, DropSession, TypeOK
  <1>3. ASSUME NEW t, NEW p, HungUp(t, p) PROVE Device /\ Queue /\ iv' = iv /\ encrypted' = encrypted
    BY <1>3 DEF HungUp, LinkEnds, LinkStays, TypeOK
  <1>4. ASSUME NEW t \in Tasks, NEW kind \in Kinds, NEW p \in Sending, Sent(t, p, kind) PROVE Device
    <2>1. on[t] \in Clients
      BY <1>4 DEF Sent, Runs, SendsToClient
    <2> QED BY <1>4, <2>1 DEF Sent, Requests, Answer, TypeOK
  <1> SUFFICES Session /\ Locals /\ Ends /\ Device /\ Queue
    OBVIOUS
  <1> HIDE DEF Session, Locals, Ends, Device, Queue
  <1>5. CASE PollStart \/ PollBegin \/ Connect \/ Dialled
    <2>1. CASE PollStart
      <3>1. Session /\ Device /\ Queue
        BY <1>1, <2>1 DEF PollStart
      <3> QED BY <2>1, <3>1 DEF PollStart, TypeOK, Locals, Ends
    <2>2. CASE PollBegin
      <3>1. CASE Connected
        BY <1>1, <2>2, <3>1 DEF PollBegin
      <3>2. CASE ~Connected
        <4>1. HangUp(Poll, "hangC") /\ UNCHANGED locals
          BY <2>2, <3>2 DEF PollBegin
        <4> QED BY <1>1, <1>2, <4>1
      <3> QED BY <3>1, <3>2
    <2>3. CASE Connect
      <3>1. PICK c \in Clients : client' = c
        BY <2>3 DEF Connect
      <3>2. Device /\ Queue /\ iv' = iv /\ encrypted' = encrypted
        BY <1>3, <2>3 DEF Connect
      <3>3. Locals /\ Ends
        BY <1>1, <2>3 DEF Connect
      <3>4. Session
        BY <3>1, <3>2 DEF Session, TypeOK
      <3> QED BY <3>2, <3>3, <3>4
    <2>4. CASE Dialled
      <3>1. Session /\ Locals /\ Ends /\ Queue
        BY <1>1, <2>4 DEF Dialled
      <3> QED BY <2>4, <3>1 DEF Dialled, TypeOK, Device
    <2> QED BY <1>5, <2>1, <2>2, <2>3, <2>4
  <1>6. CASE Paired \/ ConnectFails \/ HandshakeSent \/ Collect
    <2>1. CASE Paired
      BY <1>1, <2>1 DEF Paired
    <2>2. CASE ConnectFails
      <3>1. HangUp(Poll, "hangF") /\ UNCHANGED locals
        BY <2>2 DEF ConnectFails
      <3> QED BY <1>1, <1>2, <3>1
    <2>3. CASE HandshakeSent
      <3>1. Session /\ Locals /\ Ends /\ Queue
        BY <1>1, <2>3 DEF HandshakeSent
      <3>2. Sent(Poll, "askIv", "iv") \/ Sent(Poll, "askLogin", "result")
        BY <2>3 DEF HandshakeSent
      <3> QED BY <1>4, <3>1, <3>2 DEF Sending, Kinds
    <2>4. CASE Collect
      <3>1. Session /\ Ends /\ Device
        BY <1>1, <2>4 DEF Collect
      <3> QED BY <2>4, <3>1 DEF Collect, TypeOK, Locals, Queue
    <2> QED BY <1>6, <2>1, <2>2, <2>3, <2>4
  <1>7. CASE Subscribed
    <2>1. Session /\ Locals /\ Queue
      BY <1>1, <1>7 DEF Subscribed, Drain
    <2> QED BY <1>7, <2>1 DEF Subscribed, TypeOK, Ends, Device
  <1>8. CASE HandshakeIv \/ HandshakeLogin \/ HandshakeFails \/ HandshakeEscapes
    <2>1. CASE HandshakeIv
      <3>1. PICK i \in acc : random' = i.from
        BY <2>1 DEF HandshakeIv
      <3>2. i.from \in Clients \cup {None}
        BY DEF TypeOK, Indication
      <3>3. Session /\ Ends /\ Device /\ Queue
        BY <1>1, <2>1 DEF HandshakeIv
      <3> QED BY <2>1, <3>1, <3>2, <3>3 DEF HandshakeIv, TypeOK, Locals
    <2>2. CASE HandshakeLogin
      <3>1. Ends /\ Device /\ Queue
        BY <1>1, <2>2 DEF HandshakeLogin
      <3> QED BY <2>2, <3>1 DEF HandshakeLogin, TakeKey, TypeOK, Session, Locals
    <2>3. CASE HandshakeFails
      <3>1. HangUp(Poll, "hangF") /\ Forget
        BY <2>3 DEF HandshakeFails
      <3> QED BY <1>1, <1>2, <3>1
    <2>4. CASE HandshakeEscapes
      <3>1. Session /\ Locals /\ Device /\ Queue
        BY <1>1, <2>4 DEF HandshakeEscapes
      <3> QED BY <2>4, <3>1 DEF HandshakeEscapes, TypeOK, Ends
    <2> QED BY <1>8, <2>1, <2>2, <2>3, <2>4
  <1>9. CASE ConnectRaises \/ AttemptOver
    <2>1. Device /\ Queue /\ client' = None /\ iv' = iv /\ encrypted' = encrypted
      BY <1>3, <1>9 DEF ConnectRaises, AttemptOver, LetGo
    <2>2. Session
      BY <2>1 DEF TypeOK, Session
    <2>3. CASE ConnectRaises
      BY <1>1, <2>1, <2>2, <2>3 DEF ConnectRaises
    <2>4. CASE AttemptOver
      <3>1. attempt' \in {1, 2}
        BY <2>4 DEF AttemptOver, LastAttempt, NextAttempt, TypeOK
      <3>2. Locals
        BY <2>4, <3>1 DEF AttemptOver, TypeOK, Locals
      <3>3. Ends
        BY <1>1, <2>4 DEF AttemptOver, TypeOK, Ends
      <3> QED BY <2>1, <2>2, <3>2, <3>3
    <2> QED BY <1>9, <2>1, <2>2, <2>3, <2>4
  <1>10. CASE ReadBegin \/ ReadSent \/ ReadFails \/ ReadReturns
    <2>1. CASE ReadBegin
      BY <1>1, <2>1 DEF ReadBegin, Drain
    <2>2. CASE ReadSent
      <3>1. Session /\ Locals /\ Ends /\ Queue
        BY <1>1, <2>2 DEF ReadSent
      <3>2. Sent(Poll, "ask", "other")
        BY <2>2 DEF ReadSent
      <3> QED BY <1>4, <3>1, <3>2 DEF Sending, Kinds
    <2>3. CASE ReadFails
      <3>1. Locals /\ Ends /\ Device /\ Queue
        BY <1>1, <2>3 DEF ReadFails
      <3> QED BY <2>3, <3>1 DEF ReadFails, TypeOK, Session
    <2>4. CASE ReadReturns
      <3>1. Session /\ Locals /\ Device /\ Queue
        BY <1>1, <2>4 DEF ReadReturns
      <3> QED BY <2>4, <3>1 DEF ReadReturns, TypeOK, Ends
    <2> QED BY <1>10, <2>1, <2>2, <2>3, <2>4
  <1>11. CASE AttemptFails \/ UnloadBegin
    <2>1. ASSUME NEW t, NEW p, HangUp(t, p), UNCHANGED locals PROVE Session /\ Locals /\ Ends /\ Device /\ Queue
      BY <1>1, <1>2, <2>1
    <2>2. CASE UnloadBegin /\ ~active
      BY <1>1, <2>2 DEF UnloadBegin
    <2> QED BY <1>11, <2>1, <2>2 DEF AttemptFails, UnloadBegin
  <1>12. CASE UnloadOver
    <2>1. Device /\ Queue /\ client' = None /\ iv' = iv /\ encrypted' = encrypted
      BY <1>3, <1>12 DEF UnloadOver, LetGo
    <2>2. Session
      BY <2>1 DEF TypeOK, Session
    <2>3. Locals /\ Ends
      BY <1>1, <1>12 DEF UnloadOver
    <2> QED BY <2>1, <2>2, <2>3
  <1>13. CASE Cancel
    <2>1. Session /\ Locals /\ Device /\ Queue
      BY <1>1, <1>13 DEF Cancel
    <2> QED BY <1>13, <2>1 DEF Cancel, TypeOK, Ends
  <1>14. ASSUME NEW w \in Writers, WriteBegin(w) \/ WriteEnds(w)
         PROVE  Session /\ Locals /\ Ends /\ Device /\ Queue
    <2>1. Session /\ Locals /\ Ends /\ Queue
      BY <1>1, <1>14 DEF WriteBegin, WriteEnds
    <2>2. CASE WriteBegin(w) \/ Raised(w, "write")
      BY <1>1, <2>1, <2>2 DEF WriteBegin, Raised
    <2>3. CASE Sent(w, "write", "other")
      <3>1. Device
        BY <1>4, <2>3 DEF Sending, Kinds
      <3> QED BY <2>1, <3>1
    <2> QED BY <1>14, <2>2, <2>3 DEF WriteEnds
  <1>15. ASSUME NEW r \in owed, Indicate(r) PROVE Session /\ Locals /\ Ends /\ Device /\ Queue
    <2>1. Session /\ Locals /\ Ends
      BY <1>1, <1>15 DEF Indicate
    <2>2. r.to \in Clients /\ r.kind \in Kinds
      BY DEF TypeOK, Answer
    <2>3. PICK kind \in {r.kind, "other"} :
            queue' = queue \cup {[kind |-> kind, from |-> IF kind = "iv" THEN r.to ELSE None]}
      BY <1>15 DEF Indicate
    <2>4. kind \in Kinds
      BY <2>2, <2>3 DEF Kinds
    <2>5. [kind |-> kind, from |-> IF kind = "iv" THEN r.to ELSE None] \in Indication
      BY <2>2, <2>4 DEF Indication
    <2>6. Queue
      BY <2>3, <2>5 DEF TypeOK, Queue
    <2>7. Device
      BY <1>15 DEF Indicate, TypeOK, Device
    <2> QED BY <2>1, <2>6, <2>7
  <1>16. ASSUME NEW c \in Clients, LinkDrops(c) PROVE Session /\ Locals /\ Ends /\ Device /\ Queue
    <2>1. Session /\ Locals /\ Ends /\ Queue
      BY <1>1, <1>16 DEF LinkDrops
    <2> QED BY <1>16, <2>1 DEF LinkDrops, LinkEnds, TypeOK, Device
  <1> QED BY <1>5, <1>6, <1>7, <1>8, <1>9, <1>10, <1>11, <1>12, <1>13, <1>14, <1>15, <1>16 DEF Next, PollStep

\* The types are inductive, with that a GATT write has a client.
LEMMA TypeStep ==
    ASSUME TypeOK, SendsToClient, [Next]_vars
    PROVE  TypeOK' /\ SendsToClient'
  <1>1. CASE UNCHANGED vars
    BY <1>1 DEF vars, TypeOK, SendsToClient
  <1>2. ASSUME NEW t \in Tasks, Moves(t), running' \in Tasks \cup {None}, Next PROVE TypeOK' /\ SendsToClient'
    <2>1. /\ pc' \in [Tasks -> Awaiting \cup {"setup", "idle", "begin", "read", "failed", "done"}]
          /\ on' \in [Tasks -> Clients \cup {None}] /\ SendsToClient'
      <3>1. CASE UNCHANGED <<pc, on>>
        BY <3>1 DEF TypeOK, SendsToClient
      <3>2. ASSUME NEW p \in PollPlace \cup {"hangU", "write", "done"}, NEW c \in Clients \cup {None},
                   GoTo(t, p, c), p \in Sending => c # None
            PROVE  /\ pc' \in [Tasks -> Awaiting \cup {"setup", "idle", "begin", "read", "failed", "done"}]
                   /\ on' \in [Tasks -> Clients \cup {None}] /\ SendsToClient'
        BY <3>2, MoveType, ZenonT(60) DEF SendsToClient
      <3> QED BY <1>2, <3>1, <3>2 DEF Moves
    <2> QED BY <1>2, <2>1, DataType DEF TypeOK
  <1>3. CASE ReadReturns
    <2>1. /\ pc' \in [Tasks -> Awaiting \cup {"setup", "idle", "begin", "read", "failed", "done"}]
          /\ on' = on /\ running' = None /\ \A u \in Tasks : pc'[u] \in {pc[u], "idle"}
      BY <1>3 DEF ReadReturns, TypeOK
    <2>2. SendsToClient'
      BY <2>1 DEF SendsToClient, Sending
    <2> QED BY <1>3, <2>1, <2>2, DataType DEF TypeOK, Next, PollStep
  <1> QED BY <1>1, <1>2, <1>3, PollMoves, OtherMoves DEF Next

-----------------------------------------------------------------------------
(* The safety invariant.                                                     *)

\* A step of the poll, which leaves the others where they are.
PollGoes(p, c) ==
    /\ pc'[Poll] = p /\ on'[Poll] = c
    /\ \A u \in Tasks : u # Poll => pc'[u] = pc[u] /\ on'[u] = on[u]

\* A poll that goes to p is at p.
LEMMA PollWent ==
    ASSUME TypeOK, NEW p, NEW c, GoTo(Poll, p, c)
    PROVE  PollGoes(p, c)
  BY DEF GoTo, TypeOK, PollGoes

\* Hanging up ends the session, and waits for the client the transport holds.
LEMMA HangingUpKeeps ==
    ASSUME TypeOK, BleInv, NEW p \in {"hangC", "hangF", "hangE"}, HangUp(Poll, p), acc' = {} \/ (acc' = acc /\ acc = {})
    PROVE  BleInv'
  <1>1. PollGoes(p, client) /\ ~encrypted' /\ iv' = None /\ UNCHANGED <<client, queue, outcome, device>>
    BY PollWent DEF HangUp, Continue, Await, DropSession
  <1>2. p \notin Connecting \cup Handshake \cup Collecting \cup {"ask"} /\ p \in Awaiting /\ acc' = {}
    BY DEF Connecting, Handshake, Collecting, Awaiting, HangingUp
  <1>3. Places'
    BY <1>1 DEF BleInv, Places, PollGoes, BleConstantsAssumption
  <1>4. NoSessionYet' /\ WritesElsewhere' /\ CollectsForOne' /\ RandomIsCurrent' /\ ReadsWithKey' /\ KeyFitsClient'
    BY <1>1, <1>2 DEF NoSessionYet, WritesElsewhere, CollectsForOne, RandomIsCurrent, ReadsWithKey, KeyFitsClient,
                      Connected, PollGoes, Handshake, Collecting
  <1>5. WorksOnClient'
    BY <1>1 DEF WorksOnClient, PollGoes
  <1>6. NoOrphanLink'
    BY <1>1 DEF BleInv, NoOrphanLink, Alive, StaysLoaded, PollGoes, BleConstantsAssumption
  <1> QED BY <1>3, <1>4, <1>5, <1>6 DEF BleInv

\* When a hang-up is over, no link is left but those whose hang-up failed, and
\* those of an entry that goes.
LEMMA LinksEnd ==
    ASSUME TypeOK, BleInv, NEW p \in {"hangC", "hangF", "hangE"}, HungUp(Poll, p)
    PROVE  /\ iv' = iv /\ encrypted' = encrypted /\ queue' = queue /\ pc[Poll] = p
           /\ orphans \subseteq orphans'
           /\ StaysLoaded => \A c \in Clients : Alive(c)' => c \in orphans'
  <1>1. StaysLoaded => on[Poll] = client
    BY DEF HungUp, Runs, BleInv, WorksOnClient, Awaiting, HangingUp, Collecting
  <1> QED BY <1>1 DEF HungUp, Runs, LinkEnds, LinkStays, BleInv, NoOrphanLink, Alive

\* The steps of connect().
LEMMA ConnectKeeps ==
    ASSUME TypeOK, BleInv, Connect
    PROVE  BleInv'
  <1>1. PICK c \in Clients : Fresh(c) /\ client' = c /\ PollGoes("dial", c)
    BY PollWent DEF Connect, Await
  <1>2. /\ iv' = iv /\ encrypted' = encrypted /\ queue' = queue /\ pc[Poll] = "hangC"
        /\ StaysLoaded => \A d \in Clients : Alive(d)' => d \in orphans'
    BY LinksEnd DEF Connect
  <1>3. UNCHANGED <<acc, random, result>> /\ ~encrypted /\ acc = {}
    BY <1>2 DEF Connect, BleInv, NoSessionYet, CollectsForOne, Collecting
  <1>4. Places'
    BY <1>1, <1>3 DEF BleInv, Places, PollGoes, BleConstantsAssumption
  <1>5. NoSessionYet' /\ CollectsForOne' /\ RandomIsCurrent' /\ ReadsWithKey' /\ KeyFitsClient'
    BY <1>1, <1>2, <1>3 DEF NoSessionYet, CollectsForOne, RandomIsCurrent, ReadsWithKey, KeyFitsClient,
                            Connected, PollGoes
  <1>6. WritesElsewhere'
    BY <1>1 DEF WritesElsewhere, PollGoes, Fresh, BleConstantsAssumption
  <1>7. WorksOnClient' /\ NoOrphanLink'
    BY <1>1, <1>2 DEF WorksOnClient, NoOrphanLink, StaysLoaded, PollGoes, BleConstantsAssumption
  <1> QED BY <1>4, <1>5, <1>6, <1>7 DEF BleInv

\* A step of the poll that changes no client, begins no session, and brings up
\* no link but that of the client it works on.
Steady ==
    /\ client' = client /\ encrypted' \in {encrypted, FALSE} /\ iv' = iv /\ orphans' = orphans
    /\ \A c \in Clients : Alive(c)' => Alive(c) \/ (c = on[Poll] /\ pc[Poll] \in Connecting)
    /\ UNCHANGED random

\* Such a step keeps the invariant, wherever the poll goes on.
LEMMA SteadyKeeps ==
    ASSUME TypeOK, BleInv, NEW p, NEW c \in {None, client}, PollGoes(p, c), Steady,
           \/ p \in {"pair", "subscribe", "askIv"} /\ pc[Poll] \in Connecting
           \/ p = "iv" /\ pc[Poll] = "askIv"
           \/ p = "login" /\ pc[Poll] = "askLogin"
           \/ p \in {"read", "failed", "idle"}
           \/ p = "ask" /\ Connected
           \/ p = "collect" /\ pc[Poll] = "ask",
           p \notin Collecting => c = client \/ p \notin Awaiting,
           p = "askIv" => queue' = {},
           queue' \subseteq queue, acc' = acc, acc = {}
    PROVE  BleInv'
  <1> USE DEF BleInv
  <1>1. Places'
    BY DEF Places, PollGoes, BleConstantsAssumption
  <1>2. NoSessionYet' /\ WritesElsewhere'
    <2>1. p \in {"hangC", "hangF"} \cup Connecting \cup Handshake => pc[Poll] \in Connecting \cup Handshake
      BY DEF Connecting, Handshake
    <2>2. NoSessionYet'
      BY <2>1 DEF NoSessionYet, Steady, PollGoes
    <2>3. \A w \in Writers : pc'[w] = pc[w] /\ on'[w] = on[w]
      BY DEF PollGoes, BleConstantsAssumption
    <2> QED BY <2>1, <2>2, <2>3 DEF WritesElsewhere, Steady, PollGoes
  <1>3. WorksOnClient' /\ CollectsForOne'
    BY DEF WorksOnClient, CollectsForOne, Steady, PollGoes, StaysLoaded, BleConstantsAssumption
  <1>4. RandomIsCurrent'
    BY DEF RandomIsCurrent, Steady, PollGoes, StaysLoaded, BleConstantsAssumption
  <1>5. ReadsWithKey' /\ KeyFitsClient'
    <2>1. StaysLoaded' => StaysLoaded
      BY DEF StaysLoaded, PollGoes, BleConstantsAssumption
    <2>2. Connected' => Connected
      BY DEF Connected, Steady
    <2>3. KeyFitsClient'
      BY <2>1, <2>2 DEF KeyFitsClient, Steady
    <2>4. ASSUME StaysLoaded', p \in {"ask", "collect"} PROVE iv # None
      BY <2>1, <2>4 DEF KeyFitsClient, ReadsWithKey, Connected, Connecting, TypeOK, BleConstantsAssumption
    <2> QED BY <2>3, <2>4 DEF ReadsWithKey, Steady, PollGoes
  <1>6. NoOrphanLink'
    <2>1. StaysLoaded' => StaysLoaded
      BY DEF StaysLoaded, PollGoes, BleConstantsAssumption
    <2>2. StaysLoaded /\ pc[Poll] \in Connecting => on[Poll] = client
      BY DEF WorksOnClient, Awaiting, Connecting, Collecting
    <2> QED BY <2>1, <2>2 DEF NoOrphanLink, Steady
  <1> QED BY <1>1, <1>2, <1>3, <1>4, <1>5, <1>6

\* The poll rests between two operations, with the client it had or with none.
LEMMA RestKeeps ==
    ASSUME TypeOK, BleInv, NEW p \in {"idle", "begin", "read", "failed"}, NEW c, PollGoes(p, c),
           \/ client' = client /\ \A d \in Clients : Alive(d)' => Alive(d)
           \/ client' = None /\ (StaysLoaded => \A d \in Clients : Alive(d)' => d \in orphans'),
           Connected' => \/ Connected /\ iv' = iv /\ client' = client
                         \/ StaysLoaded => iv' \in {client'} \cup orphans',
           orphans \subseteq orphans', acc' = {}
    PROVE  BleInv'
  <1> USE DEF BleInv
  <1>1. pc'[Unload] = pc[Unload] /\ \A w \in Writers : pc'[w] = pc[w] /\ on'[w] = on[w]
    BY DEF PollGoes, BleConstantsAssumption
  <1>2. p \notin {"hangC", "hangF", "ask", "collect", "setup", "hangU", "write", "done"} \cup Connecting \cup Handshake \cup Awaiting
    BY DEF Connecting, Handshake, Awaiting, HangingUp, Collecting, Sending
  <1>3. Places'
    BY <1>1, <1>2 DEF Places, PollGoes
  <1>4. NoSessionYet' /\ WritesElsewhere' /\ WorksOnClient' /\ CollectsForOne' /\ RandomIsCurrent' /\ ReadsWithKey'
    BY <1>2 DEF NoSessionYet, WritesElsewhere, WorksOnClient, CollectsForOne, RandomIsCurrent, ReadsWithKey,
                PollGoes, Handshake
  <1>5. KeyFitsClient' /\ NoOrphanLink'
    BY <1>1 DEF KeyFitsClient, NoOrphanLink, StaysLoaded
  <1> QED BY <1>3, <1>4, <1>5

\* The steps of the poll, but for those that read what was indicated.
LEMMA PollKeeps ==
    ASSUME TypeOK, BleInv,
           \/ PollStart \/ PollBegin \/ Dialled \/ Paired \/ Subscribed \/ ConnectFails \/ HandshakeSent
           \/ HandshakeFails \/ HandshakeEscapes \/ ConnectRaises
           \/ ReadBegin \/ ReadSent \/ ReadFails \/ AttemptFails \/ AttemptOver \/ Cancel
    PROVE  BleInv'
  <1> USE DEF Runs, Raised
  <1>1. pc[Poll] \notin Collecting => acc = {}
    BY DEF BleInv, CollectsForOne
  <1>2. CASE PollStart
    <2>1. PollGoes("begin", None) /\ UNCHANGED <<client, encrypted, iv, acc, radio, orphans>> /\ acc = {}
      BY <1>1, <1>2, PollWent DEF PollStart, Continue, Collecting
    <2> QED BY <2>1, RestKeeps DEF Alive, Connected
  <1>3. ASSUME NEW p \in {"hangC", "hangF", "hangE"}, HangUp(Poll, p),
               acc' = {} \/ (acc' = acc /\ pc[Poll] \notin Collecting)
        PROVE  BleInv'
    BY <1>1, <1>3, HangingUpKeeps
  <1>4. CASE PollBegin
    <2>1. CASE Connected
      <3>1. PollGoes("read", None) /\ UNCHANGED <<client, encrypted, iv, acc, radio, orphans>> /\ acc = {}
        BY <1>1, <1>4, <2>1, PollWent DEF PollBegin, Continue, Collecting
      <3> QED BY <3>1, RestKeeps DEF Alive, Connected
    <2>2. CASE ~Connected
      BY <1>3, <1>4, <2>2 DEF PollBegin, Collecting
    <2> QED BY <2>1, <2>2
  <1>5. CASE ConnectFails \/ HandshakeFails \/ AttemptFails
    BY <1>3, <1>5 DEF ConnectFails, HandshakeFails, AttemptFails, Forget, Collecting
  <1>6. CASE Dialled \/ Paired
    <2>1. PICK p \in {"pair", "subscribe"} : PollGoes(p, client) /\ pc[Poll] \in {"dial", "pair"}
      BY <1>6, PollWent DEF Dialled, Paired, Asks, Await, Continue
    <2>2. Steady
      BY <1>6 DEF Dialled, Paired, Steady, Alive, Connecting, TypeOK
    <2>3. UNCHANGED <<queue, acc>> /\ acc = {}
      BY <1>1, <1>6, <2>1 DEF Dialled, Paired, Collecting
    <2> QED BY <2>1, <2>2, <2>3, SteadyKeeps DEF Connecting
  <1>7. CASE Subscribed
    <2>1. /\ UNCHANGED <<client, encrypted, iv, acc, random, orphans>> /\ queue' = {} /\ acc = {} /\ pc[Poll] \in Connecting
          /\ \A d \in Clients : Alive(d)' => Alive(d)
      BY <1>1, <1>7 DEF Subscribed, Drain, Alive, Connecting, Collecting, TypeOK
    <2>2. CASE Asks(Poll, "askIv") /\ UNCHANGED result
      <3>1. PollGoes("askIv", client) /\ Steady
        BY <2>1, <2>2, PollWent DEF Asks, Await, Steady
      <3> QED BY <2>1, <3>1, SteadyKeeps
    <2>3. CASE Finish(Poll, "idle") /\ result' = "escaped"
      <3>1. PollGoes("idle", None)
        BY <2>3, PollWent DEF Finish, Await
      <3> QED BY <2>1, <2>3, <3>1, RestKeeps DEF Connected
    <2> QED BY <1>7, <2>2, <2>3 DEF Subscribed
  <1>8. CASE HandshakeSent \/ ReadSent
    <2>1. PICK p \in Collecting : PollGoes(p, None) /\ 
              ((p = "iv" /\ pc[Poll] = "askIv") \/ (p = "login" /\ pc[Poll] = "askLogin") \/ (p = "collect" /\ pc[Poll] = "ask"))
      BY <1>8, PollWent DEF HandshakeSent, ReadSent, Sent, Await, Collecting
    <2>2. Steady /\ UNCHANGED <<queue, acc>>
      BY <1>8 DEF HandshakeSent, ReadSent, Sent, Requests, Steady, Alive
    <2>3. acc = {}
      BY <1>1, <2>1 DEF Collecting
    <2> QED BY <2>1, <2>2, <2>3, SteadyKeeps
  <1>9. CASE HandshakeEscapes \/ Cancel
    <2>1. PollGoes("idle", None) /\ UNCHANGED <<client, encrypted, iv, radio, orphans>> /\ acc' = {}
      BY <1>9, PollWent DEF HandshakeEscapes, Cancel, Finish, Await, Forget
    <2> QED BY <2>1, RestKeeps DEF Alive, Connected
  <1>10. CASE ConnectRaises \/ AttemptOver
    <2>1. /\ client' = None /\ (StaysLoaded => \A d \in Clients : Alive(d)' => d \in orphans')
          /\ orphans \subseteq orphans' /\ pc[Poll] \in {"hangF", "hangE"}
      BY <1>10, LinksEnd DEF ConnectRaises, AttemptOver, LetGo
    <2>2. acc' = {} /\ ~Connected'
      BY <1>1, <1>10, <2>1 DEF ConnectRaises, AttemptOver, Collecting, Connected
    <2>3. \E p \in {"failed", "idle", "begin"} : PollGoes(p, None)
      BY <1>10, PollWent DEF ConnectRaises, AttemptOver, Continue, Finish, Await
    <2> QED BY <2>1, <2>2, <2>3, RestKeeps
  <1>11. CASE ReadBegin
    <2>1. UNCHANGED <<client, encrypted, iv, acc, random, radio, orphans>> /\ acc = {} /\ queue' \in {queue, {}}
      BY <1>1, <1>11 DEF ReadBegin, Drain, Collecting
    <2>2. Steady
      BY <2>1 DEF Steady, Alive
    <2>3. (PollGoes("ask", client) /\ Connected) \/ PollGoes("failed", None)
      BY <1>11, PollWent DEF ReadBegin, Asks, Await, Continue
    <2>4. "ask" \notin Collecting /\ "failed" \notin Awaiting
      BY DEF Collecting, Awaiting, HangingUp, Connecting, Sending
    <2> QED BY <2>1, <2>2, <2>3, <2>4, SteadyKeeps
  <1>12. CASE ReadFails
    <2>1. UNCHANGED <<client, iv, radio, orphans>> /\ ~encrypted' /\ acc' = {} /\ PollGoes("failed", None)
      BY <1>12, PollWent DEF ReadFails, Continue, Forget
    <2> QED BY <2>1, RestKeeps DEF Alive, Connected
  <1> QED BY <1>2, <1>4, <1>5, <1>6, <1>7, <1>8, <1>9, <1>10, <1>11, <1>12

\* The steps of the poll that read what was indicated.
LEMMA CollectingKeeps ==
    ASSUME TypeOK, BleInv, Collect \/ HandshakeIv \/ HandshakeLogin \/ ReadReturns
    PROVE  BleInv'
  <1> USE DEF BleInv, Runs
  <1>1. CASE Collect
    <2>1. /\ UNCHANGED <<session, pc, on, random, radio, orphans>> /\ pc[Poll] \in Collecting
          /\ queue' \cup acc' = queue \cup acc
      BY <1>1 DEF Collect
    <2>2. RandomIsCurrent'
      BY <2>1 DEF RandomIsCurrent, StaysLoaded
    <2> QED BY <2>1, <2>2 DEF Places, NoSessionYet, WritesElsewhere, WorksOnClient, CollectsForOne, ReadsWithKey,
                              KeyFitsClient, NoOrphanLink, Connected, StaysLoaded, Alive
  <1>2. CASE HandshakeIv
    <2>1. /\ PollGoes("askLogin", client) /\ UNCHANGED <<session, queue, radio, orphans>> /\ acc' = {}
          /\ pc[Poll] = "iv" /\ \E i \in acc : i.kind = "iv" /\ random' = i.from
      BY <1>2, PollWent DEF HandshakeIv, Asks, Await
    <2>2. pc'[Unload] = pc[Unload] /\ \A w \in Writers : pc'[w] = pc[w] /\ on'[w] = on[w]
      BY <2>1 DEF PollGoes, BleConstantsAssumption
    <2>3. StaysLoaded => random' \in {client} \cup orphans
      BY <2>1 DEF RandomIsCurrent
    <2>4. Places' /\ NoSessionYet' /\ WritesElsewhere' /\ WorksOnClient' /\ CollectsForOne' /\ ReadsWithKey'
      BY <2>1, <2>2 DEF Places, NoSessionYet, WritesElsewhere, WorksOnClient, CollectsForOne, ReadsWithKey,
                        PollGoes, Handshake
    <2>5. RandomIsCurrent'
      BY <2>1, <2>2, <2>3 DEF RandomIsCurrent, PollGoes, StaysLoaded
    <2>6. KeyFitsClient' /\ NoOrphanLink'
      BY <2>1, <2>2 DEF KeyFitsClient, NoOrphanLink, Connected, StaysLoaded, Alive
    <2> QED BY <2>4, <2>5, <2>6
  <1>3. CASE HandshakeLogin
    <2>1. /\ PollGoes("read", None) /\ UNCHANGED <<client, queue, radio, orphans>> /\ acc' = {}
          /\ pc[Poll] = "login" /\ iv' = random
      BY <1>3, PollWent DEF HandshakeLogin, TakeKey, Continue
    <2>2. StaysLoaded => iv' \in {client'} \cup orphans'
      BY <2>1 DEF RandomIsCurrent
    <2> QED BY <2>1, <2>2, RestKeeps DEF Alive
  <1>4. CASE ReadReturns
    <2>1. /\ pc'[Poll] = "idle" /\ acc' = {} /\ UNCHANGED <<session, on, queue, radio, orphans>>
          /\ pc'[Unload] = (IF pc[Unload] = "setup" THEN "idle" ELSE pc[Unload])
          /\ \A w \in Writers : pc'[w] = pc[w]
      BY <1>4 DEF ReadReturns, Forget, TypeOK, BleConstantsAssumption
    <2>2. StaysLoaded' => StaysLoaded
      BY <2>1 DEF StaysLoaded
    <2>3. Places'
      BY <2>1 DEF Places
    <2> QED BY <2>1, <2>2, <2>3 DEF NoSessionYet, WritesElsewhere, WorksOnClient, CollectsForOne, RandomIsCurrent,
              ReadsWithKey, KeyFitsClient, NoOrphanLink, Connected, Alive, Connecting, Handshake, Awaiting, HangingUp,
              Collecting, Sending
  <1> QED BY <1>1, <1>2, <1>3, <1>4

\* The steps of the others.
LEMMA OthersKeep ==
    ASSUME TypeOK, BleInv,
           \/ \E w \in Writers : WriteBegin(w) \/ WriteEnds(w)
           \/ UnloadBegin \/ UnloadOver \/ (\E r \in owed : Indicate(r)) \/ (\E c \in Clients : LinkDrops(c))
    PROVE  BleInv'
  <1> USE DEF BleInv, Runs, Raised
  <1>1. ASSUME NEW w \in Writers, WriteBegin(w) \/ WriteEnds(w) PROVE BleInv'
    <2>1. /\ UNCHANGED <<session, queue, locals, outcome>> /\ UNCHANGED <<radio, orphans>>
          /\ \A u \in Tasks : u # w => pc'[u] = pc[u] /\ on'[u] = on[u]
          /\ \/ pc'[w] = "idle"
             \/ pc'[w] = "write" /\ Connected /\ on'[w] = client
      BY <1>1 DEF WriteBegin, WriteEnds, Sent, Requests, Asks, Await, Finish, GoTo, TypeOK
    <2>2. pc'[Unload] = pc[Unload] /\ pc'[Poll] = pc[Poll] /\ on'[Poll] = on[Poll]
      BY <2>1 DEF BleConstantsAssumption
    <2>3. Places'
      BY <2>1, <2>2 DEF Places, Connected, TypeOK
    <2>4. WritesElsewhere'
      <3>1. ASSUME pc[Poll] \in Connecting \cup Handshake, NEW u \in Writers, pc'[u] = "write" PROVE on'[u] # client
        <4>1. ~Connected
          BY <3>1 DEF NoSessionYet, Connected
        <4> QED BY <2>1, <3>1, <4>1 DEF WritesElsewhere
      <3> QED BY <2>1, <2>2, <3>1 DEF WritesElsewhere
    <2>5. NoSessionYet' /\ WorksOnClient' /\ CollectsForOne' /\ RandomIsCurrent' /\ ReadsWithKey'
      BY <2>1, <2>2 DEF NoSessionYet, WorksOnClient, CollectsForOne, RandomIsCurrent, ReadsWithKey, StaysLoaded
    <2>6. KeyFitsClient' /\ NoOrphanLink'
      BY <2>1, <2>2 DEF KeyFitsClient, NoOrphanLink, StaysLoaded, Connected, Alive
    <2> QED BY <2>3, <2>4, <2>5, <2>6
  <1>2. CASE UnloadBegin \/ UnloadOver
    <2>1. /\ \A u \in Tasks : u # Unload => pc'[u] = pc[u] /\ on'[u] = on[u]
          /\ pc'[Unload] \in {"hangU", "done"}
          /\ client' \in {client, None} /\ encrypted' \in {encrypted, FALSE} /\ acc' = acc
      BY <1>2 DEF UnloadBegin, UnloadOver, HangUp, HungUp, LetGo, Continue, Finish, Await, GoTo, DropSession, TypeOK
    <2>2. pc'[Poll] = pc[Poll] /\ \A w \in Writers : pc'[w] = pc[w] /\ on'[w] = on[w]
      BY <2>1 DEF BleConstantsAssumption
    <2>3. ~StaysLoaded'
      BY <2>1 DEF StaysLoaded
    <2>4. Places' /\ NoSessionYet' /\ CollectsForOne'
      <3>1. encrypted' => encrypted
        BY <2>1 DEF TypeOK
      <3> QED BY <2>1, <2>2, <3>1 DEF Places, NoSessionYet, CollectsForOne
    <2>5. WritesElsewhere'
      BY <2>1, <2>2 DEF Places, WritesElsewhere, BleConstantsAssumption
    <2> QED BY <2>1, <2>3, <2>4, <2>5 DEF WorksOnClient, RandomIsCurrent, ReadsWithKey, KeyFitsClient, NoOrphanLink
  <1>3. ASSUME NEW r \in owed, Indicate(r) PROVE BleInv'
    <2>1. /\ UNCHANGED <<session, pc, on, locals, outcome, device>> /\ r.to \in Clients /\ Alive(r.to)
          /\ \E kind \in {r.kind, "other"} :
               queue' = queue \cup {[kind |-> kind, from |-> IF kind = "iv" THEN r.to ELSE None]}
      BY <1>3 DEF Indicate, Alive, TypeOK, Answer
    <2>2. StaysLoaded => r.to \in {client} \cup orphans
      BY <2>1 DEF NoOrphanLink
    <2>3. RandomIsCurrent'
      BY <2>1, <2>2 DEF RandomIsCurrent, StaysLoaded
    <2> QED BY <2>1, <2>3 DEF Places, NoSessionYet, WritesElsewhere, WorksOnClient, CollectsForOne, ReadsWithKey,
                              KeyFitsClient, NoOrphanLink, Connected, StaysLoaded, Alive
  <1>4. ASSUME NEW c \in Clients, LinkDrops(c) PROVE BleInv'
    <2>1. UNCHANGED <<session, queue, pc, on, locals, outcome, orphans>> /\ \A d \in Clients : Alive(d)' => Alive(d)
      BY <1>4 DEF LinkDrops, LinkEnds, Alive
    <2> QED BY <2>1 DEF Places, NoSessionYet, WritesElsewhere, WorksOnClient, CollectsForOne, RandomIsCurrent, ReadsWithKey,
                        KeyFitsClient, NoOrphanLink, Connected, StaysLoaded
  <1> QED BY <1>1, <1>2, <1>3, <1>4

\* The strengthened invariant is inductive.
LEMMA BleInvariant == Spec => [](TypeOK /\ SendsToClient /\ BleInv)
  <1>1. Init => TypeOK /\ SendsToClient /\ BleInv
    <2> SUFFICES ASSUME Init PROVE TypeOK /\ SendsToClient /\ BleInv
      OBVIOUS
    <2> USE DEF Init, BleConstantsAssumption
    <2>1. TypeOK /\ SendsToClient
      BY DEF TypeOK, SendsToClient, Sending
    <2>2. pc[Poll] = "idle" /\ pc[Unload] = "setup" /\ \A w \in Writers : pc[w] = "idle"
      OBVIOUS
    <2>3. Places /\ NoSessionYet /\ WritesElsewhere /\ WorksOnClient /\ CollectsForOne /\ RandomIsCurrent
      BY <2>2 DEF Places, NoSessionYet, WritesElsewhere, WorksOnClient, CollectsForOne, RandomIsCurrent,
                  Connecting, Handshake, Awaiting, HangingUp, Collecting, Sending
    <2>4. ReadsWithKey /\ KeyFitsClient /\ NoOrphanLink
      BY <2>2 DEF ReadsWithKey, KeyFitsClient, NoOrphanLink, Connected, Alive
    <2> QED BY <2>1, <2>3, <2>4 DEF BleInv
  <1>2. TypeOK /\ SendsToClient /\ BleInv /\ [Next]_vars => (TypeOK /\ SendsToClient /\ BleInv)'
    <2> SUFFICES ASSUME TypeOK, SendsToClient, BleInv, [Next]_vars PROVE BleInv'
      BY TypeStep
    <2>1. CASE UNCHANGED vars
      BY <2>1 DEF vars, BleInv, Places, NoSessionYet, WritesElsewhere, WorksOnClient, CollectsForOne, RandomIsCurrent,
                  ReadsWithKey, KeyFitsClient, NoOrphanLink, Connected, StaysLoaded, Alive
    <2>2. CASE Next
      BY <2>2, PollKeeps, ConnectKeeps, CollectingKeeps, OthersKeep DEF Next, PollStep
    <2> QED BY <2>1, <2>2
  <1> QED BY <1>1, <1>2, PTL DEF Spec

\* The state of the transport, its tasks and the device has its type, always.
THEOREM TypeCorrect == Spec => []TypeOK
  BY BleInvariant, PTL

\* A session under a loaded entry has the key of the client it is used with, or
\* of one whose hang-up failed, although all clients indicate into one queue
\* that no lock guards.
THEOREM KeyFits == Spec => []KeyFitsClient
  <1>1. BleInv => KeyFitsClient
    BY DEF BleInv
  <1> QED BY <1>1, BleInvariant, PTL

\* No write gets between the packets of a handshake.
THEOREM HandshakesAreExclusive == Spec => []HandshakeIsExclusive
  <1>1. BleInv => HandshakeIsExclusive
    BY DEF BleInv, NoSessionYet, WritesElsewhere, HandshakeIsExclusive, Connected
  <1> QED BY <1>1, BleInvariant, PTL

\* While the entry is loaded, the only links that nobody will close are those
\* whose hang-up was tried and failed.
THEOREM LinksAreHeld == Spec => []NoOrphanLink
  <1>1. BleInv => NoOrphanLink
    BY DEF BleInv
  <1> QED BY <1>1, BleInvariant, PTL

\* While the entry is loaded, a read decrypts what it collects with a key.
THEOREM ReadsHaveKey == Spec => []ReadsWithKey
  <1>1. BleInv => ReadsWithKey
    BY DEF BleInv
  <1> QED BY <1>1, BleInvariant, PTL

-----------------------------------------------------------------------------
(* BleTransport does what Coordinator promises of a transport.               *)

\* A step of the entry with its one transport, as the coordinator sees it.
Mapped == C!Next \/ UNCHANGED C!vars

\* What the link becomes of what a step does to the session.
LEMMA LinkMoves ==
    ASSUME TypeOK
    PROVE  /\ client' = client /\ encrypted' = encrypted => Link' = Link
           /\ client' = client /\ ~encrypted' => Link' = IF Link = "up" THEN "stale" ELSE Link
           /\ client' = client /\ encrypted' => Link' = IF Link = "none" THEN "none" ELSE "up"
           /\ client' # None /\ ~encrypted' => Link' = "stale"
           /\ client' = None => Link' = "none"
           /\ Connected <=> Link = "up"
           /\ Link \in {"none", "stale", "up"}
  BY DEF Link, Connected

\* Where the coordinator sees the poll.
LEMMA PollPlaces ==
    /\ pc[Poll] = "idle" => PollAt = "idle"
    /\ pc[Poll] = "begin" => PollAt = "check"
    /\ pc[Poll] \in {"hangC", "hangF"} \cup Connecting \cup Handshake => PollAt = "connect"
    /\ pc[Poll] \in {"read", "ask", "collect"} => PollAt = "read"
    /\ pc[Poll] \in {"failed", "hangE"} => PollAt = "hangup"
    /\ pc'[Poll] = "idle" => PollAt' = "idle"
    /\ pc'[Poll] = "begin" => PollAt' = "check"
    /\ pc'[Poll] \in {"hangC", "hangF"} \cup Connecting \cup Handshake => PollAt' = "connect"
    /\ pc'[Poll] \in {"read", "ask", "collect"} => PollAt' = "read"
    /\ pc'[Poll] \in {"failed", "hangE"} => PollAt' = "hangup"
  BY DEF PollAt, Connecting, Handshake

\* What a step of the poll leaves of the entry and of the writes.
Others == EntryState' = EntryState /\ ClosingOne' = ClosingOne /\ WritesTo' = WritesTo

\* What the poll came to.
Results == ActiveOne' = ActiveOne /\ result' = result

\* A step of the poll is none of the entry or of a write.
LEMMA PollShifts ==
    ASSUME TypeOK, NEW p, NEW c, GoTo(Poll, p, c)
    PROVE  Others /\ pc'[Poll] = p
  <1>1. PollGoes(p, c)
    BY PollWent
  <1>2. pc'[Poll] = p /\ pc'[Unload] = pc[Unload] /\ \A w \in Writers : pc'[w] = pc[w]
    BY <1>1 DEF PollGoes, BleConstantsAssumption
  <1>3. WritesTo' = WritesTo
    BY <1>2 DEF WritesTo
  <1> QED BY <1>2, <1>3 DEF Others, EntryState, ClosingOne

\* A step within connect(), that ends no session and begins none.
LEMMA ConnectGoesOn ==
    ASSUME TypeOK, NEW p \in {"hangF"} \cup Connecting \cup Handshake, NEW c, GoTo(Poll, p, c),
           pc[Poll] \in {"hangC", "hangF"} \cup Connecting \cup Handshake,
           client' = client, ~encrypted /\ ~encrypted', UNCHANGED <<attempt, outcome>>
    PROVE  UNCHANGED C!vars
  <1>1. Link' = Link
    BY DEF Link, Connected
  <1>2. Others /\ Results /\ pc'[Poll] = p
    BY PollShifts DEF Results, ActiveOne
  <1>3. PollAt = "connect" /\ PollAt' = "connect"
    BY <1>2, PollPlaces
  <1> QED BY <1>1, <1>2, <1>3 DEF C!vars, C!progress, C!outcome, Others, Results

\* The connecting of a poll, as the coordinator sees it.
LEMMA ConnectMaps ==
    ASSUME TypeOK, BleInv,
           \/ PollBegin \/ Connect \/ Dialled \/ Paired \/ Subscribed \/ ConnectFails \/ HandshakeSent
           \/ HandshakeIv \/ HandshakeLogin \/ HandshakeFails \/ HandshakeEscapes \/ ConnectRaises
    PROVE  Mapped
  <1> USE DEF Runs, Raised, Mapped, Others, Results, C!progress, C!outcome
  <1>1. CASE PollBegin
    <2>1. CASE Connected
      <3>1. GoTo(Poll, "read", None) /\ UNCHANGED <<session, attempt, outcome>> /\ pc[Poll] = "begin"
        BY <1>1, <2>1 DEF PollBegin, Continue
      <3>2. /\ PollAt = "check" /\ PollAt' = "read" /\ Link = "up" /\ Link' = Link /\ Others /\ Results
        BY <2>1, <3>1, PollShifts, PollPlaces, LinkMoves DEF ActiveOne
      <3> QED BY <3>1, <3>2 DEF C!CheckConnected, C!PollStep, C!Next
    <2>2. CASE ~Connected
      <3>1. /\ GoTo(Poll, "hangC", client) /\ client' = client /\ ~encrypted' /\ UNCHANGED <<attempt, outcome>>
            /\ pc[Poll] = "begin"
        BY <1>1, <2>2 DEF PollBegin, HangUp, DropSession, Continue, Await
      <3>2. Link # "up" /\ Link' = Link
        BY <2>2, <3>1, LinkMoves
      <3>3. PollAt = "check" /\ PollAt' = "connect" /\ Others /\ Results
        BY <3>1, PollShifts, PollPlaces DEF ActiveOne
      <3> QED BY <3>1, <3>2, <3>3 DEF C!CheckConnected, C!PollStep, C!Next
    <2> QED BY <2>1, <2>2
  <1>2. CASE Connect
    <2>1. PICK c \in Clients : client' = c /\ GoTo(Poll, "dial", c)
      BY <1>2 DEF Connect, Await
    <2>2. ~encrypted' /\ pc[Poll] = "hangC" /\ UNCHANGED <<attempt, outcome>>
      BY <1>2 DEF Connect, HungUp, BleInv, NoSessionYet
    <2>3. Link' = "stale"
      BY <2>1, <2>2, LinkMoves
    <2>4. PollAt = "connect" /\ PollAt' = "connect" /\ Others /\ Results
      BY <2>1, <2>2, PollShifts, PollPlaces DEF Connecting, ActiveOne
    <2> QED BY <2>2, <2>3, <2>4 DEF C!Dial, C!Dialled, C!Next
  <1>3. CASE Dialled \/ Paired \/ (Subscribed /\ Asks(Poll, "askIv") /\ UNCHANGED result) \/ HandshakeSent \/ HandshakeIv
    <2>1. client' = client /\ encrypted' = encrypted /\ UNCHANGED <<attempt, outcome>>
          /\ pc[Poll] \in Connecting \cup Handshake
      BY <1>3 DEF Dialled, Paired, Subscribed, HandshakeSent, HandshakeIv, Sent, Connecting, Handshake
    <2>2. ~encrypted
      BY <2>1 DEF BleInv, NoSessionYet
    <2>3. PICK p \in Connecting \cup Handshake, c \in {None, client} : GoTo(Poll, p, c)
      BY <1>3 DEF Dialled, Paired, HandshakeSent, HandshakeIv, Asks, Await, Continue, Connecting, Handshake
    <2> QED BY <2>1, <2>2, <2>3, ConnectGoesOn
  <1>4. CASE ConnectFails \/ HandshakeFails
    <2>1. client' = client /\ ~encrypted' /\ UNCHANGED <<attempt, outcome>> /\ GoTo(Poll, "hangF", client)
          /\ pc[Poll] \in Connecting \cup Handshake
      BY <1>4 DEF ConnectFails, HandshakeFails, HangUp, DropSession, Forget, Continue, Await, Connecting, Handshake
    <2>2. ~encrypted
      BY <2>1 DEF BleInv, NoSessionYet
    <2> QED BY <2>1, <2>2, ConnectGoesOn
  <1>5. CASE (Subscribed /\ Finish(Poll, "idle") /\ result' = "escaped") \/ HandshakeEscapes
    <2>1. client' = client /\ encrypted' = encrypted /\ UNCHANGED <<attempt, active>> /\ result' = "escaped"
          /\ GoTo(Poll, "idle", None) /\ pc[Poll] \in Connecting \cup Handshake
      BY <1>5 DEF Subscribed, HandshakeEscapes, Forget, Finish, Await, Connecting, Handshake
    <2>2. PollAt = "connect" /\ PollAt' = "idle" /\ Others /\ Link' = Link /\ ActiveOne' = ActiveOne /\ result' = "escaped"
      BY <2>1, PollShifts, PollPlaces, LinkMoves DEF ActiveOne
    <2> QED BY <2>1, <2>2 DEF C!ConnectEscapes, C!PollStep, C!Next
  <1>6. CASE HandshakeLogin
    <2>1. client' = client /\ encrypted' /\ UNCHANGED <<attempt, outcome>>
          /\ GoTo(Poll, "read", None) /\ pc[Poll] = "login"
      BY <1>6 DEF HandshakeLogin, TakeKey, Continue
    <2>2. PollAt = "connect" /\ PollAt' = "read" /\ Others /\ Results
      BY <2>1, PollShifts, PollPlaces DEF Handshake, ActiveOne
    <2>3. Link' = IF Link = "stale" THEN "up" ELSE Link
      BY <2>1, LinkMoves
    <2> QED BY <2>1, <2>2, <2>3 DEF C!ConnectReturns, C!PollStep, C!Next
  <1>7. CASE ConnectRaises
    <2>1. client' = None /\ UNCHANGED <<attempt, outcome>> /\ GoTo(Poll, "failed", None) /\ pc[Poll] = "hangF"
      BY <1>7 DEF ConnectRaises, HungUp, LetGo, Continue
    <2>2. PollAt = "connect" /\ PollAt' = "hangup" /\ Others /\ Results /\ Link' = "none"
      BY <2>1, PollShifts, PollPlaces, LinkMoves DEF ActiveOne
    <2> QED BY <2>1, <2>2 DEF C!ConnectFails, C!PollStep, C!Next
  <1>8. Subscribed => \/ Asks(Poll, "askIv") /\ UNCHANGED result
                      \/ Finish(Poll, "idle") /\ result' = "escaped"
    BY DEF Subscribed
  <1> QED BY <1>1, <1>2, <1>3, <1>4, <1>5, <1>6, <1>7, <1>8

\* Its reading.
LEMMA ReadMaps ==
    ASSUME TypeOK, BleInv, ReadBegin \/ ReadSent \/ ReadFails \/ ReadReturns \/ Collect
    PROVE  Mapped
  <1> USE DEF Runs, Raised, Mapped, Others, Results, C!progress, C!outcome
  <1>1. ASSUME NEW p \in {"ask", "collect"}, NEW c, GoTo(Poll, p, c), pc[Poll] \in {"read", "ask"},
               UNCHANGED <<session, attempt, outcome>>
        PROVE  Mapped
    <2>1. PollAt' = PollAt /\ Others /\ Results /\ Link' = Link
      BY <1>1, PollShifts, PollPlaces, LinkMoves DEF ActiveOne
    <2> QED BY <1>1, <2>1 DEF C!vars
  <1>2. ASSUME pc[Poll] \in {"read", "ask", "collect"}, GoTo(Poll, "failed", None),
               client' = client, ~Connected', UNCHANGED <<attempt, outcome>>
        PROVE  Mapped
    <2>1. PollAt = "read" /\ PollAt' = "hangup" /\ Others /\ Results
      BY <1>2, PollShifts, PollPlaces DEF ActiveOne
    <2>2. Link' = IF Link = "up" THEN "stale" ELSE Link
      BY <1>2 DEF Link, Connected
    <2> QED BY <1>2, <2>1, <2>2 DEF C!ReadFails, C!Drops, C!Stale, C!PollStep, C!Next
  <1>3. CASE ReadBegin
    <2>1. CASE Connected
      BY <1>1, <1>3, <2>1 DEF ReadBegin, Asks, Await
    <2>2. CASE ~Connected
      <3>1. ~Connected'
        BY <1>3, <2>2 DEF ReadBegin, Connected
      <3> QED BY <1>2, <1>3, <2>2, <3>1 DEF ReadBegin, Continue
    <2> QED BY <2>1, <2>2
  <1>4. CASE ReadSent
    BY <1>1, <1>4 DEF ReadSent, Sent, Await
  <1>5. CASE ReadFails
    BY <1>2, <1>5 DEF ReadFails, Continue, Forget, Connected
  <1>6. CASE ReadReturns
    <2>1. /\ pc[Poll] = "collect" /\ pc'[Poll] = "idle"
          /\ pc'[Unload] = (IF pc[Unload] = "setup" THEN "idle" ELSE pc[Unload])
          /\ \A w \in Writers : pc'[w] = pc[w]
          /\ result' = "ok" /\ active' /\ attempt' = attempt /\ UNCHANGED session
      BY <1>6 DEF ReadReturns, Forget, TypeOK, BleConstantsAssumption
    <2>2. /\ EntryState' = IF EntryState = "setup" THEN "loaded" ELSE EntryState
          /\ ClosingOne' = ClosingOne /\ ActiveOne' = 1 /\ result' = "ok"
      BY <2>1 DEF EntryState, ClosingOne, ActiveOne, Index, BleInv, Places
    <2>3. WritesTo' = WritesTo
      BY <2>1 DEF WritesTo
    <2>4. PollAt = "read" /\ PollAt' = "idle" /\ Link' = Link
      BY <2>1, PollPlaces, LinkMoves
    <2> QED BY <2>1, <2>2, <2>3, <2>4 DEF C!ReadReturns, C!PollStep, C!Next
  <1>7. CASE Collect
    <2>1. UNCHANGED <<session, pc, attempt, outcome>>
      BY <1>7 DEF Collect
    <2> QED BY <2>1 DEF C!vars, Link, Connected, EntryState, PollAt, ClosingOne, ActiveOne, WritesTo
  <1> QED BY <1>3, <1>4, <1>5, <1>6, <1>7

\* Its beginning, its hanging up and its being cancelled.
LEMMA AttemptMaps ==
    ASSUME TypeOK, BleInv, PollStart \/ AttemptFails \/ AttemptOver \/ Cancel
    PROVE  Mapped
  <1> USE DEF Runs, Mapped, Others, Results, C!progress, C!outcome
  <1>1. CASE PollStart
    <2>1. /\ GoTo(Poll, "begin", None) /\ pc[Poll] = "idle" /\ attempt' = 1 /\ result' = "none"
          /\ active' = active /\ UNCHANGED session
          /\ pc[Unload] = "idle" \/ (pc[Unload] = "setup" /\ result = "none")
      BY <1>1 DEF PollStart, Continue
    <2>2. /\ PollAt = "idle" /\ PollAt' = "check" /\ Others /\ Link' = Link
          /\ ActiveOne' = ActiveOne /\ result' = "none"
      BY <2>1, PollShifts, PollPlaces, LinkMoves DEF ActiveOne
    <2>3. EntryState = "loaded" \/ (EntryState = "setup" /\ result = "none")
      BY <2>1 DEF EntryState
    <2> QED BY <2>1, <2>2, <2>3 DEF C!PollStart, C!Next
  <1>2. CASE AttemptFails
    <2>1. GoTo(Poll, "hangE", client) /\ pc[Poll] = "failed" /\ client' = client /\ ~encrypted' /\ UNCHANGED <<attempt, outcome>>
      BY <1>2 DEF AttemptFails, HangUp, DropSession, Continue, Await
    <2>2. PollAt = "hangup" /\ PollAt' = "hangup" /\ Others /\ Results
      BY <2>1, PollShifts, PollPlaces DEF ActiveOne
    <2>3. Link' = IF Link = "up" THEN "stale" ELSE Link
      BY <2>1, LinkMoves
    <2> QED BY <2>1, <2>2, <2>3 DEF C!HangingUp, C!Drops, C!Stale, C!Next
  <1>3. CASE AttemptOver
    <2>1. PollAt = "hangup" /\ Link' = "none"
      BY <1>3, PollPlaces, LinkMoves DEF AttemptOver, HungUp, LetGo
    <2>2. CASE ~LastAttempt
      <3>1. PollAt' = "check" /\ Others /\ Results /\ attempt' = attempt + 1
        BY <1>3, <2>2, PollShifts, PollPlaces DEF AttemptOver, Continue, NextAttempt, ActiveOne
      <3>2. attempt # 2
        BY <2>2 DEF LastAttempt
      <3> QED BY <2>1, <3>1, <3>2 DEF C!HungUp, C!LastAttempt, C!NextAttempt, C!LetsGo, C!PollStep, C!Next
    <2>3. CASE LastAttempt
      <3>1. /\ PollAt' = "idle" /\ Others /\ attempt' = attempt /\ attempt = 2
            /\ ActiveOne' = 0 /\ result' = "failed"
        BY <1>3, <2>3, PollShifts, PollPlaces
           DEF AttemptOver, Finish, Await, ActiveOne, Index, LastAttempt
      <3> QED BY <2>1, <3>1 DEF C!HungUp, C!LastAttempt, C!LetsGo, C!PollStep, C!Next
    <2> QED BY <2>2, <2>3
  <1>4. CASE Cancel
    <2>1. /\ GoTo(Poll, "idle", None) /\ result' = "cancelled" /\ UNCHANGED <<session, attempt, active>>
          /\ pc[Unload] = "done" /\ pc[Poll] \in Awaiting
      BY <1>4 DEF Cancel, Finish, Await, Forget
    <2>2. PollAt # "idle"
      BY <2>1 DEF PollAt, Awaiting, HangingUp, Connecting, Handshake, Collecting, Sending, BleInv, Places
    <2>3. PollAt' = "idle" /\ Others /\ Link' = Link /\ ActiveOne' = ActiveOne /\ result' = "cancelled"
          /\ EntryState = "unloaded"
      BY <2>1, PollShifts, PollPlaces, LinkMoves DEF ActiveOne, EntryState
    <2> QED BY <2>1, <2>2, <2>3 DEF C!Cancelled, C!Next
  <1> QED BY <1>1, <1>2, <1>3, <1>4

\* A writer that moves to p.
LEMMA WriterMoves ==
    ASSUME TypeOK, NEW w \in Writers, NEW p, NEW c, GoTo(w, p, c)
    PROVE  /\ EntryState' = EntryState /\ ClosingOne' = ClosingOne /\ PollAt' = PollAt
           /\ WritesTo' = [WritesTo EXCEPT ![w] = Index(p = "write")]
  <1>1. /\ pc'[w] = p /\ pc'[Unload] = pc[Unload] /\ pc'[Poll] = pc[Poll]
        /\ \A v \in Writers \ {w} : pc'[v] = pc[v]
    BY DEF GoTo, TypeOK, BleConstantsAssumption
  <1>2. EntryState' = EntryState /\ ClosingOne' = ClosingOne /\ PollAt' = PollAt
    BY <1>1 DEF EntryState, ClosingOne, PollAt
  <1>3. WritesTo' = [WritesTo EXCEPT ![w] = Index(p = "write")]
    <2>1. \A v \in Writers : Index(pc'[v] = "write") = IF v = w THEN Index(p = "write") ELSE WritesTo[v]
      BY <1>1 DEF WritesTo
    <2>2. WritesTo' = [v \in Writers |-> Index(pc'[v] = "write")]
      BY DEF WritesTo
    <2>3. WritesTo = [v \in Writers |-> WritesTo[v]]
      BY DEF WritesTo
    <2> QED BY <2>1, <2>2, <2>3
  <1> QED BY <1>2, <1>3

\* A write, as the coordinator sees it.
LEMMA WriteMaps ==
    ASSUME TypeOK, NEW w \in Writers, WriteBegin(w) \/ WriteEnds(w)
    PROVE  Mapped
  <1> USE DEF Runs, Raised, Mapped, Results, C!progress, C!outcome
  <1>1. WritesTo[w] = IF pc[w] = "write" THEN 1 ELSE 0
    BY DEF WritesTo, Index
  <1>2. UNCHANGED <<session, attempt, outcome>>
    BY DEF WriteBegin, WriteEnds
  <1>3. Link' = Link /\ Results
    BY <1>2, LinkMoves DEF ActiveOne
  <1>4. CASE WriteBegin(w)
    <2>1. GoTo(w, "write", client) /\ pc[w] = "idle" /\ pc[Unload] = "idle" /\ active /\ Connected
      BY <1>4 DEF WriteBegin, Asks, Await
    <2>2. EntryState = "loaded" /\ ActiveOne = 1 /\ Link = "up"
      BY <2>1, LinkMoves DEF EntryState, ActiveOne, Index
    <2>3. /\ EntryState' = EntryState /\ ClosingOne' = ClosingOne /\ PollAt' = PollAt
          /\ WritesTo' = [WritesTo EXCEPT ![w] = 1]
      BY <2>1, WriterMoves DEF Index
    <2>4. C!WriteBegins(w)
      BY <1>1, <1>2, <1>3, <2>1, <2>2, <2>3 DEF C!WriteBegins
    <2> QED BY <2>4 DEF C!Next
  <1>5. CASE WriteEnds(w)
    <2>1. GoTo(w, "idle", None) /\ pc[w] = "write"
      BY <1>5 DEF WriteEnds, Sent, Finish, Await
    <2>2. /\ EntryState' = EntryState /\ ClosingOne' = ClosingOne /\ PollAt' = PollAt
          /\ WritesTo' = [WritesTo EXCEPT ![w] = 0]
      BY <2>1, WriterMoves DEF Index
    <2>3. C!WriteReturns(w)
      BY <1>1, <1>2, <1>3, <2>1, <2>2 DEF C!WriteReturns
    <2> QED BY <2>3 DEF C!Next
  <1> QED BY <1>4, <1>5

\* The unloading, as the coordinator sees it.
LEMMA UnloadMaps ==
    ASSUME TypeOK, UnloadBegin \/ UnloadOver
    PROVE  Mapped
  <1> USE DEF Runs, Mapped, Results, C!progress, C!outcome
  <1>1. ASSUME NEW p, NEW c, GoTo(Unload, p, c)
        PROVE  pc'[Unload] = p /\ PollAt' = PollAt /\ WritesTo' = WritesTo
    <2>1. pc'[Unload] = p /\ pc'[Poll] = pc[Poll] /\ \A w \in Writers : pc'[w] = pc[w]
      BY <1>1 DEF GoTo, TypeOK, BleConstantsAssumption
    <2>2. WritesTo' = WritesTo
      BY <2>1 DEF WritesTo
    <2> QED BY <2>1, <2>2 DEF PollAt
  <1>2. UNCHANGED <<attempt, outcome>> /\ Results
    BY DEF UnloadBegin, UnloadOver, HangUp, ActiveOne
  <1>3. CASE UnloadBegin /\ active
    <2>1. GoTo(Unload, "hangU", client) /\ client' = client /\ ~encrypted' /\ pc[Unload] = "idle"
      BY <1>3 DEF UnloadBegin, HangUp, DropSession, Continue, Await
    <2>2. Link' = IF Link = "up" THEN "stale" ELSE Link
      BY <2>1, LinkMoves
    <2>3. EntryState = "loaded" /\ EntryState' = "unloading" /\ ClosingOne' = 1 /\ ActiveOne = 1
      BY <1>1, <1>3, <2>1 DEF EntryState, ClosingOne, ActiveOne, Index
    <2>4. <<Link'>> = [<<Link>> EXCEPT ![ActiveOne] = IF <<Link>>[ActiveOne] = "up" THEN "stale" ELSE <<Link>>[ActiveOne]]
      BY <2>2, <2>3
    <2>5. C!Drops(ActiveOne)
      BY <2>4 DEF C!Drops, C!Stale
    <2>6. UNCHANGED <<PollAt, attempt, ActiveOne, result, WritesTo>>
      BY <1>1, <1>2, <2>1
    <2>7. C!UnloadBegins
      BY <2>3, <2>5, <2>6 DEF C!UnloadBegins
    <2> QED BY <2>7 DEF C!Next
  <1>4. CASE UnloadBegin /\ ~active
    <2>1. GoTo(Unload, "done", None) /\ pc[Unload] = "idle" /\ UNCHANGED session
      BY <1>4 DEF UnloadBegin, Finish, Await
    <2>2. Link' = Link
      BY <2>1, LinkMoves
    <2>3. EntryState = "loaded" /\ EntryState' = "unloaded" /\ ClosingOne' = ClosingOne /\ ActiveOne = 0
      BY <1>1, <1>4, <2>1 DEF EntryState, ClosingOne, ActiveOne, Index
    <2> QED BY <1>1, <1>2, <2>1, <2>2, <2>3 DEF C!UnloadBegins, C!Next
  <1>5. CASE UnloadOver
    <2>1. GoTo(Unload, "done", None) /\ pc[Unload] = "hangU"
      BY <1>5 DEF UnloadOver, HungUp, Finish, Await
    <2>2. Link' = "none"
      BY <1>5, LinkMoves DEF UnloadOver, LetGo
    <2>3. EntryState = "unloading" /\ EntryState' = "unloaded" /\ ClosingOne' = 0 /\ ClosingOne = 1
      BY <1>1, <2>1 DEF EntryState, ClosingOne, Index
    <2>4. <<Link'>> = [<<Link>> EXCEPT ![ClosingOne] = "none"]
      BY <2>2, <2>3
    <2>5. C!UnloadEnds
      BY <1>1, <1>2, <2>1, <2>3, <2>4 DEF C!UnloadEnds
    <2> QED BY <2>5 DEF C!Next
  <1> QED BY <1>3, <1>4, <1>5

-----------------------------------------------------------------------------
(* The theorem.                                                              *)

\* However poll, writes, unloading, indications and lost links interleave at the
\* awaits of ble.py, which takes no lock, BLE does to the entry only what the
\* coordinator is specified to see of a transport: what Coordinator_proof shows
\* of any number of transports holds of this one.
THEOREM BleImplements == Spec => ImplementsCoordinator
  <1>1. Init => C!Init
    <2> SUFFICES ASSUME Init PROVE C!Init
      OBVIOUS
    <2>1. /\ pc[Unload] = "setup" /\ pc[Poll] = "idle" /\ \A w \in Writers : pc[w] = "idle"
          /\ client = None /\ attempt = 1 /\ ~active /\ result = "none"
      BY DEF Init, BleConstantsAssumption
    <2>2. Link = "none" /\ ActiveOne = 0 /\ result = "none"
      BY <2>1 DEF Link, Connected, ActiveOne, Index
    <2>3. EntryState = "setup" /\ ClosingOne = 0
      BY <2>1 DEF EntryState, ClosingOne, Index
    <2>4. PollAt = "idle"
      BY <2>1, PollPlaces
    <2>5. WritesTo = [w \in Writers |-> 0]
      BY <2>1 DEF WritesTo, Index
    <2>6. <<Link>> = [t \in C!Transports |-> "none"]
      BY <2>2 DEF C!Transports
    <2> QED BY <2>1, <2>2, <2>3, <2>4, <2>5, <2>6 DEF C!Init
  <1>2. TypeOK /\ BleInv /\ [Next]_vars => [C!Next]_C!vars
    <2> SUFFICES ASSUME TypeOK, BleInv, [Next]_vars PROVE Mapped
      BY DEF Mapped
    <2>1. ASSUME UNCHANGED <<session, pc, attempt, outcome>> PROVE Mapped
      BY <2>1 DEF Mapped, C!vars, C!progress, C!outcome, Link, Connected, EntryState, PollAt, ClosingOne,
                  ActiveOne, WritesTo
    <2>2. CASE UNCHANGED vars \/ (\E r \in owed : Indicate(r)) \/ (\E c \in Clients : LinkDrops(c))
      BY <2>1, <2>2 DEF vars, Indicate, LinkDrops
    <2> QED BY <2>2, ConnectMaps, ReadMaps, AttemptMaps, WriteMaps, UnloadMaps DEF Next, PollStep
  <1> QED BY <1>1, <1>2, BleInvariant, PTL DEF Spec, ImplementsCoordinator, C!Spec
=============================================================================
