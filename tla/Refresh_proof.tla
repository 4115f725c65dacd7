--------------------------- MODULE Refresh_proof ---------------------------
(* Proofs about Refresh, for any set of writers and all bounds: its types,    *)
(* and that what is shown, when all is quiet, is no older than any write that *)
(* the device has taken.                                                      *)
EXTENDS Refresh, FiniteSetTheorems, TLAPS

USE ConstantsAssumption DEF device, writes, refresh, shown, debouncer

\* A task that awaits packets owns the lock.
LockIsKept ==
    /\ poll = "collect" => Owns(Refresher)
    /\ \A w \in Writers : at[w] = "ack" => Owns(w)

\* Versions rise from what was collected through what was received and what the
\* device has to what it will have.
PacketsInOrder ==
    /\ got <= setting
    /\ \A i \in DOMAIN inbox : got <= inbox[i].version /\ inbox[i].version <= setting
    /\ \A i, j \in DOMAIN inbox : i < j => inbox[i].version <= inbox[j].version
RequestsInOrder ==
    /\ \A i \in DOMAIN owed : owed[i].kind = "read" => owed[i].version = 0
    /\ \A i \in DOMAIN owed : owed[i].kind = "write" => setting <= owed[i].version /\ owed[i].version <= written
    /\ \A i, j \in DOMAIN owed :
        i < j /\ owed[i].kind = "write" /\ owed[j].kind = "write" => owed[i].version <= owed[j].version
InOrder == applied <= setting /\ setting <= written /\ PacketsInOrder /\ RequestsInOrder

\* A status is to come that is no older than any write that the device has taken.
StatusComes ==
    \/ \E i \in DOMAIN owed : owed[i].kind = "read"
    \/ \E i \in DOMAIN inbox : inbox[i].kind = "status" /\ inbox[i].version >= applied

\* On a connection without a lost read, whoever collects has got such a status,
\* or can still get one; and what is not shown yet is to be asked for, or comes.
AnswerComes == open /\ ~lost /\ poll = "collect" => StatusComes \/ got >= applied
FreshComes == open /\ ~lost =>
    data >= applied \/ again \/ poll # "idle" \/ StatusComes

\* A poll hangs up before it connects.
Connecting == poll = "connect" => ~open

\* The versions left are enough for the writes that wait.
Waiting == {w \in Writers : at[w] = "waiting"}
Room == IsFiniteSet(Waiting) /\ Cardinality(Waiting) <= MaxVersion + 1 - written

-----------------------------------------------------------------------------
(* The types.                                                                 *)

\* What remains of a queue without its head.
LEMMA TailFacts ==
    ASSUME NEW S, NEW s \in Seq(S), s # <<>>
    PROVE  /\ Tail(s) \in Seq(S) /\ Head(s) \in S /\ 1 \in DOMAIN s /\ Head(s) = s[1]
           /\ \A i \in DOMAIN Tail(s) : i \in Nat /\ i + 1 \in DOMAIN s /\ Tail(s)[i] = s[i + 1] /\ 1 < i + 1
           /\ \A j \in DOMAIN s : j = 1 \/ \E i \in DOMAIN Tail(s) : Tail(s)[i] = s[j]
  <1>1. Tail(s) \in Seq(S) /\ Head(s) \in S /\ 1 \in DOMAIN s /\ Head(s) = s[1]
    OBVIOUS
  <1>2. ASSUME NEW i \in DOMAIN Tail(s) PROVE i \in Nat /\ i + 1 \in DOMAIN s /\ Tail(s)[i] = s[i + 1] /\ 1 < i + 1
    OBVIOUS
  <1>3. ASSUME NEW j \in DOMAIN s, j # 1 PROVE j - 1 \in DOMAIN Tail(s) /\ Tail(s)[j - 1] = s[j]
    <2>1. /\ j \in 1..Len(s) /\ Len(s) \in Nat /\ Len(Tail(s)) = Len(s) - 1
          /\ DOMAIN Tail(s) = 1..Len(Tail(s))
      OBVIOUS
    <2>2. j - 1 \in DOMAIN Tail(s) /\ (j - 1) + 1 = j
      BY <1>3, <2>1
    <2> QED BY <2>2
  <1> QED BY <1>1, <1>2, <1>3

\* What a queue becomes with e behind it.
LEMMA AppendFacts ==
    ASSUME NEW S, NEW s \in Seq(S), NEW e \in S
    PROVE  /\ Append(s, e) \in Seq(S) /\ Append(s, e) # <<>>
           /\ \A i \in DOMAIN Append(s, e) :
                \/ i \in DOMAIN s /\ Append(s, e)[i] = s[i]
                \/ i = Len(s) + 1 /\ Append(s, e)[i] = e
           /\ \A i \in DOMAIN s : i \in DOMAIN Append(s, e) /\ Append(s, e)[i] = s[i] /\ i < Len(s) + 1
           /\ Len(s) + 1 \in DOMAIN Append(s, e) /\ Append(s, e)[Len(s) + 1] = e
           /\ s # <<>> => Head(Append(s, e)) = Head(s)
  <1>1. /\ Append(s, e) \in Seq(S) /\ Append(s, e) # <<>> /\ DOMAIN s = 1..Len(s) /\ Len(s) \in Nat
        /\ DOMAIN Append(s, e) = 1..(Len(s) + 1)
    OBVIOUS
  <1>2. Append(s, e)[Len(s) + 1] = e /\ \A i \in DOMAIN s : Append(s, e)[i] = s[i]
    OBVIOUS
  <1>3. s # <<>> => Head(Append(s, e)) = Head(s)
    OBVIOUS
  <1> QED BY <1>1, <1>2, <1>3

\* A request is sent, or gone.
LEMMA SendsType ==
    ASSUME TypeOK, NEW request \in Request, Sends(request)
    PROVE  owed' \in Seq(Request) /\ lost' \in BOOLEAN
  <1>1. Append(owed, request) \in Seq(Request)
    BY AppendFacts DEF TypeOK
  <1> QED BY <1>1 DEF TypeOK, Sends

\* Nothing is left under way by a hang-up.
LEMMA NothingType ==
    ASSUME TypeOK, HangUp \/ UNCHANGED <<owed, inbox, lost>>
    PROVE  owed' \in Seq(Request) /\ inbox' \in Seq(Packet) /\ lost' \in BOOLEAN
  <1>1. <<>> \in Seq(Request) /\ <<>> \in Seq(Packet)
    OBVIOUS
  <1> QED BY <1>1 DEF TypeOK, HangUp

\* The types of what belongs to a refresh and to the debouncer.
RefreshType ==
    /\ poll \in {"idle", "begin", "connect", "waiting", "collect"} /\ attempt \in {1, 2}
    /\ got \in Versions \cup {0} /\ round \in {1, 2} /\ cooling \in BOOLEAN /\ again \in BOOLEAN

\* Asking for a refresh keeps them.
LEMMA RequestType ==
    ASSUME TypeOK, RequestRefresh
    PROVE  RefreshType'
  BY DEF TypeOK, RequestRefresh, RefreshStarts, RefreshType

\* So does an attempt that fails.
LEMMA FailsType ==
    ASSUME TypeOK, AttemptFails
    PROVE  /\ RefreshType' /\ owed' = <<>> /\ inbox' = <<>> /\ session' = "none" /\ open' = FALSE /\ lost' = FALSE
           /\ ok' \in BOOLEAN /\ active' \in BOOLEAN /\ poll' \in {"begin", "idle"}
           /\ UNCHANGED <<setting, writes, data>>
  <1>1. attempt' \in {1, 2}
    BY DEF TypeOK, AttemptFails, LastAttempt, PollEnds
  <1> QED BY <1>1 DEF TypeOK, AttemptFails, HangUp, PollEnds, RefreshType

\* So does the end of a collection.
LEMMA CollectType ==
    ASSUME TypeOK, CollectEnds
    PROVE  /\ RefreshType' /\ owed' \in Seq(Request) /\ {ok', active', lost'} \subseteq BOOLEAN
           /\ data' \in Versions \cup {0} /\ lock' \in {lock, Tail(lock)}
  <1>1. [kind |-> "read", version |-> 0] \in Request
    BY DEF Request
  <1>2. CASE Sends([kind |-> "read", version |-> 0]) /\ round' = 2 /\ UNCHANGED <<lock, poll, attempt, got, shown, debouncer>>
    <2>1. owed' \in Seq(Request) /\ lost' \in BOOLEAN
      BY <1>1, <1>2, SendsType
    <2> QED BY <1>2, <2>1 DEF TypeOK, RefreshType
  <1>3. CASE Replaces(got) /\ ok' = TRUE /\ active' = TRUE /\ Release /\ PollEnds /\ UNCHANGED <<owed, lost>>
    BY <1>3 DEF TypeOK, RefreshType, Replaces, Release, PollEnds
  <1> QED BY <1>2, <1>3 DEF CollectEnds

\* The lock without its owner.
LEMMA LockType ==
    ASSUME TypeOK
    PROVE  /\ lock \in Seq(Writers \cup {Refresher})
           /\ lock # <<>> => Tail(lock) \in Seq(Writers \cup {Refresher})
  BY TailFacts DEF TypeOK

\* What the device takes next is no older than what it has.
LEMMA HeadIsNext ==
    ASSUME TypeOK, InOrder, owed # <<>>, Head(owed).kind = "write"
    PROVE  Head(owed).version \in Versions /\ setting <= Head(owed).version /\ Head(owed).version <= written
  <1>1. Head(owed) \in Request /\ 1 \in DOMAIN owed /\ Head(owed) = owed[1]
    BY TailFacts DEF TypeOK
  <1>2. setting <= Head(owed).version /\ Head(owed).version <= written
    BY <1>1 DEF InOrder, RequestsInOrder
  <1> QED BY <1>1, <1>2 DEF TypeOK, Request, Versions

\* The types are inductive, with that no more writes wait than versions are left.
LEMMA TypeStep ==
    ASSUME TypeOK, Room, LockIsKept, InOrder, [Next]_vars
    PROVE  TypeOK'
  <1> USE DEF TypeOK, RefreshType
  <1>1. CASE UNCHANGED vars
    BY <1>1 DEF vars
  <1>2. CASE Scheduled \/ CooldownEnds
    BY <1>2 DEF Scheduled, CooldownEnds, RefreshStarts
  <1>3. CASE PollBegin \/ PollConnects \/ ConnectEscapes
    <2>1. lock' \in Seq(Writers \cup {Refresher})
      <3>1. lock' \in {lock, Append(lock, Refresher)}
        BY <1>3 DEF PollBegin, PollConnects, ConnectEscapes, JoinsLock
      <3>2. Append(lock, Refresher) \in Seq(Writers \cup {Refresher})
        OBVIOUS
      <3> QED BY <3>1, <3>2
    <2>2. owed' \in Seq(Request) /\ inbox' \in Seq(Packet) /\ lost' \in BOOLEAN
      BY <1>3, NothingType DEF PollBegin, PollConnects, ConnectEscapes
    <2>3. session' \in {"up", "kept", "none"} /\ open' \in BOOLEAN
      BY <1>3 DEF PollBegin, PollConnects, ConnectEscapes, HangUp
    <2>4. RefreshType' /\ {ok', active'} \subseteq BOOLEAN /\ UNCHANGED <<setting, writes, data>>
      BY <1>3 DEF PollBegin, PollConnects, ConnectEscapes, JoinsLock, PollEnds
    <2> QED BY <2>1, <2>2, <2>3, <2>4
  <1>4. CASE ConnectFails \/ ReadFails
    <2>1. AttemptFails /\ lock' \in Seq(Writers \cup {Refresher})
      BY <1>4, LockType DEF ConnectFails, ReadFails, Owns, Release, LockIsKept
    <2>2. owed' \in Seq(Request) /\ inbox' \in Seq(Packet) /\ lost' \in BOOLEAN
      BY <2>1, NothingType DEF AttemptFails
    <2>3. /\ RefreshType' /\ session' = "none" /\ {open', ok', active'} \subseteq BOOLEAN /\ UNCHANGED <<setting, writes, data>>
      BY <2>1, FailsType
    <2> QED BY <2>1, <2>2, <2>3
  <1>5. CASE ReadSends
    <2>1. owed' \in Seq(Request) /\ lost' \in BOOLEAN
      <3>1. [kind |-> "read", version |-> 0] \in Request
        BY DEF Request
      <3> QED BY <1>5, <3>1, SendsType DEF ReadSends
    <2> QED BY <1>5, <2>1 DEF ReadSends
  <1>6. CASE CollectTimeout
    <2>1. lock' \in Seq(Writers \cup {Refresher})
      BY <1>6, CollectType, LockType DEF CollectTimeout, LockIsKept, Owns
    <2> QED BY <1>6, <2>1, CollectType DEF CollectTimeout
  <1>7. CASE CollectPacket
    <2>1. inbox' \in Seq(Packet) /\ Head(inbox).version \in Versions
      <3>1. Head(inbox) \in Packet /\ inbox' \in Seq(Packet)
        BY <1>7, TailFacts DEF CollectPacket
      <3> QED BY <3>1 DEF Packet
    <2>2. CASE CollectEnds
      <3>1. lock' \in Seq(Writers \cup {Refresher})
        BY <1>7, <2>2, CollectType, LockType DEF CollectPacket, LockIsKept, Owns
      <3> QED BY <1>7, <2>1, <2>2, <3>1, CollectType DEF CollectPacket
    <2>3. CASE ~CollectEnds
      BY <1>7, <2>1, <2>3 DEF CollectPacket
    <2> QED BY <2>2, <2>3
  <1>8. CASE Answer
    <2>1. Head(owed) \in Request /\ owed' \in Seq(Request)
      BY <1>8, TailFacts DEF Answer
    <2>2. setting' \in Versions
      BY <1>8, <2>1, HeadIsNext DEF Answer
    <2>3. inbox' \in Seq(Packet)
      <3>1. [kind |-> IF Head(owed).kind = "write" THEN "ack" ELSE "status", version |-> setting'] \in Packet
        BY <2>2 DEF Packet
      <3> QED BY <1>8, <3>1, AppendFacts DEF Answer
    <2> QED BY <1>8, <2>1, <2>2, <2>3 DEF Answer
  <1>9. CASE NeverAnswers
    <2>1. Head(owed) \in Request /\ owed' \in Seq(Request)
      BY <1>9, TailFacts DEF NeverAnswers
    <2>2. setting' \in Versions
      BY <1>9, <2>1 DEF NeverAnswers, Request
    <2> QED BY <1>9, <2>1, <2>2 DEF NeverAnswers
  <1>10. CASE PeerCloses
    <2>1. owed' \in Seq(Request) /\ inbox' \in Seq(Packet)
      <3>1. <<>> \in Seq(Request) /\ <<>> \in Seq(Packet)
        OBVIOUS
      <3> QED BY <1>10, <3>1 DEF PeerCloses
    <2> QED BY <1>10, <2>1 DEF PeerCloses
  <1>11. ASSUME NEW w \in Writers, WriteBegin(w) PROVE TypeOK'
    <2>1. CASE session = "up"
      <3>1. lock' \in Seq(Writers \cup {Refresher})
        <4>1. lock' = Append(lock, w)
          BY <1>11, <2>1, Zenon DEF WriteBegin
        <4> QED BY <4>1, AppendFacts
      <3>2. at' = [at EXCEPT ![w] = "waiting"]
        BY <1>11, <2>1, Zenon DEF WriteBegin
      <3>3. at' \in [Writers -> {"idle", "waiting", "ack"}]
        BY <3>2
      <3> QED BY <1>11, <2>1, <3>1, <3>3 DEF WriteBegin
    <2>2. CASE session # "up"
      BY <1>11, <2>2, RequestType DEF WriteBegin
    <2> QED BY <2>1, <2>2
  <1>12. ASSUME NEW w \in Writers, WriteSends(w) PROVE TypeOK'
    <2>1. written + 1 \in Versions
      <3>1. w \in Waiting
        BY <1>12 DEF WriteSends, Waiting
      <3>2. Cardinality(Waiting) \in Nat /\ Cardinality(Waiting) # 0
        BY <3>1, FS_CardinalityType, FS_EmptySet DEF Room
      <3> QED BY <3>2 DEF Room, Versions
    <2>2. [kind |-> "write", version |-> written'] \in Request
      BY <1>12, <2>1 DEF WriteSends, Request
    <2>3. owed' \in Seq(Request) /\ lost' \in BOOLEAN
      BY <1>12, <2>2, SendsType DEF WriteSends
    <2> QED BY <1>12, <2>1, <2>3 DEF WriteSends
  <1>13. ASSUME NEW w \in Writers, WriteAcked(w) \/ WriteFails(w) PROVE TypeOK'
    <2>1. WriteIsOver(w) /\ Release /\ Owns(w)
      BY <1>13 DEF WriteAcked, WriteFails, WriteIsOver, LockIsKept
    <2>2. lock' \in Seq(Writers \cup {Refresher})
      BY <2>1, TailFacts DEF Owns, Release
    <2>3. inbox' \in Seq(Packet) /\ session' \in {"up", "kept", "none"}
      <3>1. CASE WriteAcked(w)
        BY <3>1, TailFacts DEF WriteAcked
      <3>2. CASE WriteFails(w)
        BY <3>2 DEF WriteFails
      <3> QED BY <1>13, <3>1, <3>2
    <2>4. applied' \in Versions /\ at' \in [Writers -> {"idle", "waiting", "ack"}] /\ sent' \in [Writers -> Versions \cup {0}]
      BY <2>1 DEF WriteIsOver, Versions
    <2>5. RefreshType'
      BY <2>1, RequestType DEF WriteIsOver
    <2> QED BY <2>1, <2>2, <2>3, <2>4, <2>5 DEF WriteIsOver
  <1> QED BY <1>1, <1>2, <1>3, <1>4, <1>5, <1>6, <1>7, <1>8, <1>9, <1>10, <1>11, <1>12, <1>13
      DEF Next, PollStep, WriteStep

-----------------------------------------------------------------------------
(* Freshness.                                                                 *)

\* A request that is sent goes behind the others, or is gone.
LEMMA SendsFacts ==
    ASSUME TypeOK, NEW request \in Request, Sends(request)
    PROVE  \/ lost' /\ owed' = owed /\ request.kind = "read"
           \/ owed' = owed /\ lost' = lost /\ (request.kind = "write" \/ ~open)
           \/ owed' = Append(owed, request) /\ lost' = lost
  BY DEF Sends, TypeOK, Request

\* The lock is kept until it is released.
LEMMA LockStep ==
    ASSUME TypeOK, LockIsKept, [Next]_vars
    PROVE  LockIsKept'
  <1> USE DEF LockIsKept, TypeOK
  <1>1. ASSUME NEW t, lock' = Append(lock, t) PROVE \A u : Owns(u) => Owns(u)'
    BY <1>1 DEF Owns
  <1>2. ASSUME UNCHANGED <<lock, at>>, poll' \in {poll, "idle", "begin", "connect", "waiting"} PROVE LockIsKept'
    BY <1>2 DEF Owns
  <1>3. ASSUME Owns(Refresher), at' = at, poll' \in {"begin", "idle"} PROVE LockIsKept'
    BY <1>3 DEF Owns
  <1>4. RequestRefresh => poll' \in {poll, "begin"}
    BY DEF RequestRefresh, RefreshStarts
  <1>5. AttemptFails => poll' \in {"begin", "idle"} /\ at' = at
    BY DEF AttemptFails, PollEnds
  <1>7. CASE UNCHANGED vars \/ Scheduled \/ CooldownEnds \/ Answer \/ NeverAnswers \/ PeerCloses
    BY <1>2, <1>7 DEF vars, Scheduled, CooldownEnds, RefreshStarts, Answer, NeverAnswers, PeerCloses
  <1>8. CASE PollBegin \/ PollConnects \/ ConnectEscapes
    <2>1. CASE JoinsLock
      <3>1. lock' = Append(lock, Refresher) /\ poll' = "waiting" /\ at' = at
        BY <1>8, <2>1 DEF JoinsLock, PollBegin, PollConnects, ConnectEscapes
      <3> QED BY <1>1, <3>1
    <2>2. CASE ~JoinsLock
      BY <1>2, <1>8, <2>2 DEF PollBegin, PollConnects, ConnectEscapes, PollEnds
    <2> QED BY <2>1, <2>2
  <1>9. CASE ConnectFails
    BY <1>2, <1>5, <1>9 DEF ConnectFails
  <1>10. CASE ReadFails
    BY <1>3, <1>5, <1>10 DEF ReadFails
  <1>11. CASE ReadSends
    BY <1>11 DEF ReadSends, Owns
  <1>12. CASE CollectTimeout \/ CollectPacket
    <2>1. at' = at /\ poll = "collect" /\ (CollectEnds \/ UNCHANGED <<lock, poll>>)
      BY <1>12 DEF CollectTimeout, CollectPacket
    <2>2. CollectEnds => UNCHANGED <<lock, poll>> \/ poll' = "idle"
      BY DEF CollectEnds, PollEnds
    <2> QED BY <1>2, <1>3, <2>1, <2>2
  <1>13. ASSUME NEW w \in Writers, WriteBegin(w) PROVE LockIsKept'
    <2>1. CASE session = "up"
      <3>1. lock' = Append(lock, w)
        BY <1>13, <2>1, Zenon DEF WriteBegin
      <3>2. at' = [at EXCEPT ![w] = "waiting"] /\ poll' = poll
        BY <1>13, <2>1, Zenon DEF WriteBegin, refresh
      <3> QED BY <1>1, <3>1, <3>2
    <2>2. CASE session # "up"
      BY <1>2, <1>4, <1>13, <2>2 DEF WriteBegin
    <2> QED BY <2>1, <2>2
  <1>14. ASSUME NEW w \in Writers, WriteSends(w) PROVE LockIsKept'
    BY <1>14 DEF WriteSends, Owns
  <1>15. ASSUME NEW w \in Writers, WriteAcked(w) \/ WriteFails(w) PROVE LockIsKept'
    <2>1. /\ Owns(w) /\ at' = [at EXCEPT ![w] = "idle"] /\ poll' \in {poll, "begin"}
      BY <1>4, <1>15 DEF WriteAcked, WriteFails, WriteIsOver
    <2>2. poll # "collect" /\ \A u \in Writers : at[u] = "ack" => u = w
      BY <2>1 DEF Owns
    <2> QED BY <2>1, <2>2
  <1> QED BY <1>7, <1>8, <1>9, <1>10, <1>11, <1>12, <1>13, <1>14, <1>15 DEF Next, PollStep, WriteStep

\* The versions left, which a write takes when it begins to wait or sends.
LEMMA RoomStep ==
    ASSUME TypeOK, TypeOK', Room, [Next]_vars
    PROVE  Room'
  <1>1. IsFiniteSet(Waiting) /\ Cardinality(Waiting) \in Nat /\ written \in Int /\ MaxVersion \in Nat
    BY FS_CardinalityType DEF Room, TypeOK, Versions
  <1>2. ASSUME UNCHANGED <<at, written>> PROVE Room'
    BY <1>2 DEF Room, Waiting
  <1>3. ASSUME NEW w \in Writers, at[w] = "waiting", at' = [at EXCEPT ![w] = "idle"] \/ at' = [at EXCEPT ![w] = "ack"],
               written' \in {written, written + 1}
        PROVE  Room'
    <2>1. Waiting' = Waiting \ {w} /\ w \in Waiting
      BY <1>3 DEF Waiting, TypeOK
    <2>2. IsFiniteSet(Waiting') /\ Cardinality(Waiting') = Cardinality(Waiting) - 1
      BY <1>1, <2>1, FS_RemoveElement
    <2> QED BY <1>1, <1>3, <2>2 DEF Room
  <1>4. ASSUME NEW w \in Writers, at[w] = "ack", at' = [at EXCEPT ![w] = "idle"], written' = written PROVE Room'
    <2>1. Waiting' = Waiting
      BY <1>4 DEF Waiting, TypeOK
    <2> QED BY <1>4, <2>1 DEF Room
  <1>5. ASSUME NEW w \in Writers, WriteBegin(w) PROVE Room'
    <2>1. CASE session = "up"
      <3>1. at' = [at EXCEPT ![w] = "waiting"] /\ at[w] = "idle" /\ VersionsLeft
        BY <1>5, <2>1, Zenon DEF WriteBegin
      <3>2. written' = written
        BY <1>5 DEF WriteBegin
      <3>3. Waiting' = Waiting \cup {w} /\ w \notin Waiting
        BY <3>1 DEF Waiting, TypeOK
      <3>4. IsFiniteSet(Waiting') /\ Cardinality(Waiting') = Cardinality(Waiting) + 1
        BY <1>1, <3>3, FS_AddElement
      <3>5. Cardinality(Waiting) < MaxVersion + 1 - written
        BY <3>1 DEF VersionsLeft, Waiting
      <3> QED BY <1>1, <3>2, <3>4, <3>5 DEF Room
    <2>2. CASE session # "up"
      BY <1>2, <1>5, <2>2 DEF WriteBegin
    <2> QED BY <2>1, <2>2
  <1>6. ASSUME NEW w \in Writers, WriteStep(w) PROVE Room'
    BY <1>3, <1>4, <1>6 DEF WriteStep, WriteSends, WriteAcked, WriteFails, WriteIsOver
  <1>7. CASE UNCHANGED vars \/ Scheduled \/ CooldownEnds \/ Answer \/ NeverAnswers \/ PeerCloses
    BY <1>2, <1>7 DEF vars, Scheduled, CooldownEnds, Answer, NeverAnswers, PeerCloses
  <1>8. CASE PollStep
    BY <1>2, <1>8 DEF PollStep, PollBegin, PollConnects, ConnectFails, ConnectEscapes, ReadSends, CollectTimeout, CollectPacket, ReadFails, AttemptFails
  <1> QED BY <1>5, <1>6, <1>7, <1>8 DEF Next

\* What is under way has versions, of which those of requests to read are 0.
LEMMA UnderWay ==
    ASSUME TypeOK
    PROVE  /\ \A i \in DOMAIN inbox : inbox[i].version \in Int /\ 0 <= inbox[i].version
           /\ \A i \in DOMAIN owed : owed[i].version \in Int
           /\ {applied, setting, written, got, data} \subseteq Int
           /\ 0 <= setting
  <1>1. Versions \subseteq Int /\ \A v \in Versions : 0 <= v
    BY DEF Versions
  <1>2. ASSUME NEW i \in DOMAIN inbox PROVE inbox[i] \in Packet
    BY DEF TypeOK
  <1>3. ASSUME NEW i \in DOMAIN owed PROVE owed[i] \in Request
    BY DEF TypeOK
  <1>4. \A packet \in Packet : packet.version \in Versions
    BY DEF Packet
  <1>5. \A request \in Request : request.version \in Versions \cup {0}
    BY DEF Request
  <1>6. \A i \in DOMAIN inbox : inbox[i].version \in Int /\ 0 <= inbox[i].version
    BY <1>1, <1>2, <1>4
  <1>7. \A i \in DOMAIN owed : owed[i].version \in Int
    <2> SUFFICES ASSUME NEW i \in DOMAIN owed PROVE owed[i].version \in Int
      OBVIOUS
    <2>1. owed[i].version \in Versions \cup {0}
      BY <1>3, <1>5
    <2> QED BY <2>1 DEF Versions
  <1> QED BY <1>1, <1>6, <1>7 DEF TypeOK

\* Packets stay in order as they are read, given up, or go unseen.
LEMMA PacketsKeep ==
    ASSUME TypeOK, TypeOK', PacketsInOrder, setting <= setting',
           \/ inbox' = inbox /\ got' \in {got, 0}
           \/ inbox' = <<>> /\ got' \in {got, 0}
           \/ inbox # <<>> /\ inbox' = Tail(inbox) /\ got' \in {got, 0, Head(inbox).version}
    PROVE  PacketsInOrder'
  <1>1. /\ got \in Int /\ got' \in Int /\ setting \in Int /\ setting' \in Int /\ 0 <= setting'
        /\ \A i \in DOMAIN inbox : inbox[i].version \in Int /\ 0 <= inbox[i].version
    BY UnderWay DEF TypeOK, Versions
  <1>2. CASE inbox' = inbox /\ got' \in {got, 0}
    BY <1>1, <1>2 DEF PacketsInOrder
  <1>3. CASE inbox' = <<>> /\ got' \in {got, 0}
    BY <1>1, <1>3 DEF PacketsInOrder
  <1>4. CASE inbox # <<>> /\ inbox' = Tail(inbox) /\ got' \in {got, 0, Head(inbox).version}
    <2>1. /\ 1 \in DOMAIN inbox /\ Head(inbox) = inbox[1]
          /\ \A i \in DOMAIN inbox' : i \in Nat /\ i + 1 \in DOMAIN inbox /\ inbox'[i] = inbox[i + 1] /\ 1 < i + 1
      BY <1>4, TailFacts DEF TypeOK
    <2>2. \A i \in DOMAIN inbox' : got' <= inbox'[i].version /\ inbox'[i].version <= setting'
      BY <1>1, <1>4, <2>1 DEF PacketsInOrder
    <2>3. \A i, j \in DOMAIN inbox' : i < j => inbox'[i].version <= inbox'[j].version
      BY <2>1 DEF PacketsInOrder
    <2>4. got' <= setting'
      BY <1>1, <1>4, <2>1 DEF PacketsInOrder
    <2> QED BY <2>2, <2>3, <2>4 DEF PacketsInOrder
  <1> QED BY <1>2, <1>3, <1>4

\* Requests stay in order as they are taken or lost.
LEMMA RequestsKeep ==
    ASSUME TypeOK, TypeOK', RequestsInOrder, written <= written',
           \/ owed' = owed /\ setting' = setting
           \/ owed' = <<>> /\ setting' = setting
           \/ /\ owed # <<>> /\ owed' = Tail(owed)
              /\ setting' = setting \/ (setting' = Head(owed).version /\ Head(owed).kind = "write")
    PROVE  RequestsInOrder'
  <1>1. /\ written \in Int /\ written' \in Int /\ setting \in Int /\ setting' \in Int
        /\ \A i \in DOMAIN owed : owed[i].version \in Int
    BY UnderWay DEF TypeOK, Versions
  <1>2. CASE owed' = owed /\ setting' = setting
    BY <1>1, <1>2 DEF RequestsInOrder
  <1>3. CASE owed' = <<>> /\ setting' = setting
    BY <1>3 DEF RequestsInOrder
  <1>4. CASE /\ owed # <<>> /\ owed' = Tail(owed)
             /\ setting' = setting \/ (setting' = Head(owed).version /\ Head(owed).kind = "write")
    <2>1. /\ 1 \in DOMAIN owed /\ Head(owed) = owed[1]
          /\ \A i \in DOMAIN owed' : i \in Nat /\ i + 1 \in DOMAIN owed /\ owed'[i] = owed[i + 1] /\ 1 < i + 1
      BY <1>4, TailFacts DEF TypeOK
    <2>2. \A i \in DOMAIN owed' : owed'[i].kind = "write" => setting' <= owed'[i].version /\ owed'[i].version <= written'
      BY <1>1, <1>4, <2>1 DEF RequestsInOrder
    <2>3. \A i, j \in DOMAIN owed' :
            i < j /\ owed'[i].kind = "write" /\ owed'[j].kind = "write" => owed'[i].version <= owed'[j].version
      BY <2>1 DEF RequestsInOrder
    <2>4. \A i \in DOMAIN owed' : owed'[i].kind = "read" => owed'[i].version = 0
      BY <2>1 DEF RequestsInOrder
    <2> QED BY <2>2, <2>3, <2>4 DEF RequestsInOrder
  <1> QED BY <1>2, <1>3, <1>4

\* A request stays in order behind the others.
LEMMA RequestsGrow ==
    ASSUME TypeOK, TypeOK', RequestsInOrder, setting <= written, setting' = setting, NEW request \in Request, Sends(request),
           \/ request.kind = "read" /\ request.version = 0 /\ written' = written
           \/ request.kind = "write" /\ request.version = written' /\ written' = written + 1
    PROVE  RequestsInOrder'
  <1>1. /\ written \in Int /\ setting \in Int /\ written <= written'
        /\ \A i \in DOMAIN owed : owed[i].version \in Int
    BY UnderWay DEF TypeOK, Versions
  <1>2. CASE owed' = owed
    BY <1>1, <1>2, RequestsKeep
  <1>3. CASE owed' = Append(owed, request)
    <2>1. \A i \in DOMAIN owed' : \/ i \in DOMAIN owed /\ owed'[i] = owed[i] /\ i < Len(owed) + 1
                                  \/ i = Len(owed) + 1 /\ owed'[i] = request
      BY <1>3, AppendFacts DEF TypeOK
    <2>2. \A i \in DOMAIN owed' : owed'[i].kind = "write" => setting' <= owed'[i].version /\ owed'[i].version <= written'
      BY <1>1, <2>1 DEF RequestsInOrder
    <2>3. ASSUME NEW i \in DOMAIN owed', NEW j \in DOMAIN owed', i < j, owed'[i].kind = "write", owed'[j].kind = "write"
          PROVE  owed'[i].version <= owed'[j].version
      <3>1. CASE j \in DOMAIN owed /\ owed'[j] = owed[j] /\ j < Len(owed) + 1
        <4>1. i \in DOMAIN owed /\ owed'[i] = owed[i]
          <5>1. Len(owed) \in Nat /\ DOMAIN owed = 1..Len(owed)
            BY DEF TypeOK
          <5> QED BY <2>1, <2>3, <3>1, <5>1
        <4> QED BY <2>3, <3>1, <4>1 DEF RequestsInOrder
      <3>2. CASE j = Len(owed) + 1 /\ owed'[j] = request
        <4>1. i \in DOMAIN owed /\ owed'[i] = owed[i]
          <5>1. Len(owed) \in Nat /\ DOMAIN owed = 1..Len(owed)
            BY DEF TypeOK
          <5> QED BY <2>1, <2>3, <3>2, <5>1
        <4> QED BY <1>1, <2>3, <3>2, <4>1 DEF RequestsInOrder
      <3> QED BY <2>1, <3>1, <3>2
    <2>4. \A i \in DOMAIN owed' : owed'[i].kind = "read" => owed'[i].version = 0
      BY <2>1 DEF RequestsInOrder
    <2> QED BY <2>2, <2>3, <2>4 DEF RequestsInOrder
  <1> QED BY <1>2, <1>3 DEF Sends

\* Versions stay in order.
LEMMA OrderStep ==
    ASSUME TypeOK, TypeOK', InOrder, LockIsKept, [Next]_vars
    PROVE  InOrder'
  <1> USE DEF InOrder
  <1>1. {applied, setting, written, got} \subseteq Int /\ {applied', setting', written', got'} \subseteq Int
    BY DEF TypeOK, Versions
  <1>2. AttemptFails => owed' = <<>> /\ inbox' = <<>> /\ got' = 0 /\ UNCHANGED <<setting, writes>>
    BY DEF AttemptFails, HangUp, PollEnds
  <1>3. RequestRefresh => got' = got
    BY DEF RequestRefresh, RefreshStarts
  <1>4. [kind |-> "read", version |-> 0] \in Request
    BY DEF Request
  <1>5. ASSUME Sends([kind |-> "read", version |-> 0]), UNCHANGED <<setting, written>> PROVE RequestsInOrder'
    BY <1>4, <1>5, RequestsGrow
  <1>6. CASE UNCHANGED vars \/ Scheduled \/ CooldownEnds
    <2>1. UNCHANGED <<device, writes, got>>
      BY <1>6 DEF vars, Scheduled, CooldownEnds, RefreshStarts
    <2> QED BY <1>1, <2>1, PacketsKeep, RequestsKeep
  <1>7. CASE PollBegin \/ PollConnects \/ ConnectEscapes \/ PeerCloses
    <2>1. UNCHANGED <<setting, writes>> /\ got' \in {got, 0} /\ owed' \in {owed, <<>>} /\ inbox' \in {inbox, <<>>}
      BY <1>7 DEF PollBegin, PollConnects, ConnectEscapes, PeerCloses, HangUp, PollEnds
    <2> QED BY <1>1, <2>1, PacketsKeep, RequestsKeep
  <1>8. CASE ConnectFails \/ ReadFails
    <2>1. AttemptFails
      BY <1>8 DEF ConnectFails, ReadFails
    <2> QED BY <1>1, <1>2, <2>1, PacketsKeep, RequestsKeep
  <1>9. CASE ReadSends
    <2>1. UNCHANGED <<setting, writes, got, inbox>>
      BY <1>9 DEF ReadSends
    <2> QED BY <1>1, <1>5, <1>9, <2>1, PacketsKeep DEF ReadSends
  <1>10. CASE CollectTimeout \/ CollectPacket
    <2>1. UNCHANGED <<setting, writes>>
      BY <1>10 DEF CollectTimeout, CollectPacket
    <2>2. RequestsInOrder'
      <3>1. CollectEnds \/ UNCHANGED owed
        BY <1>10 DEF CollectTimeout, CollectPacket
      <3>2. CollectEnds => UNCHANGED owed \/ Sends([kind |-> "read", version |-> 0])
        BY DEF CollectEnds
      <3> QED BY <1>1, <1>5, <2>1, <3>1, <3>2, RequestsKeep
    <2>3. PacketsInOrder'
      <3>1. CollectEnds => got' \in {got, 0}
        BY DEF CollectEnds, PollEnds
      <3>2. \/ inbox' = inbox /\ got' \in {got, 0}
            \/ inbox # <<>> /\ inbox' = Tail(inbox) /\ got' \in {got, 0, Head(inbox).version}
        BY <1>10, <3>1 DEF CollectTimeout, CollectPacket
      <3> QED BY <1>1, <2>1, <3>2, PacketsKeep
    <2> QED BY <1>1, <2>1, <2>2, <2>3
  <1>11. CASE Answer
    <2>1. /\ setting <= setting' /\ setting' <= written
          /\ setting' = setting \/ (setting' = Head(owed).version /\ Head(owed).kind = "write")
      BY <1>1, <1>11, HeadIsNext DEF Answer
    <2>2. RequestsInOrder'
      BY <1>1, <1>11, <2>1, RequestsKeep DEF Answer
    <2>3. PacketsInOrder'
      <3> DEFINE packet == [kind |-> IF Head(owed).kind = "write" THEN "ack" ELSE "status", version |-> setting']
      <3>1. inbox' = Append(inbox, packet) /\ got' = got /\ packet.version = setting' /\ packet \in Packet
        BY <1>11 DEF Answer, Packet, TypeOK
      <3> HIDE DEF packet
      <3>2. \A i \in DOMAIN inbox' : \/ i \in DOMAIN inbox /\ inbox'[i] = inbox[i] /\ i < Len(inbox) + 1
                                     \/ i = Len(inbox) + 1 /\ inbox'[i] = packet
        BY <3>1, AppendFacts DEF TypeOK
      <3>3. /\ Len(inbox) \in Nat /\ DOMAIN inbox = 1..Len(inbox) /\ \A i \in DOMAIN inbox : inbox[i].version \in Int
            /\ DOMAIN inbox' \subseteq Nat
        BY UnderWay DEF TypeOK
      <3>4. \A i \in DOMAIN inbox' : got' <= inbox'[i].version /\ inbox'[i].version <= setting'
        BY <1>1, <2>1, <3>1, <3>2, <3>3 DEF PacketsInOrder
      <3>5. \A i, j \in DOMAIN inbox' : i < j => inbox'[i].version <= inbox'[j].version
        BY <1>1, <2>1, <3>1, <3>2, <3>3 DEF PacketsInOrder
      <3> QED BY <1>1, <2>1, <3>1, <3>4, <3>5 DEF PacketsInOrder
    <2>4. UNCHANGED <<applied, written>>
      BY <1>11 DEF Answer
    <2> QED BY <1>1, <2>1, <2>2, <2>3, <2>4
  <1>12. CASE NeverAnswers
    <2>1. owed # <<>> /\ owed' = Tail(owed) /\ UNCHANGED <<inbox, got, applied, written>>
      BY <1>12 DEF NeverAnswers
    <2>2. setting' = setting \/ (setting' = Head(owed).version /\ Head(owed).kind = "write")
      <3>1. Head(owed) \in Request
        BY <2>1, TailFacts DEF TypeOK
      <3>2. setting' = setting \/ (setting' = Head(owed).version /\ Head(owed).version # 0)
        BY <1>12 DEF NeverAnswers
      <3>3. Head(owed).kind = "read" => Head(owed).version = 0
        BY <2>1, TailFacts DEF InOrder, RequestsInOrder, TypeOK
      <3> QED BY <3>1, <3>2, <3>3 DEF Request
    <2>3. setting <= setting' /\ setting' <= written
      BY <1>1, <2>1, <2>2, HeadIsNext
    <2> QED BY <1>1, <2>1, <2>2, <2>3, PacketsKeep, RequestsKeep
  <1>13. ASSUME NEW w \in Writers, WriteBegin(w) PROVE InOrder'
    <2>1. UNCHANGED <<device, written, applied, got>>
      BY <1>3, <1>13 DEF WriteBegin
    <2> QED BY <1>1, <2>1, PacketsKeep, RequestsKeep
  <1>14. ASSUME NEW w \in Writers, WriteSends(w) PROVE InOrder'
    <2>1. UNCHANGED <<setting, inbox, got, applied>> /\ written' = written + 1
      BY <1>14 DEF WriteSends
    <2>2. [kind |-> "write", version |-> written'] \in Request
      BY DEF Request, TypeOK
    <2>3. RequestsInOrder'
      BY <1>1, <1>14, <2>1, <2>2, RequestsGrow DEF WriteSends
    <2> QED BY <1>1, <2>1, <2>3, PacketsKeep
  <1>15. ASSUME NEW w \in Writers, WriteAcked(w) \/ WriteFails(w) PROVE InOrder'
    <2>1. WriteIsOver(w) /\ (inbox' = inbox \/ (inbox # <<>> /\ inbox' = Tail(inbox)))
      BY <1>15 DEF WriteAcked, WriteFails
    <2>2. UNCHANGED <<setting, owed, written, got>> /\ applied' <= setting
      BY <1>1, <1>3, <2>1 DEF WriteIsOver
    <2> QED BY <1>1, <2>1, <2>2, PacketsKeep, RequestsKeep
  <1> QED BY <1>6, <1>7, <1>8, <1>9, <1>10, <1>11, <1>12, <1>13, <1>14, <1>15 DEF Next, PollStep, WriteStep

\* While a poll connects there is no stream.
LEMMA ConnectingStep ==
    ASSUME TypeOK, Connecting, [Next]_vars
    PROVE  Connecting'
  <1> USE DEF Connecting
  <1>1. ASSUME poll' \in {poll, "idle", "begin", "waiting", "collect"}, open' = open \/ ~open' \/ poll' # "connect"
        PROVE  Connecting'
    BY <1>1
  <1>2. RequestRefresh => poll' \in {poll, "begin"}
    BY DEF RequestRefresh, RefreshStarts
  <1>3. CASE UNCHANGED vars \/ Scheduled \/ CooldownEnds \/ Answer \/ NeverAnswers \/ PeerCloses
    BY <1>1, <1>3 DEF vars, Scheduled, CooldownEnds, RefreshStarts, Answer, NeverAnswers, PeerCloses
  <1>4. CASE PollBegin \/ PollConnects
    BY <1>4 DEF PollBegin, PollConnects, JoinsLock, HangUp
  <1>5. CASE ConnectFails \/ ConnectEscapes \/ ReadFails
    BY <1>5 DEF ConnectFails, ConnectEscapes, ReadFails, AttemptFails, PollEnds
  <1>6. CASE ReadSends \/ CollectTimeout \/ CollectPacket
    BY <1>6 DEF ReadSends, CollectTimeout, CollectPacket, CollectEnds, PollEnds
  <1>7. ASSUME NEW w \in Writers, WriteBegin(w) \/ WriteStep(w) PROVE Connecting'
    <2>1. open' = open /\ poll' \in {poll, "begin"}
      BY <1>2, <1>7 DEF WriteBegin, WriteStep, WriteSends, WriteAcked, WriteFails, WriteIsOver
    <2> QED BY <1>1, <2>1
  <1> QED BY <1>3, <1>4, <1>5, <1>6, <1>7 DEF Next, PollStep

\* What is to come stays to come while requests and packets only grow.
LEMMA StatusGrows ==
    ASSUME TypeOK, StatusComes, applied' = applied,
           owed' = owed \/ (\E request \in Request : owed' = Append(owed, request)),
           inbox' = inbox \/ (inbox # <<>> /\ inbox' = Tail(inbox) /\ Head(inbox).kind = "ack")
    PROVE  StatusComes'
  <1>1. ASSUME NEW i \in DOMAIN owed PROVE i \in DOMAIN owed' /\ owed'[i] = owed[i]
    <2>1. CASE owed' = owed
      BY <1>1, <2>1
    <2>2. ASSUME NEW request \in Request, owed' = Append(owed, request) PROVE i \in DOMAIN owed' /\ owed'[i] = owed[i]
      BY <1>1, <2>2, AppendFacts DEF TypeOK
    <2> QED BY <2>1, <2>2
  <1>2. ASSUME NEW i \in DOMAIN inbox, inbox[i].kind = "status" PROVE \E j \in DOMAIN inbox' : inbox'[j] = inbox[i]
    <2>1. CASE inbox' = inbox
      BY <1>2, <2>1
    <2>2. CASE inbox # <<>> /\ inbox' = Tail(inbox) /\ Head(inbox).kind = "ack"
      <3>1. Head(inbox) = inbox[1] /\ (i = 1 \/ \E j \in DOMAIN Tail(inbox) : Tail(inbox)[j] = inbox[i])
        BY <1>2, <2>2, TailFacts DEF TypeOK
      <3> QED BY <1>2, <2>2, <3>1
    <2> QED BY <2>1, <2>2
  <1> QED BY <1>1, <1>2 DEF StatusComes

\* A request to read is answered, if it is not lost and there is a stream.
LEMMA ReadIsOwed ==
    ASSUME TypeOK, Sends([kind |-> "read", version |-> 0])
    PROVE  \/ lost' \/ ~open
           \/ /\ lost' = lost /\ owed' = Append(owed, [kind |-> "read", version |-> 0])
              /\ \E i \in DOMAIN owed' : owed'[i].kind = "read"
  <1> DEFINE request == [kind |-> "read", version |-> 0]
  <1>1. request \in Request /\ request.kind = "read"
    BY DEF Request
  <1> SUFFICES ASSUME owed' = Append(owed, request), lost' = lost
               PROVE  \E i \in DOMAIN owed' : owed'[i].kind = "read"
    BY <1>1, SendsFacts
  <1> HIDE DEF request
  <1>2. Len(owed) + 1 \in DOMAIN owed' /\ owed'[Len(owed) + 1] = request
    BY <1>1, AppendFacts DEF TypeOK
  <1> QED BY <1>1, <1>2

\* A status answers a request to read, and says what the device has taken.
LEMMA AnswerIsFresh ==
    ASSUME TypeOK, TypeOK', InOrder, StatusComes, Answer
    PROVE  StatusComes'
  <1> DEFINE packet == [kind |-> IF Head(owed).kind = "write" THEN "ack" ELSE "status", version |-> setting']
  <1>1. packet \in Packet /\ packet.version = setting' /\ packet.kind = (IF Head(owed).kind = "write" THEN "ack" ELSE "status")
    BY DEF TypeOK, Packet
  <1>2. owed # <<>> /\ owed' = Tail(owed) /\ inbox' = Append(inbox, packet) /\ applied' = applied
        /\ setting' = IF Head(owed).kind = "write" THEN Head(owed).version ELSE setting
    BY DEF Answer
  <1> HIDE DEF packet
  <1>3. \A i \in DOMAIN inbox : i \in DOMAIN inbox' /\ inbox'[i] = inbox[i]
    BY <1>1, <1>2, AppendFacts DEF TypeOK
  <1>4. Len(inbox) + 1 \in DOMAIN inbox' /\ inbox'[Len(inbox) + 1] = packet
    BY <1>1, <1>2, AppendFacts DEF TypeOK
  <1>5. CASE \E i \in DOMAIN inbox : inbox[i].kind = "status" /\ inbox[i].version >= applied
    BY <1>2, <1>3, <1>5 DEF StatusComes
  <1>6. ASSUME NEW i \in DOMAIN owed, owed[i].kind = "read" PROVE StatusComes'
    <2>1. Head(owed) = owed[1] /\ (i = 1 \/ \E j \in DOMAIN owed' : owed'[j] = owed[i])
      BY <1>2, TailFacts DEF TypeOK
    <2>2. CASE \E j \in DOMAIN owed' : owed'[j] = owed[i]
      BY <1>6, <2>2 DEF StatusComes
    <2>3. CASE i = 1
      <3>1. packet.kind = "status" /\ packet.version = setting /\ setting >= applied'
        BY <1>1, <1>2, <1>6, <2>1, <2>3, UnderWay DEF InOrder
      <3> QED BY <1>4, <3>1 DEF StatusComes
    <2> QED BY <2>1, <2>2, <2>3
  <1> QED BY <1>5, <1>6 DEF StatusComes

\* Freshness is kept.
LEMMA FreshStep ==
    ASSUME TypeOK, TypeOK', InOrder, LockIsKept, Connecting, AnswerComes, FreshComes, [Next]_vars
    PROVE  AnswerComes' /\ FreshComes'
  <1> USE DEF AnswerComes, FreshComes
  <1>1. ASSUME ~open' \/ lost' \/ poll' \in {"begin", "connect", "waiting"} PROVE AnswerComes' /\ FreshComes'
    BY <1>1
  <1>2. ASSUME UNCHANGED <<open, lost, poll, got, data, again, applied>>, StatusComes => StatusComes'
        PROVE  AnswerComes' /\ FreshComes'
    BY <1>2
  <1>3. CASE UNCHANGED vars
    BY <1>2, <1>3 DEF vars, StatusComes
  <1>4. CASE Scheduled \/ PollBegin \/ PollConnects
    BY <1>1, <1>4 DEF Scheduled, PollBegin, PollConnects, JoinsLock, RefreshStarts
  <1>5. CASE CooldownEnds
    <2>1. CASE again
      BY <1>1, <1>5, <2>1 DEF CooldownEnds, RefreshStarts
    <2>2. CASE ~again
      <3>1. UNCHANGED <<device, open, poll, got, data, again, applied>>
        BY <1>5, <2>2 DEF CooldownEnds
      <3> QED BY <1>2, <3>1 DEF StatusComes
    <2> QED BY <2>1, <2>2
  <1>6. CASE ConnectFails \/ ConnectEscapes \/ ReadFails \/ PeerCloses
    BY <1>1, <1>6 DEF Connecting, ConnectEscapes, ConnectFails, ReadFails, PeerCloses, AttemptFails, HangUp
  <1>7. CASE ReadSends
    <2>1. ~open' \/ lost' \/ StatusComes'
      BY <1>7, ReadIsOwed DEF ReadSends, StatusComes
    <2> QED BY <1>1, <2>1
  <1>8. ASSUME CollectEnds, UNCHANGED <<open, applied>>, poll = "collect",
               inbox' = inbox \/ (inbox # <<>> /\ inbox' = Tail(inbox) /\ Head(inbox).kind = "ack")
        PROVE  AnswerComes' /\ FreshComes'
    <2>1. CASE Sends([kind |-> "read", version |-> 0])
      <3>1. ~open' \/ lost' \/ StatusComes'
        BY <1>8, <2>1, ReadIsOwed DEF StatusComes
      <3> QED BY <1>1, <3>1
    <2>2. CASE UNCHANGED <<owed, lost>> /\ data' = got /\ poll' = "idle"
      <3>1. StatusComes => StatusComes'
        BY <1>8, <2>2, StatusGrows
      <3> QED BY <1>8, <2>2, <3>1
    <2> QED BY <1>8, <2>1, <2>2 DEF CollectEnds, Replaces, PollEnds
  <1>9. CASE CollectTimeout
    BY <1>8, <1>9 DEF CollectTimeout
  <1>10. CASE CollectPacket
    <2>1. CASE Head(inbox).kind = "status" /\ got' = Head(inbox).version
      <3>1. UNCHANGED <<open, lost, owed, poll, applied, data, again>> /\ inbox # <<>> /\ inbox' = Tail(inbox) /\ poll = "collect"
        BY <1>10, <2>1 DEF CollectPacket
      <3>2. ASSUME NEW i \in DOMAIN inbox, inbox[i].kind = "status", inbox[i].version >= applied
            PROVE  StatusComes' \/ got' >= applied'
        <4>1. Head(inbox) = inbox[1] /\ (i = 1 \/ \E j \in DOMAIN inbox' : inbox'[j] = inbox[i])
          BY <3>1, TailFacts DEF TypeOK
        <4> QED BY <2>1, <3>1, <3>2, <4>1 DEF StatusComes
      <3>3. got' >= got
        <4>1. Head(inbox) = inbox[1] /\ 1 \in DOMAIN inbox
          BY <3>1, TailFacts DEF TypeOK
        <4> QED BY <2>1, <4>1, UnderWay DEF InOrder, PacketsInOrder
      <3>4. got >= applied => got' >= applied'
        BY <3>1, <3>3, UnderWay DEF TypeOK, Versions
      <3> QED BY <3>1, <3>2, <3>4 DEF StatusComes
    <2>2. CASE Head(inbox).kind = "ack"
      <3>1. UNCHANGED <<open, applied>> /\ poll = "collect" /\ inbox # <<>> /\ inbox' = Tail(inbox)
        BY <1>10 DEF CollectPacket
      <3>2. CASE CollectEnds
        BY <1>8, <2>2, <3>1, <3>2
      <3>3. CASE UNCHANGED <<owed, lost, lock, refresh, shown, debouncer>>
        BY <1>2, <2>2, <3>1, <3>3, StatusGrows
      <3> QED BY <1>10, <2>2, <3>2, <3>3 DEF CollectPacket
    <2> QED BY <1>10, <2>1, <2>2 DEF CollectPacket
  <1>11. CASE Answer
    <2>1. UNCHANGED <<open, lost, poll, got, data, again, applied>>
      BY <1>11 DEF Answer
    <2> QED BY <1>2, <1>11, <2>1, AnswerIsFresh
  <1>12. CASE NeverAnswers
    <2>1. CASE Head(owed).kind = "read"
      BY <1>1, <1>12, <2>1 DEF NeverAnswers
    <2>2. CASE Head(owed).kind # "read"
      <3>1. UNCHANGED <<inbox, open, lost, poll, got, data, again, applied>> /\ owed # <<>> /\ owed' = Tail(owed)
        BY <1>12, <2>2 DEF NeverAnswers, TypeOK
      <3>2. Head(owed) = owed[1] /\ \A i \in DOMAIN owed : i = 1 \/ \E j \in DOMAIN owed' : owed'[j] = owed[i]
        BY <3>1, TailFacts DEF TypeOK
      <3>3. StatusComes => StatusComes'
        BY <2>2, <3>1, <3>2 DEF StatusComes
      <3> QED BY <1>2, <3>1, <3>3
    <2> QED BY <2>1, <2>2
  <1>13. ASSUME NEW w \in Writers, WriteBegin(w) PROVE AnswerComes' /\ FreshComes'
    <2>1. CASE session = "up"
      <3>1. UNCHANGED <<device, open, poll, got, data, again, applied>>
        BY <1>13, <2>1 DEF WriteBegin
      <3> QED BY <1>2, <3>1 DEF StatusComes
    <2>2. CASE session # "up"
      <3>1. RequestRefresh /\ UNCHANGED <<device, open, data, applied>>
        BY <1>13, <2>2 DEF WriteBegin
      <3>2. (again' \/ poll' # "idle") /\ (poll' = "collect" => poll = "collect" /\ got' = got)
        BY <3>1 DEF RequestRefresh, RefreshStarts
      <3> QED BY <3>1, <3>2 DEF StatusComes
    <2> QED BY <2>1, <2>2
  <1>14. ASSUME NEW w \in Writers, WriteSends(w) PROVE AnswerComes' /\ FreshComes'
    <2>1. [kind |-> "write", version |-> written'] \in Request /\ Sends([kind |-> "write", version |-> written'])
      BY <1>14 DEF WriteSends, Request, TypeOK
    <2>2. lost' = lost /\ (owed' = owed \/ \E request \in Request : owed' = Append(owed, request))
      BY <2>1, SendsFacts
    <2>3. UNCHANGED <<inbox, open, poll, got, data, again, applied>>
      BY <1>14 DEF WriteSends
    <2> QED BY <1>2, <2>2, <2>3, StatusGrows
  <1>15. ASSUME NEW w \in Writers, WriteAcked(w) \/ WriteFails(w) PROVE AnswerComes' /\ FreshComes'
    <2>1. Owns(w) /\ RequestRefresh
      BY <1>15 DEF WriteAcked, WriteFails, WriteIsOver, LockIsKept
    <2>2. poll # "collect"
      BY <2>1 DEF LockIsKept, Owns
    <2>3. again' \/ poll' # "idle"
      BY <2>1 DEF RequestRefresh, RefreshStarts
    <2>4. poll' # "collect"
      BY <2>1, <2>2 DEF RequestRefresh, RefreshStarts
    <2> QED BY <2>3, <2>4
  <1> QED BY <1>3, <1>4, <1>5, <1>6, <1>7, <1>9, <1>10, <1>11, <1>12, <1>13, <1>14, <1>15
      DEF Next, PollStep, WriteStep

-----------------------------------------------------------------------------
(* The theorems.                                                              *)

\* What makes freshness inductive.
FreshInv == Room /\ LockIsKept /\ Connecting /\ InOrder /\ AnswerComes /\ FreshComes

\* It is invariant, with the types.
LEMMA FreshInvariant == Spec => [](TypeOK /\ FreshInv)
  <1>1. Init => TypeOK /\ FreshInv
    <2> SUFFICES ASSUME Init PROVE TypeOK /\ FreshInv
      OBVIOUS
    <2>1. TypeOK
      <3>1. 1 \in Versions
        BY DEF Versions
      <3>2. <<>> \in Seq(Request) /\ <<>> \in Seq(Packet) /\ <<>> \in Seq(Writers \cup {Refresher})
        OBVIOUS
      <3> QED BY <3>1, <3>2 DEF Init, TypeOK
    <2>2. Waiting = {} /\ written = 1
      BY DEF Init, Waiting
    <2>3. Room
      BY <2>2, FS_EmptySet DEF Room
    <2>4. LockIsKept /\ InOrder
      BY DEF Init, LockIsKept, InOrder, PacketsInOrder, RequestsInOrder
    <2>5. Connecting /\ AnswerComes /\ FreshComes
      BY DEF Init, Connecting, AnswerComes, FreshComes
    <2> QED BY <2>1, <2>3, <2>4, <2>5 DEF FreshInv
  <1>2. TypeOK /\ FreshInv /\ [Next]_vars => (TypeOK /\ FreshInv)'
    <2> SUFFICES ASSUME TypeOK, FreshInv, [Next]_vars PROVE (TypeOK /\ FreshInv)'
      OBVIOUS
    <2>1. TypeOK'
      BY TypeStep DEF FreshInv
    <2> QED BY <2>1, LockStep, RoomStep, OrderStep, ConnectingStep, FreshStep DEF FreshInv
  <1> QED BY <1>1, <1>2, PTL DEF Spec

\* The state of tasks, debouncer and device keeps its type, for any number of
\* writers that wait and send.
THEOREM TypeCorrect == Spec => []TypeOK
  BY FreshInvariant, PTL

\* Although the debouncer drops and defers refreshes, and late answers are taken
\* for those to other requests, what is shown when all is quiet is no older than
\* any write that the device has taken.
THEOREM FreshWhenQuiet == Spec => []QuietIsFresh
  <1>1. FreshInv => QuietIsFresh
    BY DEF FreshInv, FreshComes, StatusComes, QuietIsFresh, Quiet
  <1> QED BY <1>1, FreshInvariant, PTL
=============================================================================
