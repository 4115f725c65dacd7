------------------------- MODULE TcpTransport_proof -------------------------
(* Proofs about TcpTransport, for any set of writers, any number of          *)
(* connection names and any bounds on the device: its types and its lock,    *)
(* that the streams have one reader each and no socket is left behind, and   *)
(* that it implements Coordinator.                                           *)
EXTENDS TcpImplementsCoordinator, SequenceTheorems, FiniteSetTheorems, TLAPS

USE ConstantsAssumption DEF Tasks, session, locals, outcome, network

-----------------------------------------------------------------------------
(* What the building blocks of a step do to the loop's queue and to the      *)
(* program counters.                                                         *)

\* A sequence of positive length has a head.
LEMMA NonEmpty ==
    ASSUME NEW S, NEW s \in Seq(S), Len(s) # 0
    PROVE  s # <<>>
  BY EmptySeq

\* The queue keeps its type when its head goes, or goes on.
LEMMA QueueType ==
    ASSUME TypeOK, NEW t \in Tasks, ready # <<>>
    PROVE  /\ Tail(ready) \in Seq(Entry)
           /\ [ready EXCEPT ![1] = <<t, "go">>] \in Seq(Entry)
           /\ [ready EXCEPT ![1] = <<t, "go">>] # <<>>
  <1>1. ready \in Seq(Entry) /\ <<t, "go">> \in Entry
    BY DEF TypeOK, Entry
  <1>2. Tail(ready) \in Seq(Entry)
    BY <1>1, HeadTailProperties
  <1>3. [ready EXCEPT ![1] = <<t, "go">>] \in Seq(Entry)
    BY <1>1, ExceptSeq, LenProperties, EmptySeq
  <1>4. Len([ready EXCEPT ![1] = <<t, "go">>]) > 0
    BY <1>1, ExceptSeq, LenProperties, EmptySeq
  <1> QED BY <1>2, <1>3, <1>4, EmptySeq

\* An element of a sequence with a new head is the head or an old element.
LEMMA Prepended ==
    ASSUME NEW S, NEW e \in S, NEW s \in Seq(S)
    PROVE  \A i \in DOMAIN (<<e>> \o s) :
             \/ (<<e>> \o s)[i] = e
             \/ i - 1 \in DOMAIN s /\ (<<e>> \o s)[i] = s[i - 1]
  <1> DEFINE a == <<e>>
  <1>1. a \in Seq(S) /\ Len(a) = 1 /\ a[1] = e
    OBVIOUS
  <1> HIDE DEF a
  <1>2. /\ Len(a \o s) = Len(a) + Len(s)
        /\ \A i \in 1..Len(a) + Len(s) :
              (a \o s)[i] = IF i <= Len(a) THEN a[i] ELSE s[i - Len(a)]
    BY <1>1, ConcatProperties
  <1>3. Len(s) \in Nat /\ DOMAIN s = 1..Len(s) /\ DOMAIN (a \o s) = 1..(1 + Len(s))
    BY <1>1, <1>2, ConcatProperties, LenProperties
  <1>4. \A i \in DOMAIN (a \o s) :
          (a \o s)[i] = e \/ (i - 1 \in DOMAIN s /\ (a \o s)[i] = s[i - 1])
    BY <1>1, <1>2, <1>3
  <1> QED BY <1>4 DEF a

\* Going on at once keeps the types of places and queue.
LEMMA ContinueType ==
    ASSUME TypeOK, NEW t \in Tasks, NEW p \in Place, ready # <<>>, Continue(t, p)
    PROVE  pc' \in [Tasks -> Place] /\ ready' \in Seq(Entry)
  BY QueueType DEF Continue, TypeOK

\* Awaiting keeps the types of places and queue.
LEMMA AwaitType ==
    ASSUME TypeOK, NEW t \in Tasks, NEW p \in Place, ready # <<>>, Await(t, p)
    PROVE  pc' \in [Tasks -> Place] /\ ready' \in Seq(Entry)
  BY QueueType DEF Await, TypeOK

\* Ending keeps the types of places and queue.
LEMMA FinishType ==
    ASSUME TypeOK, NEW t \in Tasks, NEW p \in Place, ready # <<>>, Finish(t, p)
    PROVE  /\ pc' \in [Tasks -> Place] /\ ready' \in Seq(Entry)
           /\ on' \in [Tasks -> Conns \cup {None}]
  BY AwaitType DEF Finish, TypeOK

\* What releasing the lock schedules is an entry of the queue.
LEMMA NextOwnerType ==
    ASSUME TypeOK
    PROVE  NextOwner \in Seq(Entry)
  <1>1. CASE Len(lock) > 1
    <2>1. lock[2] \in Tasks
      BY <1>1, ElementOfSeq DEF TypeOK
    <2> QED BY <1>1, <2>1 DEF NextOwner, Entry
  <1>2. CASE ~(Len(lock) > 1)
    BY <1>2, EmptySeq DEF NextOwner
  <1> QED BY <1>1, <1>2

\* The lock without its owner is a lock.
LEMMA LockTail ==
    ASSUME TypeOK, lock # <<>>
    PROVE  Tail(lock) \in Seq(Tasks)
  BY HeadTailProperties DEF TypeOK

\* The tasks that a connection resumes are finitely many entries.
LEMMA ResumingType ==
    ASSUME NEW c, NEW where, NEW r \in Resuming(c, where)
    PROVE  r \in Seq(Entry)
  <1> DEFINE S == AwaitedBy(c, where)
  <1>1. IsFiniteSet(S)
    <2>1. IsFiniteSet(Tasks)
      <3>1. IsFiniteSet({Poll}) /\ IsFiniteSet({Unload})
        BY FS_Singleton
      <3>2. IsFiniteSet({Poll} \cup {Unload})
        BY <3>1, FS_Union
      <3>3. Tasks = ({Poll} \cup {Unload}) \cup Writers
        OBVIOUS
      <3> QED BY <3>2, <3>3, FS_Union DEF ConstantsAssumption
    <2> QED BY <2>1, FS_Subset DEF AwaitedBy
  <1>2. Cardinality(S) \in Nat
    BY <1>1, FS_CardinalityType
  <1>3. PICK s \in InAnyOrder(S) : r = [i \in DOMAIN s |-> <<s[i], "go">>]
    BY DEF Resuming
  <1>4. s \in [1..Cardinality(S) -> S]
    BY <1>3 DEF InAnyOrder
  <1>5. r \in [1..Cardinality(S) -> Entry]
    BY <1>3, <1>4 DEF AwaitedBy, Entry
  <1> QED BY <1>2, <1>5, SeqDef

\* Leaving the lock keeps types, when somebody owns it.
LEMMA ReleaseType ==
    ASSUME TypeOK, NEW t \in Tasks, ready # <<>>, lock # <<>>, ReleaseAndEnd(t)
    PROVE  /\ lock' \in Seq(Tasks)
           /\ pc' \in [Tasks -> Place] /\ ready' \in Seq(Entry)
           /\ on' \in [Tasks -> Conns \cup {None}]
  <1>1. Tail(ready) \o NextOwner \in Seq(Entry)
    BY QueueType, NextOwnerType, ConcatProperties
  <1> QED BY <1>1, LockTail DEF ReleaseAndEnd, TypeOK, Place

\* Asking for the lock keeps types.
LEMMA AcquireType ==
    ASSUME TypeOK, NEW t \in Tasks, ready # <<>>, Acquire(t)
    PROVE  lock' \in Seq(Tasks) /\ pc' \in [Tasks -> Place] /\ ready' \in Seq(Entry)
  <1>1. Append(lock, t) \in Seq(Tasks)
    BY AppendProperties DEF TypeOK
  <1>2. "locked" \in Place
    BY DEF Place
  <1> QED BY <1>1, <1>2, ContinueType, AwaitType DEF Acquire

\* Sending a request keeps types.
LEMMA SendType ==
    ASSUME TypeOK, NEW t \in Tasks, NEW p \in Place, ready # <<>>, CanSend,
           NEW kind \in {"login", "read", "write"}, Send(t, kind, p)
    PROVE  /\ pc' \in [Tasks -> Place] /\ ready' \in Seq(Entry)
           /\ on' \in [Tasks -> Conns \cup {None}]
           /\ owed' \in [Conns -> Seq(Request)]
  <1>1. pc' \in [Tasks -> Place] /\ ready' \in Seq(Entry)
    BY ContinueType DEF Send
  <1>2. conn \in Conns /\ owed[conn] \in Seq(Request)
    BY DEF CanSend, TypeOK
  <1>3. kind \in Request
    BY DEF Request
  <1>4. Append(owed[conn], kind) \in Seq(Request)
    BY <1>2, <1>3, AppendProperties
  <1> QED BY <1>1, <1>2, <1>4 DEF Send, TypeOK

\* Taking a packet keeps the type of what is received.
LEMMA TakeType ==
    ASSUME TypeOK, NEW t \in Tasks, inbox[on[t]] # <<>>, Take(t)
    PROVE  inbox' \in [Conns -> Seq(Packet)]
  <1>1. ASSUME on[t] \in Conns PROVE Tail(inbox[on[t]]) \in Seq(Packet)
    BY <1>1, HeadTailProperties DEF TypeOK
  <1> QED BY <1>1 DEF Take, TypeOK

\* disconnect() up to wait_closed keeps types.
LEMMA DisconnectType ==
    ASSUME TypeOK, NEW t \in Tasks, NEW p \in Place, ready # <<>>, Disconnect(t, p)
    PROVE  TypeOK'
  <1>1. CASE HasSocket
    <2>1. conn \in Conns
      BY <1>1 DEF HasSocket, TypeOK
    <2>2. <<<<conn, "lost">>>> \in Seq(Entry) /\ <<>> \in Seq(Entry)
      BY <2>1, EmptySeq DEF Entry
    <2>3. Tail(ready) \in Seq(Entry)
      BY QueueType
    <2> DEFINE teardown == IF sock[conn] = "closing" THEN <<>> ELSE <<<<conn, "lost">>>>
    <2>4. teardown \in Seq(Entry)
      BY <2>2
    <2>5. ready' \in Seq(Entry)
      <3>1. ready' = Tail(ready) \o teardown
        BY <1>1 DEF Disconnect
      <3> HIDE DEF teardown
      <3> QED BY <3>1, <2>3, <2>4, ConcatProperties
    <2>6. sock' \in [Conns -> {"closed", "open", "fin", "rst", "closing"}]
      BY <1>1, <2>1 DEF Disconnect, TypeOK
    <2>7. on' \in [Tasks -> Conns \cup {None}] /\ pc' \in [Tasks -> Place]
      BY <1>1, <2>1 DEF Disconnect, TypeOK
    <2> QED BY <2>5, <2>6, <2>7 DEF Disconnect, DropSession, TypeOK
  <1>2. CASE ~HasSocket
    <2>1. pc' \in [Tasks -> Place] /\ ready' \in Seq(Entry)
      BY <1>2, ContinueType DEF Disconnect
    <2> QED BY <1>2, <2>1 DEF Disconnect, DropSession, TypeOK
  <1> QED BY <1>1, <1>2

\* The rest of disconnect() keeps types.
LEMMA LetGoType ==
    ASSUME TypeOK, LetGo
    PROVE  /\ conn' \in Conns \cup {None} /\ iv' \in Conns \cup {None}
           /\ encrypted' \in BOOLEAN /\ firstReadDone' \in BOOLEAN
           /\ inbox' \in [Conns -> Seq(Packet)] /\ auth' \subseteq Conns
           /\ sock' = sock /\ owed' = owed
  BY EmptySeq DEF LetGo, TypeOK

-----------------------------------------------------------------------------
(* The lock and the queue.                                                   *)

Elsewhere == Place \ (Holding \cup {"setup", "locked"})
Resting == {"setup", "idle"}
Absent(t, r) == \A i \in DOMAIN r : r[i][1] # t

\* The loop takes the head off its queue.
LEMMA DropHead ==
    ASSUME NEW r \in Seq(Entry), NEW l, NEW at, r # <<>>, Disciplined(r, l, at)
    PROVE  /\ Tail(r) \in Seq(Entry) /\ Disciplined(Tail(r), l, at)
           /\ \A t \in Tasks : r[1][1] = t => Absent(t, Tail(r))
  <1>1. /\ Tail(r) \in Seq(Entry)
        /\ DOMAIN r = 1..Len(r) /\ Len(r) \in Nat \ {0}
        /\ DOMAIN Tail(r) = 1..(Len(r) - 1)
        /\ \A i \in 1..(Len(r) - 1) : Tail(r)[i] = r[i + 1]
    BY HeadTailProperties, LenProperties, EmptySeq
  <1>2. \A i \in DOMAIN Tail(r) : i + 1 \in DOMAIN r /\ i + 1 # 1 /\ Tail(r)[i] = r[i + 1]
    BY <1>1
  <1>3. \A i, j \in DOMAIN Tail(r) : i + 1 = j + 1 => i = j
    BY <1>1
  <1>4. WakeUpsAreDue(Tail(r), l, at)
    BY <1>2, <1>3 DEF Disciplined, WakeUpsAreDue
  <1>5. \A t \in Tasks : r[1][1] = t => Absent(t, Tail(r))
    BY <1>1, <1>2 DEF Disciplined, WakeUpsAreDue, Absent
  <1> QED BY <1>1, <1>4, <1>5 DEF Disciplined

\* Entries for tasks that were not in the queue go behind it.
LEMMA Schedule ==
    ASSUME NEW r \in Seq(Entry), NEW s \in Seq(Entry), NEW l, NEW at, Disciplined(r, l, at),
           \A i \in DOMAIN s : s[i][1] \in Tasks =>
               WakeUpIsDue(s[i][1], s[i][2], l, at) /\ Absent(s[i][1], r),
           \A i, j \in DOMAIN s : s[i][1] \in Tasks /\ s[i][1] = s[j][1] => i = j
    PROVE  r \o s \in Seq(Entry) /\ Disciplined(r \o s, l, at)
  <1>1. /\ r \o s \in Seq(Entry)
        /\ DOMAIN r = 1..Len(r) /\ Len(r) \in Nat
        /\ DOMAIN s = 1..Len(s) /\ Len(s) \in Nat
        /\ DOMAIN (r \o s) = 1..(Len(r) + Len(s))
        /\ \A i \in 1..(Len(r) + Len(s)) :
              (r \o s)[i] = IF i <= Len(r) THEN r[i] ELSE s[i - Len(r)]
    BY ConcatProperties, LenProperties
  <1>2. ASSUME NEW i \in DOMAIN (r \o s)
        PROVE  \/ i \in DOMAIN r /\ (r \o s)[i] = r[i]
               \/ i - Len(r) \in DOMAIN s /\ (r \o s)[i] = s[i - Len(r)]
    BY <1>1
  <1>3. ASSUME NEW t \in Tasks, NEW i \in DOMAIN (r \o s), (r \o s)[i][1] = t
        PROVE  /\ WakeUpIsDue(t, (r \o s)[i][2], l, at)
               /\ \A j \in DOMAIN (r \o s) : (r \o s)[j][1] = t => i = j
    <2>1. CASE i \in DOMAIN r /\ (r \o s)[i] = r[i]
      BY <1>2, <1>3, <2>1 DEF Disciplined, WakeUpsAreDue, Absent
    <2>2. CASE i - Len(r) \in DOMAIN s /\ (r \o s)[i] = s[i - Len(r)]
      <3>1. WakeUpIsDue(t, (r \o s)[i][2], l, at) /\ Absent(t, r)
        BY <1>3, <2>2
      <3>2. ASSUME NEW j \in DOMAIN (r \o s), (r \o s)[j][1] = t PROVE i = j
        <4>1. j - Len(r) \in DOMAIN s /\ (r \o s)[j] = s[j - Len(r)]
          BY <1>2, <3>1, <3>2 DEF Absent
        <4>2. i - Len(r) = j - Len(r)
          BY <1>3, <2>2, <3>2, <4>1
        <4> QED BY <1>1, <4>2
      <3> QED BY <3>1, <3>2
    <2> QED BY <1>2, <2>1, <2>2
  <1>4. WakeUpsAreDue(r \o s, l, at)
    BY <1>3 DEF WakeUpsAreDue
  <1> QED BY <1>1, <1>4 DEF Disciplined

\* A task the loop is running stays at the head of the queue.
LEMMA KeepHead ==
    ASSUME NEW r \in Seq(Entry), NEW l, NEW at, NEW t \in Tasks, Disciplined(r, l, at),
           Absent(t, r), at[t] \notin Resting, at[t] = "locked" => l # <<>> /\ l[1] = t
    PROVE  Disciplined(<<<<t, "go">>>> \o r, l, at)
  <1> DEFINE s == <<<<t, "go">>>>
  <1>1. s \in Seq(Entry) /\ DOMAIN s = {1} /\ s[1] = <<t, "go">>
    BY DEF Entry
  <1>2. WakeUpIsDue(t, "go", l, at)
    BY DEF WakeUpIsDue, Resting
  <1>3. Disciplined(s, l, at)
    <2>1. WakeUpsAreDue(s, l, at)
      BY <1>1, <1>2 DEF WakeUpsAreDue
    <2> QED BY <2>1 DEF Disciplined
  <1>4. ASSUME NEW i \in DOMAIN r, r[i][1] \in Tasks
        PROVE  WakeUpIsDue(r[i][1], r[i][2], l, at) /\ Absent(r[i][1], s)
    BY <1>1, <1>4 DEF Absent, Disciplined, WakeUpsAreDue
  <1>5. \A i, j \in DOMAIN r : r[i][1] \in Tasks /\ r[i][1] = r[j][1] => i = j
    BY DEF Disciplined, WakeUpsAreDue
  <1> HIDE DEF s
  <1>6. Disciplined(s \o r, l, at)
    BY <1>1, <1>3, <1>4, <1>5, Schedule
  <1> QED BY <1>6 DEF s

\* A task that is not queued moves, as the lock's owner or without the lock.
LEMMA Relocate ==
    ASSUME NEW r, NEW l \in Seq(Tasks), NEW at \in [Tasks -> Place], Disciplined(r, l, at),
           NEW t \in Tasks, NEW p \in Place, Absent(t, r),
           \/ p \in Holding /\ l # <<>> /\ l[1] = t
           \/ p \in Elsewhere /\ \A k \in DOMAIN l : l[k] # t
    PROVE  Disciplined(r, l, [at EXCEPT ![t] = p])
  <1> DEFINE to == [at EXCEPT ![t] = p]
  <1>1. to[t] = p /\ \A u \in Tasks : u # t => to[u] = at[u]
    OBVIOUS
  <1>2. \A k \in DOMAIN l : l[k] \in Tasks
    BY ElementOfSeq, LenProperties
  <1>3. p \in Holding \/ \A k \in DOMAIN l : l[k] # t
    OBVIOUS
  <1> HIDE DEF to
  <1>4. HolderOwns(l, to)
    BY <1>1 DEF Disciplined, HolderOwns, Elsewhere
  <1>5. QueuedWait(l, to)
    BY <1>1, <1>2, <1>3 DEF Disciplined, QueuedWait
  <1>6. WakeUpsAreDue(r, l, to)
    BY <1>1 DEF Disciplined, WakeUpsAreDue, WakeUpIsDue, Absent
  <1>7. OnlyUnloadIsSetUp(to)
    BY <1>1 DEF Disciplined, OnlyUnloadIsSetUp, Elsewhere, Holding, Reading
  <1> QED BY <1>4, <1>5, <1>6, <1>7 DEF Disciplined, to

\* A task asks for the lock.
LEMMA Enter ==
    ASSUME NEW r, NEW l \in Seq(Tasks), NEW at \in [Tasks -> Place], Disciplined(r, l, at),
           NEW t \in Tasks, Absent(t, r), at[t] \in Elsewhere
    PROVE  Disciplined(r, Append(l, t), [at EXCEPT ![t] = "locked"])
  <1> DEFINE to == [at EXCEPT ![t] = "locked"]
             m == Append(l, t)
  <1>1. to[t] = "locked" /\ \A u \in Tasks : u # t => to[u] = at[u]
    OBVIOUS
  <1>2. /\ DOMAIN l = 1..Len(l) /\ Len(l) \in Nat /\ DOMAIN m = 1..(Len(l) + 1)
        /\ m # <<>> /\ \A k \in 1..(Len(l) + 1) : m[k] = IF k <= Len(l) THEN l[k] ELSE t
    BY AppendProperties, LenProperties
  <1>3. \A k \in DOMAIN l : l[k] \in Tasks /\ l[k] # t
    BY ElementOfSeq, LenProperties DEF Disciplined, QueuedWait, Elsewhere
  <1>4. l # <<>> => m[1] = l[1]
    BY <1>2, EmptySeq
  <1> HIDE DEF to, m
  <1>5. HolderOwns(m, to)
    BY <1>1, <1>2, <1>4 DEF Disciplined, HolderOwns, Holding, Reading
  <1>6. QueuedWait(m, to)
    BY <1>1, <1>2, <1>3 DEF Disciplined, QueuedWait
  <1>7. ASSUME NEW u \in Tasks, u # t, NEW why, WakeUpIsDue(u, why, l, at)
        PROVE  WakeUpIsDue(u, why, m, to)
    BY <1>1, <1>2, <1>4, <1>7 DEF WakeUpIsDue
  <1>8. WakeUpsAreDue(r, m, to)
    BY <1>7 DEF Disciplined, WakeUpsAreDue, Absent
  <1>9. OnlyUnloadIsSetUp(to)
    BY <1>1 DEF Disciplined, OnlyUnloadIsSetUp
  <1> QED BY <1>5, <1>6, <1>8, <1>9 DEF Disciplined, to, m

\* The owner of the lock leaves it.
LEMMA Release ==
    ASSUME NEW r, NEW l \in Seq(Tasks), NEW at \in [Tasks -> Place], Disciplined(r, l, at),
           NEW t \in Tasks, Absent(t, r), l # <<>>, l[1] = t, NEW p \in Elsewhere
    PROVE  /\ Disciplined(r, Tail(l), [at EXCEPT ![t] = p])
           /\ \A k \in DOMAIN Tail(l) : Tail(l)[k] = l[k + 1] /\ Tail(l)[k] # t
  <1> DEFINE to == [at EXCEPT ![t] = p]
             m == Tail(l)
  <1>1. to[t] = p /\ \A u \in Tasks : u # t => to[u] = at[u]
    BY DEF Elsewhere
  <1>2. /\ DOMAIN l = 1..Len(l) /\ Len(l) \in Nat \ {0} /\ DOMAIN m = 1..(Len(l) - 1)
        /\ \A k \in 1..(Len(l) - 1) : m[k] = l[k + 1]
    BY HeadTailProperties, LenProperties, EmptySeq
  <1>3. \A k \in DOMAIN m : k + 1 \in DOMAIN l /\ k + 1 # 1 /\ m[k] = l[k + 1]
    BY <1>2
  <1>4. \A k \in DOMAIN m : m[k] \in Tasks /\ m[k] # t
    BY <1>2, <1>3, ElementOfSeq DEF Disciplined, QueuedWait
  <1>5. \A j, k \in DOMAIN m : j + 1 = k + 1 => j = k
    BY <1>2
  <1> HIDE DEF to, m
  <1>6. HolderOwns(m, to)
    BY <1>1 DEF Disciplined, HolderOwns, Elsewhere
  <1>7. QueuedWait(m, to)
    BY <1>1, <1>3, <1>4, <1>5 DEF Disciplined, QueuedWait
  <1>8. ASSUME NEW u \in Tasks, u # t, NEW why, WakeUpIsDue(u, why, l, at)
        PROVE  WakeUpIsDue(u, why, m, to)
    BY <1>1, <1>3, <1>8 DEF WakeUpIsDue
  <1>9. WakeUpsAreDue(r, m, to)
    BY <1>8 DEF Disciplined, WakeUpsAreDue, Absent
  <1>10. OnlyUnloadIsSetUp(to)
    BY <1>1 DEF Disciplined, OnlyUnloadIsSetUp, Elsewhere
  <1> QED BY <1>3, <1>4, <1>6, <1>7, <1>9, <1>10 DEF Disciplined, to, m

Without(l, i) == SubSeq(l, 1, i - 1) \o SubSeq(l, i + 1, Len(l))

\* A task that still waits for the lock leaves the queue, cancelled.
LEMMA Leave ==
    ASSUME NEW r, NEW l \in Seq(Tasks), NEW at \in [Tasks -> Place], Disciplined(r, l, at),
           NEW t \in Tasks, Absent(t, r), at[t] = "locked", l[1] # t,
           NEW i \in DOMAIN l, l[i] = t
    PROVE  /\ Without(l, i) \in Seq(Tasks) /\ Disciplined(r, Without(l, i), at)
           /\ Without(l, i)[1] = l[1] /\ \A k \in DOMAIN Without(l, i) : Without(l, i)[k] # t
  <1> DEFINE a == SubSeq(l, 1, i - 1)
             b == SubSeq(l, i + 1, Len(l))
             m == a \o b
             old(k) == IF k < i THEN k ELSE k + 1
  <1>1. DOMAIN l = 1..Len(l) /\ Len(l) \in Nat /\ i \in 2..Len(l)
    BY LenProperties
  <1>2. \A k \in 1..Len(l) : l[k] \in Tasks
    BY ElementOfSeq
  <1>3. a \in Seq(Tasks) /\ Len(a) = i - 1 /\ \A k \in 1..(i - 1) : a[k] = l[k]
    <2>1. i - 1 \in Int /\ 1 \in Int /\ \A k \in 1..(i - 1) : l[k] \in Tasks
      BY <1>1, <1>2
    <2> QED BY <1>1, <2>1, SubSeqProperties
  <1>4. b \in Seq(Tasks) /\ Len(b) = Len(l) - i /\ \A k \in 1..(Len(l) - i) : b[k] = l[k + i]
    <2>1. i + 1 \in Int /\ Len(l) \in Int /\ \A k \in (i + 1)..Len(l) : l[k] \in Tasks
      BY <1>1, <1>2
    <2>2. /\ b \in Seq(Tasks)
          /\ Len(b) = IF i + 1 <= Len(l) THEN Len(l) - (i + 1) + 1 ELSE 0
          /\ \A k \in 1..(Len(l) - (i + 1) + 1) : b[k] = l[(i + 1) + k - 1]
      BY <2>1, SubSeqProperties
    <2> QED BY <1>1, <2>2, SMTT(30)
  <1> HIDE DEF a, b
  <1>5. m \in Seq(Tasks) /\ DOMAIN m = 1..(Len(l) - 1)
    <2>1. m \in Seq(Tasks) /\ Len(m) = Len(a) + Len(b)
      BY <1>3, <1>4, ConcatProperties
    <2> HIDE DEF m
    <2> QED BY <1>1, <1>3, <1>4, <2>1, LenProperties
  <1> HIDE DEF m
  <1>6. ASSUME NEW k \in DOMAIN m
        PROVE  old(k) \in DOMAIN l /\ old(k) # i /\ m[k] = l[old(k)]
    <2>1. k \in 1..(Len(a) + Len(b)) /\ k \in 1..(Len(l) - 1)
      BY <1>1, <1>3, <1>4, <1>5
    <2>2. m[k] = IF k <= Len(a) THEN a[k] ELSE b[k - Len(a)]
      <3> SUFFICES (a \o b)[k] = IF k <= Len(a) THEN a[k] ELSE b[k - Len(a)]
        BY DEF m
      <3> QED BY <1>3, <1>4, <2>1, ConcatProperties, SMTT(30)
    <2>3. CASE k < i
      BY <1>1, <1>3, <2>1, <2>2, <2>3
    <2>4. CASE ~(k < i)
      <3>1. k - (i - 1) \in 1..(Len(l) - i) /\ k - (i - 1) + i = k + 1
        BY <1>1, <2>1, <2>4
      <3>2. m[k] = b[k - (i - 1)]
        BY <1>1, <1>3, <2>1, <2>2, <2>4
      <3>3. m[k] = l[k + 1]
        BY <1>4, <3>1, <3>2
      <3> QED BY <1>1, <2>1, <2>4, <3>3
    <2> QED BY <2>3, <2>4
  <1>7. \A j, k \in DOMAIN m : old(j) = old(k) => j = k
    BY <1>1, <1>5
  <1>8. m # <<>> /\ m[1] = l[1]
    <2>1. 1 \in DOMAIN m /\ old(1) = 1
      BY <1>1, <1>5
    <2> QED BY <1>5, <1>6, <2>1, EmptySeq, SMTT(30)
  <1> HIDE DEF old
  <1>9. \A k \in DOMAIN m : m[k] # t
    BY <1>6 DEF Disciplined, QueuedWait
  <1>10. HolderOwns(m, at) /\ QueuedWait(m, at)
    BY <1>6, <1>7, <1>8 DEF Disciplined, HolderOwns, QueuedWait
  <1>11. WakeUpsAreDue(r, m, at)
    BY <1>6, <1>8 DEF Disciplined, WakeUpsAreDue, WakeUpIsDue
  <1> QED BY <1>5, <1>8, <1>9, <1>10, <1>11 DEF Disciplined, Without, m, a, b

\* Tasks that start, or may start, have nothing to do with the lock.
MayStart(p, q) == p \in {"setup", "idle"} /\ q \in {"idle", "begin"}

\* A task that starts, or may start, leaves the discipline as it is.
LEMMA Idle ==
    ASSUME NEW r, NEW l, NEW at, NEW to, Disciplined(r, l, at),
           \A i \in DOMAIN l : l[i] \in Tasks,
           \A u \in Tasks : to[u] = at[u] \/ MayStart(at[u], to[u])
    PROVE  Disciplined(r, l, to)
  <1> USE DEF Holding, Reading, Receiving, MayStart
  <1>1. HolderOwns(l, to)
    BY DEF Disciplined, HolderOwns
  <1>2. QueuedWait(l, to)
    BY DEF Disciplined, QueuedWait
  <1>3. WakeUpsAreDue(r, l, to)
    BY DEF Disciplined, WakeUpsAreDue, WakeUpIsDue
  <1>4. OnlyUnloadIsSetUp(to)
    BY DEF Disciplined, OnlyUnloadIsSetUp
  <1> QED BY <1>1, <1>2, <1>3, <1>4 DEF Disciplined

-----------------------------------------------------------------------------
(* The same for the building blocks of a step.                               *)

Unlocked(t) == \A k \in DOMAIN lock : lock[k] # t
Owns(t) == lock # <<>> /\ lock[1] = t

\* The loop's head is an entry; replacing it is putting another before the rest.
LEMMA HeadEntry ==
    ASSUME TypeOK, ready # <<>>
    PROVE  /\ ready[1] \in Entry
           /\ \A e \in Entry : [ready EXCEPT ![1] = e] = <<e>> \o Tail(ready)
  <1>1. ready \in Seq(Entry) /\ 1 \in 1..Len(ready)
    BY EmptySeq, LenProperties DEF TypeOK
  <1>2. ASSUME NEW e \in Entry PROVE [ready EXCEPT ![1] = e] = <<e>> \o Tail(ready)
    <2>1. <<e>> \in Seq(Entry) /\ Tail(ready) \in Seq(Entry)
      BY <1>1, HeadTailProperties
    <2> QED BY <1>1, <2>1, HeadTailProperties, ExceptSeq, ConcatProperties, SeqEqual
  <1> QED BY <1>1, <1>2, ElementOfSeq

\* Where a task that the loop runs stands with the lock.
LEMMA HeadAndLock ==
    ASSUME TypeOK, LockDiscipline, NEW t \in Tasks, NEW p \in Place, Runs(t, p)
    PROVE  /\ Why \in {"go", "timeout", "cancel"}
           /\ p \in Elsewhere => Unlocked(t)
           /\ p \in Holding => Owns(t)
           /\ p = "locked" /\ Why = "go" => Owns(t)
           /\ p = "locked" => Why # "timeout"
           /\ Why = "cancel" => t = Poll
           /\ p = "locked" /\ Why = "cancel" => Unlocked(t)
  <1>1. ready # <<>> /\ ready[1][1] = t /\ pc[t] = p
    BY DEF Runs
  <1>2. ready[1] \in Entry /\ 1 \in DOMAIN ready
    BY <1>1, HeadEntry, LenProperties, EmptySeq DEF TypeOK
  <1>3. Why \in {"go", "timeout", "cancel"}
    BY <1>1, <1>2 DEF Entry, Why
  <1>4. WakeUpIsDue(t, Why, lock, pc)
    BY <1>1, <1>2 DEF LockDiscipline, Disciplined, WakeUpsAreDue, Why
  <1>5. p \in Elsewhere => Unlocked(t)
    BY <1>1 DEF LockDiscipline, Disciplined, QueuedWait, Unlocked, Elsewhere
  <1>6. p \in Holding => Owns(t)
    BY <1>1 DEF LockDiscipline, Disciplined, HolderOwns, Owns
  <1> QED BY <1>1, <1>3, <1>4, <1>5, <1>6 DEF WakeUpIsDue, Owns, Unlocked, Receiving

Queued(e, r) == \E i \in DOMAIN r : r[i] = e

\* Joining two queues loses no entry.
LEMMA QueuedBehind ==
    ASSUME NEW r \in Seq(Entry), NEW s \in Seq(Entry), NEW e, Queued(e, r) \/ Queued(e, s)
    PROVE  Queued(e, r \o s)
  <1>1. /\ DOMAIN r = 1..Len(r) /\ Len(r) \in Nat /\ DOMAIN s = 1..Len(s) /\ Len(s) \in Nat
        /\ DOMAIN (r \o s) = 1..(Len(r) + Len(s))
        /\ \A i \in 1..(Len(r) + Len(s)) : (r \o s)[i] = IF i <= Len(r) THEN r[i] ELSE s[i - Len(r)]
    BY ConcatProperties, LenProperties
  <1>2. ASSUME NEW i \in DOMAIN r, r[i] = e PROVE i \in DOMAIN (r \o s) /\ (r \o s)[i] = e
    BY <1>1, <1>2
  <1>3. ASSUME NEW i \in DOMAIN s, s[i] = e
        PROVE  i + Len(r) \in DOMAIN (r \o s) /\ (r \o s)[i + Len(r)] = e
    BY <1>1, <1>3
  <1> QED BY <1>2, <1>3 DEF Queued

\* An entry of another task than the one that runs stays in the queue.
LEMMA StaysQueued ==
    ASSUME TypeOK, ready # <<>>, NEW e, Queued(e, ready), e[1] # ready[1][1]
    PROVE  Queued(e, Tail(ready))
  <1>1. PICK i \in DOMAIN ready : ready[i] = e
    BY DEF Queued
  <1>2. i # 1
    BY <1>1
  <1>3. i - 1 \in DOMAIN Tail(ready) /\ Tail(ready)[i - 1] = ready[i]
    BY <1>1, <1>2, HeadTailProperties, LenProperties, EmptySeq DEF TypeOK
  <1> QED BY <1>1, <1>3 DEF Queued

\* The owner of the lock is awake still, when another task takes a step.
LEMMA AwakeStill ==
    ASSUME TypeOK, LockDiscipline, ready # <<>>, NEW l, NEW at, NEW x \in Seq(Entry),
           l # <<>> => lock # <<>> /\ l[1] = lock[1],
           \A u \in Tasks : at[u] = "locked" /\ l # <<>> /\ l[1] = u => pc[u] = "locked" /\ u # ready[1][1]
    PROVE  OwnerIsAwake(Tail(ready) \o x, l, at) /\ OwnerIsAwake(Tail(ready), l, at)
  <1>1. Tail(ready) \in Seq(Entry)
    BY HeadTailProperties DEF TypeOK
  <1>2. ASSUME NEW u \in Tasks, l # <<>>, l[1] = u, at[u] = "locked"
        PROVE  Queued(<<u, "go">>, Tail(ready))
    <2>1. Queued(<<u, "go">>, ready)
      BY <1>2 DEF LockDiscipline, OwnerIsAwake, Queued
    <2> QED BY <1>2, <2>1, StaysQueued
  <1> QED BY <1>1, <1>2, QueuedBehind, SMTT(30) DEF OwnerIsAwake, Queued

\* An owner that is awake stays so when more is scheduled.
LEMMA AwakeAmong ==
    ASSUME NEW r \in Seq(Entry), NEW s \in Seq(Entry), NEW l, NEW at,
           OwnerIsAwake(r, l, at) \/ OwnerIsAwake(s, l, at)
    PROVE  OwnerIsAwake(r \o s, l, at)
  <1>1. ASSUME NEW t \in Tasks, l # <<>>, l[1] = t, at[t] = "locked"
        PROVE  Queued(<<t, "go">>, r \o s)
    <2>1. Queued(<<t, "go">>, r) \/ Queued(<<t, "go">>, s)
      BY <1>1 DEF OwnerIsAwake, Queued
    <2> QED BY <2>1, QueuedBehind
  <1> QED BY <1>1 DEF OwnerIsAwake, Queued

\* A running task goes on or awaits, without changing the lock.
LEMMA MoveDiscipline ==
    ASSUME TypeOK, LockDiscipline, NEW t \in Tasks, NEW p \in Place,
           ready # <<>>, ready[1][1] = t, lock' = lock,
           (Continue(t, p) /\ p \notin Resting) \/ Await(t, p),
           (p \in Holding /\ Owns(t)) \/ (p \in Elsewhere /\ Unlocked(t))
    PROVE  LockDiscipline'
  <1>1. Disciplined(Tail(ready), lock, pc) /\ Absent(t, Tail(ready)) /\ Tail(ready) \in Seq(Entry)
    BY DropHead DEF TypeOK, LockDiscipline
  <1> DEFINE to == [pc EXCEPT ![t] = p]
  <1>2. Disciplined(Tail(ready), lock, to)
    BY <1>1, Relocate DEF TypeOK, Owns, Unlocked
  <1>3. pc' = to /\ to[t] = p
    BY DEF Continue, Await, TypeOK
  <1>4. p # "locked"
    BY DEF Elsewhere, Holding, Reading
  <1>5. \A u \in Tasks : to[u] = "locked" => pc[u] = "locked" /\ u # t
    BY <1>3, <1>4 DEF TypeOK
  <1>6. \A x \in Seq(Entry) : /\ OwnerIsAwake(Tail(ready) \o x, lock, to)
                             /\ OwnerIsAwake(Tail(ready), lock, to)
    BY <1>5, AwakeStill
  <1>7. CASE Await(t, p)
    BY <1>1, <1>2, <1>3, <1>7, <1>6 DEF Await, LockDiscipline
  <1>8. CASE Continue(t, p) /\ p \notin Resting
    <2>1. ready' = <<<<t, "go">>>> \o Tail(ready)
      BY <1>8, HeadEntry DEF Continue, Entry
    <2>2. Disciplined(ready', lock, to)
      BY <1>1, <1>2, <1>3, <1>8, <1>4, <2>1, KeepHead
    <2>3. OwnerIsAwake(ready', lock, to)
      <3> DEFINE s == <<<<t, "go">>>>
      <3>1. s \in Seq(Entry)
        BY DEF Entry
      <3>2. OwnerIsAwake(Tail(ready), lock, to)
        BY <1>6, <3>1
      <3> HIDE DEF s, to
      <3>3. OwnerIsAwake(s \o Tail(ready), lock, to)
        BY <1>1, <3>1, <3>2, AwakeAmong
      <3> QED BY <2>1, <3>3 DEF s
    <2> QED BY <1>3, <2>2, <2>3 DEF LockDiscipline
  <1> QED BY <1>7, <1>8

\* What is behind the head of the queue was behind it before.
LEMMA TailElements ==
    ASSUME TypeOK, ready # <<>>
    PROVE  \A i \in DOMAIN Tail(ready) : i + 1 \in DOMAIN ready /\ Tail(ready)[i] = ready[i + 1]
  BY HeadTailProperties, LenProperties, EmptySeq DEF TypeOK

\* A running task asks for the lock.
LEMMA AcquireDiscipline ==
    ASSUME TypeOK, LockDiscipline, NEW t \in Tasks, ready # <<>>, ready[1][1] = t,
           pc[t] \in Elsewhere, Acquire(t)
    PROVE  LockDiscipline'
  <1>1. Disciplined(Tail(ready), lock, pc) /\ Absent(t, Tail(ready)) /\ Tail(ready) \in Seq(Entry)
    BY DropHead DEF TypeOK, LockDiscipline
  <1> DEFINE to == [pc EXCEPT ![t] = "locked"]
  <1>2. Disciplined(Tail(ready), lock', to)
    BY <1>1, Enter DEF TypeOK, Acquire
  <1>3. pc' = to /\ to[t] = "locked"
    BY DEF Acquire, Continue, Await, TypeOK
  <1>4. CASE lock = <<>>
    <2>1. ready' = <<<<t, "go">>>> \o Tail(ready)
      BY <1>4, HeadEntry DEF Acquire, Continue, Entry
    <2>2. lock' # <<>> /\ lock'[1] = t
      BY <1>4, AppendProperties, EmptySeq DEF Acquire, TypeOK
    <2>3. to[t] \notin Resting
      BY <1>3 DEF Resting
    <2>4. Disciplined(ready', lock', to)
      BY <1>1, <1>2, <2>1, <2>2, <2>3, KeepHead
    <2>5. OwnerIsAwake(ready', lock', to)
      <3>1. ready' = [ready EXCEPT ![1] = <<t, "go">>] /\ 1 \in DOMAIN ready
        BY <1>4, LenProperties, EmptySeq DEF Acquire, Continue, TypeOK
      <3>2. 1 \in DOMAIN ready' /\ ready'[1] = <<t, "go">>
        BY <3>1
      <3> QED BY <2>2, <3>2 DEF OwnerIsAwake
    <2> QED BY <1>3, <2>4, <2>5 DEF LockDiscipline
  <1>5. CASE lock # <<>>
    <2>1. lock' # <<>> /\ lock'[1] = lock[1]
      <3>1. /\ lock \in Seq(Tasks) /\ Len(lock) \in Nat \ {0} /\ lock' = Append(lock, t)
        BY <1>5, LenProperties, EmptySeq DEF Acquire, TypeOK
      <3>2. 1 \in 1..(Len(lock) + 1) /\ 1 <= Len(lock)
        BY <3>1
      <3> QED BY <3>1, <3>2, AppendProperties
    <2>2. lock[1] # t
      BY <1>5, LenProperties, EmptySeq
         DEF TypeOK, LockDiscipline, Disciplined, QueuedWait, Elsewhere
    <2>3. OwnerIsAwake(Tail(ready), lock', to)
      <3>1. \A u \in Tasks : to[u] = "locked" /\ lock'[1] = u => pc[u] = "locked" /\ u # t
        BY <1>3, <2>1, <2>2 DEF TypeOK
      <3> HIDE DEF to
      <3>2. <<>> \in Seq(Entry)
        BY EmptySeq
      <3> QED BY <1>5, <2>1, <3>1, <3>2, AwakeStill
    <2> QED BY <1>2, <1>3, <1>5, <2>3 DEF Acquire, Await, LockDiscipline
  <1> QED BY <1>4, <1>5

\* A task that waits behind the owner is not scheduled yet.
LEMMA NextOwnerWaits ==
    ASSUME TypeOK, LockDiscipline, Len(lock) > 1
    PROVE  lock[2] \in Tasks /\ Absent(lock[2], ready) /\ pc[lock[2]] = "locked"
  <1>1. lock \in Seq(Tasks) /\ DOMAIN lock = 1..Len(lock) /\ Len(lock) \in Nat
    BY LenProperties DEF TypeOK
  <1>2. lock[2] \in Tasks /\ lock # <<>>
    BY <1>1, ElementOfSeq, EmptySeq
  <1>3. lock[1] # lock[2]
    BY <1>1 DEF LockDiscipline, Disciplined, QueuedWait
  <1>4. pc[lock[2]] = "locked"
    BY <1>1, <1>2, <1>3 DEF LockDiscipline, Disciplined, QueuedWait, HolderOwns
  <1>5. ASSUME NEW i \in DOMAIN ready, ready[i][1] = lock[2] PROVE FALSE
    <2>1. ready[i] \in Entry
      BY ElementOfSeq, LenProperties DEF TypeOK
    <2>2. ready[i][2] \in {"go", "timeout", "cancel"}
      BY <1>2, <1>5, <2>1 DEF Entry
    <2>3. WakeUpIsDue(lock[2], ready[i][2], lock, pc)
      BY <1>2, <1>5 DEF LockDiscipline, Disciplined, WakeUpsAreDue
    <2> QED BY <1>1, <1>3, <1>4, <2>2, <2>3 DEF WakeUpIsDue, Receiving
  <1> QED BY <1>2, <1>4, <1>5 DEF Absent

\* The owner of the lock, running, leaves it and schedules the next one.
LEMMA ReleaseDiscipline ==
    ASSUME TypeOK, LockDiscipline, NEW t \in Tasks, ready # <<>>, ready[1][1] = t, Owns(t),
           NEW p \in Elsewhere, lock' = Tail(lock),
           LET to == [pc EXCEPT ![t] = p] IN
           \A u \in Tasks : pc'[u] = to[u] \/ MayStart(to[u], pc'[u]),
           \/ ready' = Tail(ready) \o NextOwner
           \/ p \notin Resting /\ ready' = [ready EXCEPT ![1] = <<t, "go">>] \o NextOwner
    PROVE  LockDiscipline'
  <1> DEFINE to == [pc EXCEPT ![t] = p]
             q == <<<<t, "go">>>> \o Tail(ready)
  <1>0. to \in [Tasks -> Place] /\ to[t] = p /\ \A u \in Tasks : u # t => to[u] = pc[u]
    BY DEF TypeOK, Elsewhere
  <1>1. Disciplined(Tail(ready), lock, pc) /\ Absent(t, Tail(ready)) /\ Tail(ready) \in Seq(Entry)
    BY DropHead DEF TypeOK, LockDiscipline
  <1>2. Disciplined(Tail(ready), lock', to)
    <2>1. lock \in Seq(Tasks) /\ pc \in [Tasks -> Place] /\ lock # <<>> /\ lock[1] = t
      BY DEF TypeOK, Owns
    <2>2. Disciplined(Tail(ready), Tail(lock), to)
      BY <1>1, <2>1, Release
    <2> QED BY <2>2
  <1>3. \/ ready' = Tail(ready) \o NextOwner
        \/ p \notin Resting /\ ready' = q \o NextOwner
    BY HeadEntry DEF Entry
  <1>4. q \in Seq(Entry) /\ (p \notin Resting => Disciplined(q, lock', to))
    <2>1. p \notin Resting => Disciplined(q, lock', to)
      BY <1>0, <1>1, <1>2, KeepHead DEF Elsewhere
    <2>2. <<<<t, "go">>>> \in Seq(Entry)
      BY DEF Entry
    <2> QED BY <1>1, <2>1, <2>2, ConcatProperties
  <1>5. NextOwner \in Seq(Entry)
    BY NextOwnerType
  <1>6. lock' \in Seq(Tasks) /\ \A k \in DOMAIN lock' : lock'[k] \in Tasks
    BY LockTail, ElementOfSeq, LenProperties DEF Owns
  <1>7. ASSUME NEW r \in Seq(Entry), r = Tail(ready) \/ r = q, Disciplined(r, lock', to)
        PROVE  Disciplined(r \o NextOwner, lock', to)
    <2>1. CASE Len(lock) > 1
      <3>1. /\ lock[2] \in Tasks /\ Absent(lock[2], ready)
            /\ lock[2] # t /\ to[lock[2]] = "locked"
        BY <1>0, <2>1, NextOwnerWaits, LenProperties, SMTT(30)
           DEF TypeOK, LockDiscipline, Disciplined, QueuedWait, Owns
      <3>2. Absent(lock[2], Tail(ready))
        BY <3>1, TailElements DEF Absent
      <3>3. Absent(lock[2], q)
        <4>1. <<t, "go">> \in Entry /\ <<t, "go">>[1] = t
          BY DEF Entry
        <4>2. \A i \in DOMAIN q :
                q[i] = <<t, "go">> \/ (i - 1 \in DOMAIN Tail(ready) /\ q[i] = Tail(ready)[i - 1])
          BY <1>1, <4>1, Prepended
        <4> HIDE DEF q
        <4> QED BY <3>1, <3>2, <4>1, <4>2 DEF Absent
      <3>4. lock' # <<>> /\ lock'[1] = lock[2]
        <4>1. /\ lock \in Seq(Tasks) /\ lock # <<>> /\ Len(lock) \in Nat
              /\ Tail(lock) \in Seq(Tasks) /\ Len(Tail(lock)) = Len(lock) - 1
              /\ \A i \in 1..Len(Tail(lock)) : Tail(lock)[i] = lock[i + 1]
          BY HeadTailProperties, LenProperties DEF TypeOK, Owns
        <4>2. Len(Tail(lock)) >= 1 /\ Tail(lock)[1] = lock[2]
          BY <2>1, <4>1
        <4>3. Tail(lock) # <<>>
          <5>1. Tail(lock) \in Seq(Tasks) /\ ~(Len(Tail(lock)) = 0)
            BY <4>1, <4>2, SMTT(30)
          <5> QED BY <5>1, NonEmpty
        <4> QED BY <4>2, <4>3
      <3>5. WakeUpIsDue(lock[2], "go", lock', to)
        BY <3>1, <3>4 DEF WakeUpIsDue
      <3>6. Absent(lock[2], r)
        BY <1>7, <3>2, <3>3
      <3>7. /\ DOMAIN NextOwner = {1} /\ NextOwner[1][1] = lock[2] /\ NextOwner[1][2] = "go"
        BY <2>1 DEF NextOwner
      <3> QED BY <1>5, <1>7, <3>5, <3>6, <3>7, Schedule, ZenonT(60)
    <2>2. CASE ~(Len(lock) > 1)
      <3>1. NextOwner = <<>>
        BY <2>2 DEF NextOwner
      <3> QED BY <1>7, <3>1, ConcatEmptySeq
    <2> QED BY <2>1, <2>2
  <1> HIDE DEF to, q
  <1>8. Disciplined(ready', lock', to)
    BY <1>1, <1>2, <1>3, <1>4, <1>7
  <1>9. Disciplined(ready', lock', pc')
    BY <1>6, <1>8, Idle DEF to
  <1>10. OwnerIsAwake(ready', lock', pc')
    <2>1. PICK r \in Seq(Entry) : ready' = r \o NextOwner
      BY <1>1, <1>3, <1>4
    <2>2. ASSUME lock' # <<>> PROVE Len(lock) > 1 /\ lock'[1] = lock[2]
      BY <2>2, HeadTailProperties, LenProperties, EmptySeq, SMTT(30) DEF TypeOK, Owns
    <2>3. ASSUME lock' # <<>> PROVE Queued(<<lock'[1], "go">>, NextOwner)
      BY <2>2, <2>3 DEF NextOwner, Queued
    <2>4. ASSUME lock' # <<>> PROVE Queued(<<lock'[1], "go">>, ready')
      BY <1>5, <2>1, <2>3, <2>4, QueuedBehind
    <2> QED BY <2>4 DEF OwnerIsAwake, Queued
  <1> QED BY <1>9, <1>10 DEF LockDiscipline

\* What comes from outside schedules tasks that were suspended.
LEMMA ScheduleDiscipline ==
    ASSUME TypeOK, LockDiscipline, NEW r \in Seq(Entry), r = ready \/ r = Tail(ready),
           r = ready \/ (ready # <<>> /\ ready[1][1] \notin Tasks), lock' = lock,
           \A u \in Tasks : pc'[u] = pc[u] \/ MayStart(pc[u], pc'[u]),
           NEW s \in Seq(Entry), ready' = r \o s,
           \A i \in DOMAIN s : s[i][1] \in Tasks =>
               WakeUpIsDue(s[i][1], s[i][2], lock, pc') /\ Suspended(s[i][1]),
           \A i, j \in DOMAIN s : s[i][1] \in Tasks /\ s[i][1] = s[j][1] => i = j
    PROVE  LockDiscipline'
  <1>1. \A i \in DOMAIN lock : lock[i] \in Tasks
    BY ElementOfSeq, LenProperties DEF TypeOK
  <1>2. Disciplined(r, lock, pc)
    <2>1. CASE r = ready
      BY <2>1 DEF LockDiscipline
    <2>2. CASE r = Tail(ready) /\ r # ready
      BY <2>2, DropHead DEF TypeOK, LockDiscipline
    <2> QED BY <2>1, <2>2
  <1>3. Disciplined(r, lock, pc')
    BY <1>1, <1>2, Idle
  <1>4. \A t \in Tasks : Suspended(t) => Absent(t, r)
    <2>1. CASE r = ready
      BY <2>1 DEF Suspended, Absent
    <2>2. CASE r = Tail(ready) /\ r # ready
      BY <2>2, TailElements DEF Suspended, Absent
    <2> QED BY <2>1, <2>2
  <1>5. Disciplined(r \o s, lock, pc')
    BY <1>3, <1>4, Schedule
  <1>6. \A u \in Tasks : pc'[u] = "locked" => pc[u] = "locked"
    BY DEF MayStart
  <1>7. OwnerIsAwake(r \o s, lock, pc')
    <2>1. CASE r = ready
      <3>1. OwnerIsAwake(ready, lock, pc')
        BY <1>6 DEF LockDiscipline, OwnerIsAwake
      <3> QED BY <2>1, <3>1, AwakeAmong
    <2>2. CASE r = Tail(ready) /\ r # ready
      BY <1>6, <2>2, AwakeStill
    <2> QED BY <2>1, <2>2
  <1> QED BY <1>5, <1>7 DEF LockDiscipline

\* The tasks a connection resumes wait for it, once each.
LEMMA ResumingDue ==
    ASSUME TypeOK, NEW c, NEW where, NEW r \in Resuming(c, where),
           where = Receiving \/ where = Closing
    PROVE  /\ r \in Seq(Entry)
           /\ \A i \in DOMAIN r : /\ r[i][1] \in AwaitedBy(c, where)
                                 /\ WakeUpIsDue(r[i][1], r[i][2], lock, pc)
           /\ \A i, j \in DOMAIN r : r[i][1] = r[j][1] => i = j
  <1>1. PICK s \in InAnyOrder(AwaitedBy(c, where)) : r = [i \in DOMAIN s |-> <<s[i], "go">>]
    BY DEF Resuming
  <1>2. /\ DOMAIN r = DOMAIN s /\ \A i \in DOMAIN s : r[i] = <<s[i], "go">>
        /\ \A i \in DOMAIN s : s[i] \in AwaitedBy(c, where)
    BY <1>1 DEF InAnyOrder
  <1>3. \A i, j \in DOMAIN s : s[i] = s[j] => i = j
    BY <1>1 DEF InAnyOrder
  <1>4. \A t \in AwaitedBy(c, where) : WakeUpIsDue(t, "go", lock, pc)
    BY DEF AwaitedBy, WakeUpIsDue, Receiving, Closing
  <1> QED BY <1>2, <1>3, <1>4, ResumingType

\* Device and network resume readers.
LEMMA WakeReadersDiscipline ==
    ASSUME TypeOK, LockDiscipline, NEW c \in Conns, WakeReaders(c), pc' = pc, lock' = lock
    PROVE  LockDiscipline'
  <1>1. PICK r \in Resuming(c, Receiving) : ready' = ready \o r
    BY DEF WakeReaders
  <1>2. /\ r \in Seq(Entry)
        /\ \A i \in DOMAIN r : /\ r[i][1] \in AwaitedBy(c, Receiving)
                              /\ WakeUpIsDue(r[i][1], r[i][2], lock, pc)
        /\ \A i, j \in DOMAIN r : r[i][1] = r[j][1] => i = j
    BY <1>1, ResumingDue
  <1>3. \A i \in DOMAIN r : r[i][1] \in Tasks =>
          WakeUpIsDue(r[i][1], r[i][2], lock, pc') /\ Suspended(r[i][1])
    BY <1>2 DEF AwaitedBy
  <1>4. ready \in Seq(Entry)
    BY DEF TypeOK
  <1> QED BY <1>1, <1>2, <1>3, <1>4, ScheduleDiscipline

\* A suspended task is scheduled.
LEMMA WakeDiscipline ==
    ASSUME TypeOK, LockDiscipline, NEW t \in Tasks, Suspended(t), NEW why,
           <<t, why>> \in Entry, ready' = Append(ready, <<t, why>>), lock' = lock,
           \A u \in Tasks : pc'[u] = pc[u] \/ MayStart(pc[u], pc'[u]),
           WakeUpIsDue(t, why, lock, pc')
    PROVE  LockDiscipline'
  <1> DEFINE s == <<<<t, why>>>>
  <1>1. s \in Seq(Entry) /\ DOMAIN s = {1} /\ s[1][1] = t /\ s[1][2] = why
    OBVIOUS
  <1>2. ready' = ready \o s
    BY AppendIsConcat, ZenonT(60) DEF TypeOK
  <1> HIDE DEF s
  <1> QED BY <1>1, <1>2, ScheduleDiscipline DEF TypeOK

-----------------------------------------------------------------------------
(* Type correctness.                                                         *)

\* The connection attempts of a poll.
LEMMA PollStepType ==
    ASSUME TypeOK,
           \/ PollBegin \/ Connect \/ Opened \/ HandshakeIv \/ HandshakeLogin
           \/ ConnectFails \/ HandshakeEscapes \/ ReadBegin \/ ReadSettles
           \/ WaitCancelled \/ AttemptFails \/ AttemptOver
    PROVE  TypeOK'
  <1> USE DEF Place, Receiving, Closing
  <1>1. CASE PollBegin
    <2>1. CASE Connected
      <3>1. pc' \in [Tasks -> Place] /\ ready' \in Seq(Entry)
        BY <1>1, <2>1, ContinueType DEF PollBegin, Runs
      <3> QED BY <1>1, <2>1, <3>1 DEF PollBegin, TypeOK
    <2>2. CASE ~Connected
      BY <1>1, <2>2, DisconnectType DEF PollBegin, Runs
    <2> QED BY <2>1, <2>2
  <1>2. CASE Connect
    <2>1. /\ pc' \in [Tasks -> Place] /\ ready' \in Seq(Entry)
          /\ on' \in [Tasks -> Conns \cup {None}]
      BY <1>2, FinishType DEF Connect, Runs
    <2>2. LetGo
      BY <1>2 DEF Connect
    <2> QED BY <1>2, <2>1, <2>2, LetGoType DEF Connect, TypeOK
  <1>3. CASE Opened
    <2>1. pc' \in [Tasks -> Place] /\ ready' \in Seq(Entry)
      BY <1>3, ContinueType DEF Opened, Runs
    <2>2. PICK c \in Conns :
            /\ conn' = c /\ sock' = [sock EXCEPT ![c] = "open"]
            /\ owed' = [owed EXCEPT ![c] = <<"ivreq">>]
            /\ on' = [on EXCEPT ![Poll] = c]
      BY <1>3 DEF Opened
    <2>3. <<"ivreq">> \in Seq(Request)
      BY DEF Request
    <2>4. owed' \in [Conns -> Seq(Request)]
      BY <2>2, <2>3 DEF TypeOK
    <2> QED BY <1>3, <2>1, <2>2, <2>4 DEF Opened, TypeOK
  <1>4. CASE HandshakeIv
    <2>1. /\ pc' \in [Tasks -> Place] /\ ready' \in Seq(Entry)
          /\ on' \in [Tasks -> Conns \cup {None}]
          /\ owed' \in [Conns -> Seq(Request)]
      BY <1>4, SendType DEF HandshakeIv, Runs
    <2>2. inbox' \in [Conns -> Seq(Packet)]
      BY <1>4, TakeType DEF HandshakeIv, Gets
    <2> QED BY <1>4, <2>1, <2>2 DEF HandshakeIv, TypeOK
  <1>5. CASE HandshakeLogin
    <2>1. pc' \in [Tasks -> Place] /\ ready' \in Seq(Entry)
      BY <1>5, ContinueType DEF HandshakeLogin, Runs
    <2>2. inbox' \in [Conns -> Seq(Packet)]
      BY <1>5, TakeType DEF HandshakeLogin, LoginAccepted, Gets
    <2> QED BY <1>5, <2>1, <2>2 DEF HandshakeLogin, TypeOK
  <1>6. CASE ConnectFails
    <2>1. pc' \in [Tasks -> Place] /\ ready' \in Seq(Entry)
      BY <1>6, ContinueType DEF ConnectFails, Runs
    <2>2. inbox' \in [Conns -> Seq(Packet)]
      BY <1>6, TakeType DEF ConnectFails, Gets, TypeOK
    <2> QED BY <1>6, <2>1, <2>2 DEF ConnectFails, TypeOK
  <1>7. CASE HandshakeEscapes
    <2>1. /\ pc' \in [Tasks -> Place] /\ ready' \in Seq(Entry)
          /\ on' \in [Tasks -> Conns \cup {None}]
      BY <1>7, FinishType DEF HandshakeEscapes, Runs
    <2>2. inbox' \in [Conns -> Seq(Packet)]
      BY <1>7, TakeType DEF HandshakeEscapes, Gets, TypeOK
    <2> QED BY <1>7, <2>1, <2>2 DEF HandshakeEscapes, TypeOK
  <1>8. CASE ReadBegin
    <2>1. lock' \in Seq(Tasks) /\ pc' \in [Tasks -> Place] /\ ready' \in Seq(Entry)
      BY <1>8, AcquireType, ContinueType DEF ReadBegin, Runs, TypeOK
    <2> QED BY <1>8, <2>1 DEF ReadBegin, TypeOK
  <1>9. CASE ReadSettles
    <2>1. pc' \in [Tasks -> Place] /\ ready' \in Seq(Entry)
      BY <1>9, AwaitType DEF ReadSettles, Runs
    <2> QED BY <1>9, <2>1 DEF ReadSettles, TypeOK
  <1>10. CASE WaitCancelled
    <2>1. /\ pc' \in [Tasks -> Place] /\ ready' \in Seq(Entry)
          /\ on' \in [Tasks -> Conns \cup {None}]
      BY <1>10, FinishType DEF WaitCancelled, Runs
    <2> QED BY <1>10, <2>1 DEF WaitCancelled, TypeOK
  <1>11. CASE AttemptFails
    BY <1>11, DisconnectType DEF AttemptFails, Runs
  <1>12. CASE AttemptOver
    <2>1. LetGo /\ lock' = lock /\ budget' = budget /\ ready # <<>>
      BY <1>12 DEF AttemptOver, Runs
    <2>2. CASE ~LastAttempt
      <3>1. pc' \in [Tasks -> Place] /\ ready' \in Seq(Entry)
        BY <1>12, <2>1, <2>2, ContinueType DEF AttemptOver
      <3>2. attempt' = 2
        BY <1>12, <2>2 DEF AttemptOver, LastAttempt, TypeOK
      <3> QED BY <1>12, <2>1, <2>2, <3>1, <3>2, LetGoType, ZenonT(60) DEF AttemptOver, TypeOK
    <2>3. CASE LastAttempt
      <3>1. /\ pc' \in [Tasks -> Place] /\ ready' \in Seq(Entry)
            /\ on' \in [Tasks -> Conns \cup {None}]
        BY <1>12, <2>1, <2>3, FinishType DEF AttemptOver
      <3> QED BY <1>12, <2>1, <2>3, <3>1, LetGoType, ZenonT(60) DEF AttemptOver, TypeOK
    <2> QED BY <2>2, <2>3
  <1> QED BY <1>1, <1>2, <1>3, <1>4, <1>5, <1>6, <1>7, <1>8, <1>9, <1>10, <1>11, <1>12

\* A failed read keeps types, when somebody owns the lock.
LEMMA ReadFailsType ==
    ASSUME TypeOK, ready # <<>>, lock # <<>>, ReadFails
    PROVE  /\ encrypted' \in BOOLEAN /\ iv' \in Conns \cup {None}
           /\ lock' \in Seq(Tasks)
           /\ pc' \in [Tasks -> Place] /\ ready' \in Seq(Entry)
           /\ conn' = conn /\ on' = on /\ attempt' = attempt /\ budget' = budget
           /\ result' = result /\ active' = active
           /\ sock' = sock /\ auth' = auth /\ owed' = owed
  <1>1. [ready EXCEPT ![1] = <<Poll, "go">>] \o NextOwner \in Seq(Entry)
    BY QueueType, NextOwnerType, ConcatProperties
  <1> QED BY <1>1, LockTail DEF ReadFails, TypeOK, Place

\* The end of a collection keeps types.
LEMMA CollectEndsType ==
    ASSUME TypeOK, ready # <<>>, lock # <<>>, NEW some \in BOOLEAN, CollectEnds(some)
    PROVE  /\ lock' \in Seq(Tasks) /\ fields' \in BOOLEAN
           /\ pc' \in [Tasks -> Place] /\ ready' \in Seq(Entry)
           /\ on' \in [Tasks -> Conns \cup {None}]
           /\ result' \in {"none", "ok", "empty", "failed", "escaped", "cancelled"}
           /\ active' \in BOOLEAN
           /\ UNCHANGED <<session, attempt, budget, sock, auth, owed>>
  <1>1. CASE ~some /\ pc[Poll] = "collect"
    <2>1. pc' \in [Tasks -> Place] /\ ready' \in Seq(Entry)
      BY <1>1, AwaitType DEF CollectEnds, Place
    <2> QED BY <1>1, <2>1 DEF CollectEnds, TypeOK
  <1>2. CASE ~(~some /\ pc[Poll] = "collect")
    <2>1. Tail(ready) \o NextOwner \in Seq(Entry)
      BY QueueType, NextOwnerType, ConcatProperties
    <2> QED BY <1>2, <2>1, LockTail, ZenonT(60) DEF CollectEnds, ReadReturns, TypeOK, Place
  <1> QED BY <1>1, <1>2

\* A packet collected keeps types.
LEMMA CollectMoreType ==
    ASSUME TypeOK, ready # <<>>, lock # <<>>, pc[Poll] \in {"collect", "recollect"},
           NEW some \in BOOLEAN, CollectMore(some), inbox' \in [Conns -> Seq(Packet)]
    PROVE  TypeOK'
  <1>1. CASE budget = 1
    <2>1. CollectEnds(some)
      BY <1>1 DEF CollectMore
    <2> QED BY <2>1, CollectEndsType, ZenonT(60) DEF TypeOK
  <1>2. CASE budget # 1
    <2>1. pc' \in [Tasks -> Place] /\ ready' \in Seq(Entry)
      BY <1>2, ContinueType DEF CollectMore, TypeOK
    <2>2. budget' \in 1..MaxPackets
      BY <1>2 DEF CollectMore, TypeOK
    <2> QED BY <1>2, <2>1, <2>2 DEF CollectMore, TypeOK
  <1> QED BY <1>1, <1>2

\* The read of a poll: it owns the lock it releases, by LockDiscipline.
LEMMA ReadStepType ==
    ASSUME TypeOK, LockDiscipline, ReadSends \/ CollectDataPackets \/ ReadCancelled
    PROVE  TypeOK'
  <1> USE DEF Place, Receiving, Closing, Reading, Holding
  <1>1. CASE ReadSends
    <2>1. PICK p \in {"locked", "settle", "pause"} : Runs(Poll, p)
      BY <1>1 DEF ReadSends
    <2>2. lock # <<>> /\ ready # <<>>
      BY <1>1, <2>1, HeadAndLock DEF Owns, Runs, ReadSends
    <2> DEFINE done == firstReadDone \/ pc[Poll] = "settle"
    <2>3. firstReadDone' = done /\ done \in BOOLEAN /\ fields' = FALSE
      BY <1>1 DEF ReadSends
    <2> HIDE DEF done
    <2>4. MaxPackets \in 1..MaxPackets
      BY DEF ConstantsAssumption
    <2>5. CASE CanSend
      <3>1. /\ pc' \in [Tasks -> Place] /\ ready' \in Seq(Entry)
            /\ on' \in [Tasks -> Conns \cup {None}]
            /\ owed' \in [Conns -> Seq(Request)]
        BY <1>1, <2>2, <2>5, SendType DEF ReadSends
      <3>2. /\ budget' = MaxPackets
            /\ UNCHANGED <<conn, encrypted, iv, lock, attempt, outcome, sock, auth, inbox>>
        BY <1>1, <2>5 DEF ReadSends
      <3> QED BY <2>3, <2>4, <3>1, <3>2, ZenonT(60) DEF TypeOK
    <2>6. CASE ~CanSend
      <3>1. ReadFails /\ UNCHANGED inbox
        BY <1>1, <2>6 DEF ReadSends
      <3> QED BY <2>2, <2>3, <3>1, ReadFailsType, ZenonT(60) DEF TypeOK
    <2> QED BY <2>5, <2>6
  <1>2. CASE CollectDataPackets
    <2>1. PICK p \in {"collect", "recollect"} : Runs(Poll, p)
      BY <1>2 DEF CollectDataPackets
    <2>2. lock # <<>> /\ ready # <<>> /\ pc[Poll] \in {"collect", "recollect"}
      BY <2>1, HeadAndLock DEF Owns, Runs
    <2>3. ASSUME NEW kinds, Gets(Poll, kinds), Take(Poll) PROVE inbox' \in [Conns -> Seq(Packet)]
      BY <2>3, TakeType DEF Gets
    <2>4. ASSUME NEW some \in BOOLEAN, CollectEnds(some), inbox' \in [Conns -> Seq(Packet)]
          PROVE  TypeOK'
      BY <2>2, <2>4, CollectEndsType, ZenonT(60) DEF TypeOK
    <2>5. ASSUME ReadFails, UNCHANGED <<firstReadDone, fields>>, inbox' \in [Conns -> Seq(Packet)]
          PROVE  TypeOK'
      BY <2>2, <2>5, ReadFailsType, SMTT(30) DEF TypeOK
    <2>6. fields \in BOOLEAN /\ inbox \in [Conns -> Seq(Packet)]
      BY DEF TypeOK
    <2>7. ASSUME NEW some \in BOOLEAN, CollectMore(some), inbox' \in [Conns -> Seq(Packet)]
          PROVE  TypeOK'
      BY <2>2, <2>7, CollectMoreType
    <2>8. \/ \E kinds : Gets(Poll, kinds) /\ Take(Poll)
          \/ inbox' = inbox
      BY <1>2 DEF CollectDataPackets, CollectFails, LastPacket
    <2>9. inbox' \in [Conns -> Seq(Packet)]
      BY <2>3, <2>6, <2>8
    <2>10. \/ \E some \in BOOLEAN : CollectEnds(some) \/ CollectMore(some)
           \/ ReadFails /\ UNCHANGED <<firstReadDone, fields>>
      BY <1>2, <2>6 DEF CollectDataPackets, CollectFails
    <2> QED BY <2>4, <2>5, <2>7, <2>9, <2>10
  <1>3. CASE ReadCancelled
    <2>1. PICK p \in Reading : Runs(Poll, p)
      BY <1>3 DEF ReadCancelled
    <2>2. lock # <<>> /\ ready # <<>>
      BY <2>1, HeadAndLock DEF Owns, Runs
    <2> QED BY <1>3, <2>2, ReleaseType DEF ReadCancelled, TypeOK
  <1> QED BY <1>1, <1>2, <1>3

\* The writes of the entities.
LEMMA WriteStepType ==
    ASSUME TypeOK, LockDiscipline, NEW w \in Writers,
           WriteBegin(w) \/ WriteSends(w) \/ WriteAcked(w) \/ WriteUnanswered(w)
    PROVE  TypeOK'
  <1> USE DEF Place, Receiving, Reading, Holding
  <1>1. ready # <<>> /\ w \in Tasks
    BY DEF WriteBegin, WriteSends, WriteAcked, WriteUnanswered, Runs
  <1>2. Why # "cancel"
    BY HeadAndLock DEF WriteBegin, WriteSends, WriteAcked, WriteUnanswered, Gets, SeesEof, SeesReset
  <1>3. CASE WriteBegin(w)
    <2>1. lock' \in Seq(Tasks) /\ pc' \in [Tasks -> Place] /\ ready' \in Seq(Entry)
      BY <1>1, <1>3, AcquireType, AwaitType DEF WriteBegin, TypeOK
    <2> QED BY <1>3, <2>1 DEF WriteBegin, TypeOK
  <1>4. CASE WriteSends(w)
    <2>1. lock # <<>>
      BY <1>2, <1>4, HeadAndLock DEF WriteSends, Owns
    <2>2. CASE iv # None /\ CanSend
      BY <1>1, <1>4, <2>2, SendType, ZenonT(60) DEF WriteSends, TypeOK
    <2>3. CASE ~(iv # None /\ CanSend)
      BY <1>1, <1>4, <2>1, <2>3, ReleaseType, ZenonT(60) DEF WriteSends, WriteFails, TypeOK
    <2> QED BY <2>2, <2>3
  <1>5. CASE WriteAcked(w)
    <2>1. lock # <<>>
      BY <1>5, HeadAndLock DEF WriteAcked, Owns
    <2>2. inbox' \in [Conns -> Seq(Packet)]
      BY <1>1, <1>5, TakeType DEF WriteAcked, Gets
    <2> QED BY <1>1, <1>5, <2>1, <2>2, ReleaseType, ZenonT(60) DEF WriteAcked, TypeOK
  <1>6. CASE WriteUnanswered(w)
    <2>1. lock # <<>>
      BY <1>6, HeadAndLock DEF WriteUnanswered, Owns
    <2> QED BY <1>1, <1>6, <2>1, ReleaseType, ZenonT(60) DEF WriteUnanswered, WriteFails, TypeOK
  <1> QED BY <1>3, <1>4, <1>5, <1>6

\* Unloading, the loop's own callbacks, and waits for a packet.
LEMMA OtherStepType ==
    ASSUME TypeOK, LockDiscipline,
           \/ ConnectionLost \/ UnloadBegin \/ UnloadOver
           \/ \E t \in Tasks : RecvBlocks(t)
    PROVE  TypeOK'
  <1> USE DEF Place, Receiving, Closing
  <1>1. CASE ConnectionLost
    <2> DEFINE c == ready[1][1]
    <2>1. PICK r \in Resuming(c, Receiving), k \in Resuming(c, Closing) :
            ready' = Tail(ready) \o r \o k
      BY <1>1 DEF ConnectionLost
    <2>2. r \in Seq(Entry) /\ k \in Seq(Entry) /\ Tail(ready) \in Seq(Entry)
      BY <1>1, <2>1, ResumingType, QueueType DEF ConnectionLost
    <2>3. ready' \in Seq(Entry)
      BY <2>1, <2>2, ConcatProperties
    <2> QED BY <1>1, <2>3, EmptySeq, ZenonT(60) DEF ConnectionLost, TypeOK
  <1>2. CASE UnloadBegin
    <2>1. CASE active
      BY <1>2, <2>1, DisconnectType DEF UnloadBegin, Runs
    <2>2. CASE ~active
      <3>1. pc' \in [Tasks -> Place] /\ ready' \in Seq(Entry)
        BY <1>2, <2>2, AwaitType DEF UnloadBegin, Runs
      <3> QED BY <1>2, <2>2, <3>1 DEF UnloadBegin, TypeOK
    <2> QED BY <2>1, <2>2
  <1>3. CASE UnloadOver
    <2>1. /\ pc' \in [Tasks -> Place] /\ ready' \in Seq(Entry)
          /\ on' \in [Tasks -> Conns \cup {None}]
      BY <1>3, FinishType DEF UnloadOver, Runs
    <2> QED BY <1>3, <2>1, LetGoType DEF UnloadOver, TypeOK
  <1>4. ASSUME NEW t \in Tasks, RecvBlocks(t) PROVE TypeOK'
    <2>1. pc' \in [Tasks -> Place] /\ ready' \in Seq(Entry)
      BY <1>4, AwaitType DEF RecvBlocks, Runs
    <2> QED BY <1>4, <2>1 DEF RecvBlocks, TypeOK
  <1> QED BY <1>1, <1>2, <1>3, <1>4

\* The queue keeps its type when an entry is added.
LEMMA QueueGrows ==
    ASSUME TypeOK, NEW e \in Entry
    PROVE  Append(ready, e) \in Seq(Entry)
  BY AppendProperties DEF TypeOK

\* Home Assistant, clocks, device and network.
LEMMA EnvironmentType ==
    ASSUME TypeOK, LockDiscipline, Environment
    PROVE  TypeOK'
  <1> USE DEF Place, Receiving
  <1>1. \A t \in Tasks, why \in {"go", "timeout", "cancel"} : <<t, why>> \in Entry
    BY DEF Entry
  <1>2. ASSUME NEW t \in Tasks, Start(t, "begin")
        PROVE  pc' \in [Tasks -> Place] /\ ready' \in Seq(Entry)
    BY <1>1, <1>2, QueueGrows DEF Start, TypeOK
  <1>3. ASSUME NEW t \in Tasks, NEW why \in {"go", "timeout", "cancel"}, Wake(t, why)
        PROVE  ready' \in Seq(Entry)
    BY <1>1, <1>3, QueueGrows DEF Wake
  <1>4. ASSUME NEW c \in Conns, WakeReaders(c) PROVE ready' \in Seq(Entry)
    BY <1>4, ResumingType, ConcatProperties DEF WakeReaders, TypeOK
  <1>5. CASE PollStart
    BY <1>2, <1>5 DEF PollStart, TypeOK
  <1>6. CASE UnloadStart
    BY <1>2, <1>6, ZenonT(60) DEF UnloadStart, TypeOK
  <1>7. ASSUME NEW w \in Writers, WriteStart(w) PROVE TypeOK'
    BY <1>2, <1>7, ZenonT(60) DEF WriteStart, TypeOK
  <1>8. CASE Cancel
    <2>1. ready' \in Seq(Entry)
      BY <1>3, <1>8 DEF Cancel
    <2>2. lock' \in Seq(Tasks)
      <3>1. ASSUME LeaveQueue(Poll) PROVE lock' \in Seq(Tasks)
        <4>1. PICK i \in DOMAIN lock :
                lock' = SubSeq(lock, 1, i - 1) \o SubSeq(lock, i + 1, Len(lock))
          BY <3>1 DEF LeaveQueue
        <4>2. /\ DOMAIN lock = 1..Len(lock) /\ Len(lock) \in Nat
              /\ \A k \in 1..Len(lock) : lock[k] \in Tasks
          BY LenProperties, ElementOfSeq DEF TypeOK
        <4>3. SubSeq(lock, 1, i - 1) \in Seq(Tasks)
          <5>1. 1 \in Int /\ i - 1 \in Int /\ \A k \in 1..(i - 1) : lock[k] \in Tasks
            BY <4>2
          <5> QED BY <5>1, SubSeqProperties
        <4>4. SubSeq(lock, i + 1, Len(lock)) \in Seq(Tasks)
          <5>1. i + 1 \in Int /\ Len(lock) \in Int /\ \A k \in (i + 1)..Len(lock) : lock[k] \in Tasks
            BY <4>2
          <5> QED BY <5>1, SubSeqProperties
        <4> QED BY <4>1, <4>3, <4>4, ConcatProperties
      <3> QED BY <1>8, <3>1 DEF Cancel, TypeOK
    <2> QED BY <1>8, <2>1, <2>2 DEF Cancel, TypeOK
  <1>9. CASE OpenSucceeds
    BY <1>3, <1>9 DEF OpenSucceeds, TypeOK
  <1>10. ASSUME NEW t \in Tasks, Timer(t) PROVE TypeOK'
    <2>1. ready' \in Seq(Entry)
      BY <1>3, <1>10 DEF Timer
    <2> QED BY <1>10, <2>1 DEF Timer, TypeOK
  <1>11. ASSUME NEW c \in Conns, Answer(c) PROVE TypeOK'
    <2> DEFINE request == Head(owed[c])
    <2>1. request \in Request /\ Tail(owed[c]) \in Seq(Request)
      BY <1>11, HeadTailProperties DEF Answer, TypeOK
    <2>2. PICK kind \in Replies(request), last \in BOOLEAN :
            /\ inbox' = [inbox EXCEPT ![c] = Append(@, kind)]
            /\ owed' = IF last THEN [owed EXCEPT ![c] = Tail(@)] ELSE owed
            /\ auth' = IF kind = "ok" THEN auth \cup {c} ELSE auth
      BY <1>11 DEF Answer
    <2>3. kind \in Packet
      BY <2>1 DEF Replies, Request, Packet
    <2>4. Append(inbox[c], kind) \in Seq(Packet)
      BY <2>3, AppendProperties DEF TypeOK
    <2>5. inbox' \in [Conns -> Seq(Packet)] /\ owed' \in [Conns -> Seq(Request)] /\ auth' \subseteq Conns
      BY <2>1, <2>2, <2>4 DEF TypeOK
    <2> QED BY <1>4, <1>11, <2>5 DEF Answer, TypeOK
  <1>12. ASSUME NEW c \in Conns, NeverAnswers(c) PROVE TypeOK'
    <2>1. Tail(owed[c]) \in Seq(Request)
      BY <1>12, HeadTailProperties DEF NeverAnswers, TypeOK
    <2> QED BY <1>12, <2>1 DEF NeverAnswers, TypeOK
  <1>13. ASSUME NEW c \in Conns, PeerCloses(c) PROVE TypeOK'
    <2>1. ready' \in Seq(Entry)
      BY <1>4, <1>13 DEF PeerCloses
    <2> QED BY <1>13, <2>1, EmptySeq, ZenonT(60) DEF PeerCloses, TypeOK
  <1> QED BY <1>5, <1>6, <1>7, <1>8, <1>9, <1>10, <1>11, <1>12, <1>13 DEF Environment

\* Types are kept by every step, given that the lock is disciplined.
LEMMA TypeStep ==
    ASSUME TypeOK, LockDiscipline, [Next]_vars
    PROVE  TypeOK'
  <1>1. CASE LoopStep
    BY <1>1, PollStepType, ReadStepType, WriteStepType, OtherStepType DEF LoopStep
  <1>2. CASE Environment
    BY <1>2, EnvironmentType
  <1>3. CASE UNCHANGED vars
    BY <1>3 DEF vars, TypeOK
  <1> QED BY <1>1, <1>2, <1>3 DEF Next

-----------------------------------------------------------------------------
(* The discipline of the lock.                                               *)

Moves(t, p) == lock' = lock /\ (Await(t, p) \/ (p \notin Resting /\ Continue(t, p)))

\* A task that neither has nor wants the lock goes on without it.
LEMMA OutsideTheLock ==
    ASSUME TypeOK, LockDiscipline, NEW t \in Tasks, NEW p \in Elsewhere, NEW q \in Elsewhere,
           Runs(t, q), Moves(t, p)
    PROVE  LockDiscipline'
  <1>1. p \in Place /\ q \in Place
    BY DEF Elsewhere
  <1>2. Unlocked(t)
    BY <1>1, HeadAndLock
  <1> QED BY <1>1, <1>2, MoveDiscipline DEF Moves, Runs

\* The owner of the lock goes on inside it.
LEMMA InsideTheLock ==
    ASSUME TypeOK, LockDiscipline, NEW t \in Tasks, NEW p \in Holding, Runs(t, pc[t]),
           pc[t] \in Holding \/ (pc[t] = "locked" /\ Why = "go"), Moves(t, p)
    PROVE  LockDiscipline'
  <1>1. p \in Place /\ pc[t] \in Place
    BY DEF TypeOK, Place, Holding, Reading, Receiving
  <1>2. Owns(t)
    BY <1>1, HeadAndLock
  <1> QED BY <1>1, <1>2, MoveDiscipline DEF Moves, Runs

\* The owner of the lock ends, and the next task in line may go on.
LEMMA EndDiscipline ==
    ASSUME TypeOK, LockDiscipline, NEW t \in Tasks, Runs(t, pc[t]),
           pc[t] \in Holding \/ (pc[t] = "locked" /\ Why = "go"), ReleaseAndEnd(t)
    PROVE  LockDiscipline'
  <1>1. Owns(t)
    BY HeadAndLock DEF TypeOK
  <1>2. "idle" \in Elsewhere
    BY DEF Elsewhere, Place, Holding, Reading
  <1> QED BY <1>1, <1>2, ReleaseDiscipline DEF ReleaseAndEnd, Runs

\* disconnect() takes no lock and leaves the discipline as it is.
LEMMA DisconnectDiscipline ==
    ASSUME TypeOK, LockDiscipline, NEW t \in Tasks, NEW p \in Closing, NEW q \in Elsewhere,
           Runs(t, q), Disconnect(t, p)
    PROVE  LockDiscipline'
  <1>1. p \in Elsewhere /\ p \notin Resting /\ lock' = lock /\ q \in Place
    BY DEF Elsewhere, Place, Holding, Reading, Receiving, Closing, Resting, Disconnect
  <1>2. Unlocked(t)
    BY <1>1, HeadAndLock
  <1>3. Disciplined(Tail(ready), lock, pc) /\ Absent(t, Tail(ready)) /\ Tail(ready) \in Seq(Entry)
    BY DropHead DEF TypeOK, LockDiscipline, Runs
  <1> DEFINE to == [pc EXCEPT ![t] = p]
             teardown == IF sock[conn] = "closing" THEN <<>> ELSE <<<<conn, "lost">>>>
  <1>4. Disciplined(Tail(ready), lock, to)
    BY <1>1, <1>2, <1>3, Relocate DEF TypeOK, Unlocked, Elsewhere
  <1>5. CASE HasSocket
    <2>1. conn \in Conns
      BY <1>5 DEF HasSocket, TypeOK
    <2>2. teardown \in Seq(Entry) /\ \A i \in DOMAIN teardown : teardown[i][1] \notin Tasks
      <3>1. conn \notin Tasks
        BY <2>1 DEF ConstantsAssumption
      <3> QED BY <2>1, <3>1, EmptySeq DEF Entry
    <2>3. ready' = Tail(ready) \o teardown /\ pc' = to
      BY <1>5 DEF Disconnect
    <2> HIDE DEF to, teardown
    <2>4. Disciplined(Tail(ready) \o teardown, lock, to)
      BY <1>3, <1>4, <2>2, Schedule
    <2>5. OwnerIsAwake(Tail(ready) \o teardown, lock, to)
      <3>1. \A u \in Tasks : to[u] = "locked" => pc[u] = "locked" /\ u # t
        BY DEF to, TypeOK, Closing
      <3> QED BY <2>2, <3>1, AwakeStill DEF Runs
    <2> QED BY <1>1, <2>3, <2>4, <2>5 DEF LockDiscipline
  <1>6. CASE ~HasSocket
    BY <1>1, <1>6, OutsideTheLock DEF Disconnect, Moves
  <1> QED BY <1>5, <1>6

\* The connection attempts of a poll keep the lock's discipline.
LEMMA PollStepDiscipline ==
    ASSUME TypeOK, LockDiscipline,
           \/ PollBegin \/ Connect \/ Opened \/ HandshakeIv \/ HandshakeLogin
           \/ ConnectFails \/ HandshakeEscapes \/ ReadBegin \/ ReadSettles
           \/ WaitCancelled \/ AttemptFails \/ AttemptOver
    PROVE  LockDiscipline'
  <1>0. /\ {"idle", "begin", "opening", "acquire", "failed", "done"} \subseteq Elsewhere
        /\ {"iv", "login"} \cup Closing \subseteq Elsewhere
        /\ {"begin", "iv", "login", "acquire", "failed"} \cap Resting = {}
    BY DEF Elsewhere, Place, Holding, Reading, Receiving, Closing, Resting
  <1>1. ASSUME NEW p \in Elsewhere, NEW q \in Elsewhere, Runs(Poll, q), Moves(Poll, p)
        PROVE  LockDiscipline'
    BY <1>1, OutsideTheLock
  <1>2. ASSUME NEW p \in Closing, NEW q \in Elsewhere, Runs(Poll, q), Disconnect(Poll, p)
        PROVE  LockDiscipline'
    BY <1>2, DisconnectDiscipline
  <1> HIDE DEF Elsewhere
  <1>3. CASE PollBegin
    BY <1>0, <1>1, <1>2, <1>3 DEF PollBegin, Moves, Closing
  <1>4. CASE Connect
    BY <1>0, <1>1, <1>4 DEF Connect, Finish, Moves, Closing
  <1>5. CASE Opened
    BY <1>0, <1>1, <1>5 DEF Opened, Moves
  <1>6. CASE HandshakeIv
    BY <1>0, <1>1, <1>6 DEF HandshakeIv, Send, Moves
  <1>7. CASE HandshakeLogin
    BY <1>0, <1>1, <1>7 DEF HandshakeLogin, Moves
  <1>8. CASE ConnectFails
    BY <1>0, <1>1, <1>8 DEF ConnectFails, Moves
  <1>9. CASE HandshakeEscapes
    BY <1>0, <1>1, <1>9 DEF HandshakeEscapes, Finish, Moves
  <1>10. CASE ReadBegin
    <2>1. CASE Connected
      BY <1>0, <1>10, <2>1, AcquireDiscipline DEF ReadBegin, Runs
    <2>2. CASE ~Connected
      BY <1>0, <1>1, <1>10, <2>2 DEF ReadBegin, Moves
    <2> QED BY <2>1, <2>2
  <1>11. CASE ReadSettles
    BY <1>11, InsideTheLock DEF ReadSettles, Moves, Holding, Reading, Runs
  <1>12. CASE WaitCancelled
    <2>1. PICK q \in Closing \cup {"opening", "locked"} : Runs(Poll, q)
      BY <1>12 DEF WaitCancelled
    <2>2. q \in Place /\ Why = "cancel" /\ lock' = lock /\ Await(Poll, "idle") /\ ready # <<>>
      BY <1>12, <2>1 DEF WaitCancelled, Finish, Runs, Place, Closing
    <2>3. Unlocked(Poll)
      BY <1>0, <2>1, <2>2, HeadAndLock
    <2> QED BY <1>0, <2>1, <2>2, <2>3, MoveDiscipline DEF Runs, Place
  <1>13. CASE AttemptFails
    BY <1>0, <1>2, <1>13 DEF AttemptFails, Closing
  <1>14. CASE AttemptOver
    BY <1>0, <1>1, <1>14 DEF AttemptOver, Finish, Moves, Closing
  <1> QED BY <1>3, <1>4, <1>5, <1>6, <1>7, <1>8, <1>9, <1>10, <1>11, <1>12, <1>13, <1>14

\* The read of a poll keeps the lock's discipline.
LEMMA ReadStepDiscipline ==
    ASSUME TypeOK, LockDiscipline, ReadSends \/ CollectDataPackets \/ ReadCancelled
    PROVE  LockDiscipline'
  <1>1. /\ Runs(Poll, pc[Poll]) /\ Poll \in Tasks /\ ready # <<>> /\ ready[1][1] = Poll
        /\ pc[Poll] \in Reading \cup {"locked"}
    BY DEF ReadSends, CollectDataPackets, ReadCancelled, Runs, Reading
  <1>2. pc[Poll] \in Holding \/ (pc[Poll] = "locked" /\ Why = "go")
    BY <1>1 DEF Holding, ReadSends, CollectDataPackets, ReadCancelled, Runs, Reading
  <1>3. Owns(Poll)
    BY <1>1, <1>2, HeadAndLock DEF TypeOK
  <1>4. {"collect", "recollect", "pause"} \subseteq Holding \ Resting
    BY DEF Holding, Reading, Resting
  <1>5. "failed" \in Elsewhere /\ "idle" \in Elsewhere /\ "failed" \notin Resting
    BY DEF Elsewhere, Place, Holding, Reading, Receiving, Resting
  <1>6. ASSUME NEW p \in Holding, Moves(Poll, p) PROVE LockDiscipline'
    BY <1>1, <1>2, <1>6, InsideTheLock
  <1>7. ASSUME ReadFails PROVE LockDiscipline'
    BY <1>1, <1>3, <1>5, <1>7, ReleaseDiscipline DEF ReadFails, TypeOK
  <1>8. ASSUME NEW some, ReadReturns(some) PROVE LockDiscipline'
    <2> DEFINE to == [pc EXCEPT ![Poll] = "idle"]
    <2>1. \A u \in Tasks : pc'[u] = to[u] \/ MayStart(to[u], pc'[u])
      BY <1>8 DEF ReadReturns, MayStart, TypeOK, ConstantsAssumption
    <2>2. lock' = Tail(lock) /\ ready' = Tail(ready) \o NextOwner
      BY <1>8 DEF ReadReturns
    <2> QED BY <1>1, <1>3, <1>5, <2>1, <2>2, ReleaseDiscipline
  <1>9. ASSUME NEW some, CollectEnds(some) PROVE LockDiscipline'
    BY <1>4, <1>6, <1>8, <1>9 DEF CollectEnds, Moves
  <1>10. CASE ReadSends
    <2>1. CASE CanSend
      BY <1>4, <1>6, <1>10, <2>1 DEF ReadSends, Send, Moves
    <2>2. CASE ~CanSend
      BY <1>7, <1>10, <2>2 DEF ReadSends
    <2> QED BY <2>1, <2>2
  <1>11. CASE CollectDataPackets
    <2>1. pc[Poll] \in {"collect", "recollect"}
      BY <1>11 DEF CollectDataPackets, Runs
    <2>2. ASSUME NEW some, CollectMore(some) PROVE LockDiscipline'
      BY <1>4, <1>6, <1>9, <2>1, <2>2 DEF CollectMore, Moves
    <2>3. ReadFails \/ \E some : CollectEnds(some) \/ CollectMore(some)
      BY <1>11 DEF CollectDataPackets, CollectFails
    <2> QED BY <1>7, <1>9, <2>2, <2>3
  <1>12. CASE ReadCancelled
    BY <1>1, <1>2, <1>12, EndDiscipline DEF ReadCancelled
  <1> QED BY <1>10, <1>11, <1>12

\* The writes keep the lock's discipline.
LEMMA WriteStepDiscipline ==
    ASSUME TypeOK, LockDiscipline, NEW w \in Writers,
           WriteBegin(w) \/ WriteSends(w) \/ WriteAcked(w) \/ WriteUnanswered(w)
    PROVE  LockDiscipline'
  <1>1. w \in Tasks /\ w # Poll
    BY DEF ConstantsAssumption
  <1>2. {"begin", "idle"} \subseteq Elsewhere /\ "ack" \in Holding \ Resting
    BY DEF Elsewhere, Place, Holding, Reading, Receiving, Resting
  <1>3. CASE WriteBegin(w)
    <2>1. CASE Connected
      BY <1>1, <1>2, <1>3, <2>1, AcquireDiscipline DEF WriteBegin, Runs
    <2>2. CASE ~Connected
      BY <1>1, <1>2, <1>3, <2>2, OutsideTheLock DEF WriteBegin, Moves
    <2> QED BY <2>1, <2>2
  <1>4. CASE WriteSends(w)
    <2>1. Runs(w, pc[w]) /\ pc[w] = "locked"
      BY <1>4 DEF WriteSends, Runs
    <2>2. Why = "go"
      BY <1>1, <2>1, HeadAndLock DEF TypeOK
    <2>3. CASE iv # None /\ CanSend
      BY <1>1, <1>2, <1>4, <2>1, <2>2, <2>3, InsideTheLock DEF WriteSends, Send, Moves
    <2>4. CASE ~(iv # None /\ CanSend)
      BY <1>1, <1>4, <2>1, <2>2, <2>4, EndDiscipline DEF WriteSends, WriteFails
    <2> QED BY <2>3, <2>4
  <1>5. CASE WriteAcked(w) \/ WriteUnanswered(w)
    BY <1>1, <1>2, <1>5, EndDiscipline DEF WriteAcked, WriteUnanswered, WriteFails, Runs
  <1> QED BY <1>3, <1>4, <1>5

\* Unloading, teardown and waits for a packet keep the lock's discipline.
LEMMA OtherStepDiscipline ==
    ASSUME TypeOK, LockDiscipline,
           \/ ConnectionLost \/ UnloadBegin \/ UnloadOver
           \/ \E t \in Tasks : RecvBlocks(t)
    PROVE  LockDiscipline'
  <1>0. {"begin", "done", "closeU", "iv", "login"} \subseteq Elsewhere
    BY DEF Elsewhere, Place, Holding, Reading, Receiving, Closing
  <1>1. CASE ConnectionLost
    <2> DEFINE c == ready[1][1]
    <2>1. PICK r \in Resuming(c, Receiving), k \in Resuming(c, Closing) :
            ready' = Tail(ready) \o r \o k
      BY <1>1 DEF ConnectionLost
    <2>2. /\ ready # <<>> /\ pc' = pc /\ lock' = lock
          /\ Tail(ready) \in Seq(Entry) /\ r \in Seq(Entry) /\ k \in Seq(Entry)
      BY <1>1, <2>1, ResumingType, QueueType DEF ConnectionLost
    <2> DEFINE s == r \o k
    <2>3. /\ s \in Seq(Entry) /\ ready' = Tail(ready) \o s
          /\ DOMAIN r = 1..Len(r) /\ DOMAIN k = 1..Len(k) /\ Len(r) \in Nat /\ Len(k) \in Nat
          /\ DOMAIN s = 1..(Len(r) + Len(k))
          /\ \A i \in 1..(Len(r) + Len(k)) : s[i] = IF i <= Len(r) THEN r[i] ELSE k[i - Len(r)]
      <3>1. r \in Seq(Entry) /\ k \in Seq(Entry) /\ Tail(ready) \in Seq(Entry)
        BY <2>2
      <3>2. ready' = Tail(ready) \o s
        <4> DEFINE u == Tail(ready)
        <4>1. u \in Seq(Entry)
          BY <3>1
        <4> HIDE DEF u
        <4>2. (u \o r) \o k = u \o (r \o k)
          BY <4>1, <3>1, ConcatAssociative
        <4> QED BY <4>2, <2>1 DEF u
      <3>3. DOMAIN r = 1..Len(r) /\ DOMAIN k = 1..Len(k) /\ Len(r) \in Nat /\ Len(k) \in Nat
        BY <3>1, LenProperties
      <3>4. /\ r \o k \in Seq(Entry) /\ Len(r \o k) = Len(r) + Len(k)
            /\ \A i \in 1..(Len(r) + Len(k)) : (r \o k)[i] = IF i <= Len(r) THEN r[i] ELSE k[i - Len(r)]
        BY <3>1, ConcatProperties
      <3>5. DOMAIN (r \o k) = 1..(Len(r) + Len(k))
        BY <3>4, LenProperties
      <3> QED BY <3>2, <3>3, <3>4, <3>5
    <2> HIDE DEF s
    <2>4. ASSUME NEW i \in DOMAIN s
          PROVE  \/ i \in DOMAIN r /\ s[i] = r[i]
                 \/ i - Len(r) \in DOMAIN k /\ s[i] = k[i - Len(r)]
      BY <2>3
    <2>5. /\ \A i \in DOMAIN r : /\ r[i][1] \in AwaitedBy(c, Receiving)
                                  /\ WakeUpIsDue(r[i][1], r[i][2], lock, pc)
          /\ \A i, j \in DOMAIN r : r[i][1] = r[j][1] => i = j
      BY <2>1, ResumingDue
    <2>6. /\ \A i \in DOMAIN k : /\ k[i][1] \in AwaitedBy(c, Closing)
                                  /\ WakeUpIsDue(k[i][1], k[i][2], lock, pc)
          /\ \A i, j \in DOMAIN k : k[i][1] = k[j][1] => i = j
      BY <2>1, ResumingDue
    <2>7. \A t \in AwaitedBy(c, Receiving), u \in AwaitedBy(c, Closing) : t # u
      BY DEF AwaitedBy, Receiving, Closing
    <2>8. \A i \in DOMAIN s : s[i][1] \in Tasks =>
             WakeUpIsDue(s[i][1], s[i][2], lock, pc') /\ Suspended(s[i][1])
      BY <2>2, <2>4, <2>5, <2>6 DEF AwaitedBy
    <2>9. ASSUME NEW i \in DOMAIN s, NEW j \in DOMAIN s, s[i][1] = s[j][1] PROVE i = j
      BY <2>3, <2>4, <2>5, <2>6, <2>7, <2>9
    <2>10. c \notin Tasks
      BY <1>1, <2>2, HeadEntry DEF ConnectionLost, Why, Entry, ConstantsAssumption
    <2> QED BY <2>2, <2>3, <2>8, <2>9, <2>10, ScheduleDiscipline
  <1>2. CASE UnloadBegin
    BY <1>0, <1>2, DisconnectDiscipline, OutsideTheLock DEF UnloadBegin, Moves, Closing
  <1>3. CASE UnloadOver
    BY <1>0, <1>3, OutsideTheLock DEF UnloadOver, Finish, Moves
  <1>4. ASSUME NEW t \in Tasks, RecvBlocks(t) PROVE LockDiscipline'
    <2>1. PICK p \in Receiving : Runs(t, p) /\ Await(t, p) /\ lock' = lock
      BY <1>4 DEF RecvBlocks
    <2>2. CASE p \in Elsewhere
      BY <2>1, <2>2, OutsideTheLock DEF Moves
    <2>3. CASE p \in Holding
      BY <2>1, <2>3, InsideTheLock DEF Moves, Runs
    <2> QED BY <1>0, <2>2, <2>3 DEF Receiving, Holding, Reading
  <1> QED BY <1>1, <1>2, <1>3, <1>4

\* What comes from outside keeps the lock's discipline.
LEMMA EnvironmentDiscipline ==
    ASSUME TypeOK, LockDiscipline, Environment
    PROVE  LockDiscipline'
  <1>1. \A t \in Tasks, why \in {"go", "timeout", "cancel"} : <<t, why>> \in Entry
    BY DEF Entry
  <1>2. ASSUME NEW t \in Tasks, Start(t, "begin"), pc[t] = "idle", lock' = lock
        PROVE  LockDiscipline'
    <2>1. pc'[t] = "begin" /\ \A u \in Tasks : pc'[u] = pc[u] \/ MayStart(pc[u], pc'[u])
      BY <1>2 DEF Start, MayStart, TypeOK
    <2>2. WakeUpIsDue(t, "go", lock, pc')
      BY <2>1 DEF WakeUpIsDue
    <2>3. Suspended(t)
      BY <1>2 DEF LockDiscipline, Disciplined, WakeUpsAreDue, WakeUpIsDue, Suspended
    <2> QED BY <1>1, <1>2, <2>1, <2>2, <2>3, WakeDiscipline DEF Start
  <1>3. ASSUME NEW t \in Tasks, NEW why \in {"go", "timeout", "cancel"}, Wake(t, why),
               Suspended(t), WakeUpIsDue(t, why, lock, pc), lock' = lock, pc' = pc
        PROVE  LockDiscipline'
    BY <1>1, <1>3, WakeDiscipline DEF Wake
  <1>4. CASE PollStart
    BY <1>2, <1>4 DEF PollStart
  <1>5. CASE UnloadStart
    BY <1>2, <1>5 DEF UnloadStart
  <1>6. ASSUME NEW w \in Writers, WriteStart(w) PROVE LockDiscipline'
    BY <1>2, <1>6 DEF WriteStart
  <1>7. CASE Cancel
    <2>1. /\ pc' = pc /\ Suspended(Poll) /\ ready' = Append(ready, <<Poll, "cancel">>)
          /\ pc[Poll] # "idle"
      BY <1>7 DEF Cancel, Wake
    <2>2. CASE pc[Poll] = "locked"
      <3>1. PICK i \in DOMAIN lock : /\ lock[i] = Poll
                                     /\ lock' = SubSeq(lock, 1, i - 1) \o SubSeq(lock, i + 1, Len(lock))
        BY <1>7, <2>2 DEF Cancel, LeaveQueue
      <3>2. lock[1] # Poll /\ lock # <<>>
        BY <2>1, <2>2, <3>1, LenProperties, EmptySeq
           DEF TypeOK, LockDiscipline, OwnerIsAwake, Suspended
      <3>3. /\ lock' \in Seq(Tasks) /\ Disciplined(ready, lock', pc)
            /\ \A k \in DOMAIN lock' : lock'[k] # Poll
            /\ lock'[1] = lock[1]
        <4>1. /\ lock \in Seq(Tasks) /\ pc \in [Tasks -> Place] /\ Poll \in Tasks
              /\ Disciplined(ready, lock, pc) /\ Absent(Poll, ready)
          BY <2>1 DEF TypeOK, LockDiscipline, Suspended, Absent
        <4>2. i \in DOMAIN lock /\ lock[i] = Poll
          BY <3>1
        <4>3. lock' = Without(lock, i)
          BY <3>1 DEF Without
        <4>4. /\ Without(lock, i) \in Seq(Tasks) /\ Disciplined(ready, Without(lock, i), pc)
              /\ Without(lock, i)[1] = lock[1]
              /\ \A k \in DOMAIN Without(lock, i) : Without(lock, i)[k] # Poll
          <5> HIDE DEF Tasks
          <5> QED BY <2>2, <3>2, <4>1, <4>2, Leave
        <4> QED BY <4>3, <4>4
      <3> DEFINE s == <<<<Poll, "cancel">>>>
      <3>4. s \in Seq(Entry) /\ DOMAIN s = {1} /\ s[1][1] = Poll /\ s[1][2] = "cancel"
        BY DEF Entry
      <3>5. ready' = ready \o s
        BY <2>1, AppendIsConcat, <1>1, ZenonT(60) DEF TypeOK
      <3> HIDE DEF s
      <3>6. WakeUpIsDue(Poll, "cancel", lock', pc)
        BY <2>2, <3>3 DEF WakeUpIsDue
      <3>7. Disciplined(ready \o s, lock', pc)
        <4>1. Absent(Poll, ready) /\ ready \in Seq(Entry)
          BY <2>1 DEF TypeOK, Suspended, Absent
        <4> QED BY <3>3, <3>4, <3>6, <4>1, Schedule
      <3>8. OwnerIsAwake(ready \o s, lock', pc)
        <4>1. OwnerIsAwake(ready, lock', pc)
          BY <3>2, <3>3 DEF LockDiscipline, OwnerIsAwake
        <4> QED BY <3>4, <4>1, AwakeAmong DEF TypeOK
      <3> QED BY <2>1, <3>5, <3>7, <3>8 DEF LockDiscipline
    <2>3. CASE pc[Poll] # "locked"
      <3>1. pc[Poll] # "setup"
        BY DEF LockDiscipline, Disciplined, OnlyUnloadIsSetUp, ConstantsAssumption
      <3> QED BY <1>3, <1>7, <2>1, <2>3, <3>1 DEF Cancel, WakeUpIsDue
    <2> QED BY <2>2, <2>3
  <1>8. CASE OpenSucceeds
    BY <1>3, <1>8 DEF OpenSucceeds, WakeUpIsDue
  <1>9. ASSUME NEW t \in Tasks, Timer(t) PROVE LockDiscipline'
    BY <1>3, <1>9 DEF Timer, Timed, Receiving, WakeUpIsDue
  <1>10. ASSUME NEW c \in Conns, Answer(c) \/ PeerCloses(c) PROVE LockDiscipline'
    BY <1>10, WakeReadersDiscipline DEF Answer, PeerCloses
  <1>11. ASSUME NEW c \in Conns, NeverAnswers(c) PROVE LockDiscipline'
    BY <1>11 DEF NeverAnswers, LockDiscipline
  <1> QED BY <1>4, <1>5, <1>6, <1>7, <1>8, <1>9, <1>10, <1>11 DEF Environment

\* Every step keeps the discipline.
LEMMA DisciplineStep ==
    ASSUME TypeOK, LockDiscipline, [Next]_vars
    PROVE  LockDiscipline'
  <1>1. CASE LoopStep
    BY <1>1, PollStepDiscipline, ReadStepDiscipline, WriteStepDiscipline, OtherStepDiscipline
       DEF LoopStep
  <1>2. CASE Environment
    BY <1>2, EnvironmentDiscipline
  <1>3. CASE UNCHANGED vars
    BY <1>3 DEF vars, LockDiscipline
  <1> QED BY <1>1, <1>2, <1>3 DEF Next

\* Types and discipline hold at the start.
LEMMA InitType ==
    ASSUME Init
    PROVE  TypeOK /\ LockDiscipline
  <1>1. TypeOK
    <2>1. <<>> \in Seq(Tasks) /\ <<>> \in Seq(Entry) /\ <<>> \in Seq(Request) /\ <<>> \in Seq(Packet)
      BY EmptySeq
    <2>2. MaxPackets \in 1..MaxPackets
      BY DEF ConstantsAssumption
    <2>3. pc \in [Tasks -> Place]
      BY DEF Init, Place
    <2> QED BY <2>1, <2>2, <2>3 DEF Init, TypeOK
  <1>2. LockDiscipline
    BY EmptySeq DEF Init, LockDiscipline, Disciplined, HolderOwns, QueuedWait, WakeUpsAreDue,
         OnlyUnloadIsSetUp, OwnerIsAwake, Holding, Reading
  <1> QED BY <1>1, <1>2

\* Type and discipline are inductive together: what a task takes off the lock
\* is there because it owns the lock.
LEMMA TypeAndLock == Spec => [](TypeOK /\ LockDiscipline)
  <1>1. Init => TypeOK /\ LockDiscipline
    BY InitType
  <1>2. TypeOK /\ LockDiscipline /\ [Next]_vars => (TypeOK /\ LockDiscipline)'
    BY TypeStep, DisciplineStep
  <1> QED BY <1>1, <1>2, PTL DEF Spec

\* The state of tcp.py's transport, of its tasks and of the network keeps its
\* type, for any number of entities that write and whatever the device does.
THEOREM TypeCorrect == Spec => []TypeOK
  BY TypeAndLock, PTL

\* `async with self._lock` of tcp.py excludes: whoever reads a data or an
\* acknowledgement packet owns the lock, it passes in order, no task is scheduled
\* twice and a lock that was handed over has its new owner scheduled.
THEOREM LockIsDisciplined == Spec => []LockDiscipline
  BY TypeAndLock, PTL

-----------------------------------------------------------------------------
(* The session.                                                              *)

Handshaking == {"closeC", "opening", "iv", "login"}
OkMeansAccepted == \A c \in Conns : \A k \in DOMAIN inbox[c] : inbox[c][k] = "ok" => c \in auth

\* What makes the two session properties inductive: no session survives into a
\* handshake, and the handshake's connection is the transport's, or let go of.
SessionInv ==
    /\ ConnectedIsAuthenticated /\ SessionKeyMatches
    /\ encrypted => iv # None
    /\ pc[Poll] \in Handshaking => iv = None /\ ~encrypted
    /\ pc[Poll] \in {"iv", "login"} => on[Poll] \in Conns /\ conn \in {None, on[Poll]}
    /\ OkMeansAccepted

\* Most steps at most end a session.
Quiet ==
    /\ conn' = conn /\ auth \subseteq auth' /\ iv' \in {iv, None}
    /\ encrypted' => encrypted /\ iv' = iv
    /\ pc'[Poll] \in Handshaking => pc'[Poll] = pc[Poll] /\ on'[Poll] = on[Poll]

\* A step that at most ends a session keeps the session invariant.
LEMMA QuietSession ==
    ASSUME SessionInv, Quiet, OkMeansAccepted'
    PROVE  SessionInv'
  BY DEF SessionInv, Quiet, ConnectedIsAuthenticated, SessionKeyMatches, Connected, Handshaking

\* Taking a packet invents no acceptance of a login.
LEMMA InboxShrinks ==
    ASSUME TypeOK, OkMeansAccepted, auth \subseteq auth',
           inbox' = inbox \/ \E t \in Tasks : Take(t) /\ inbox[on[t]] # <<>>
    PROVE  OkMeansAccepted'
  <1>1. CASE inbox' = inbox
    BY <1>1 DEF OkMeansAccepted
  <1>2. ASSUME NEW t \in Tasks, Take(t), inbox[on[t]] # <<>> PROVE OkMeansAccepted'
    <2> DEFINE b == inbox[on[t]]
    <2>1. ASSUME on[t] \in Conns
          PROVE  \A k \in DOMAIN Tail(b) : k + 1 \in DOMAIN b /\ Tail(b)[k] = b[k + 1]
      BY <1>2, <2>1, HeadTailProperties, LenProperties, EmptySeq DEF TypeOK
    <2>2. inbox' = [inbox EXCEPT ![on[t]] = Tail(b)]
      BY <1>2 DEF Take
    <2> QED BY <2>1, <2>2 DEF OkMeansAccepted, TypeOK
  <1> QED BY <1>1, <1>2

\* disconnect() ends the session, and its second half lets the connection go.
LEMMA HangUpSession ==
    ASSUME TypeOK, SessionInv, conn' = None, iv' = iv, encrypted' = encrypted,
           auth' = auth \ {conn}, inbox' = [c \in Conns |-> IF c = conn THEN <<>> ELSE inbox[c]],
           pc'[Poll] \in {"iv", "login"} => pc[Poll] \in {"iv", "login"} /\ on'[Poll] = on[Poll],
           pc'[Poll] \in Handshaking => pc[Poll] \in Handshaking
    PROVE  SessionInv'
  <1>1. OkMeansAccepted'
    <2>1. DOMAIN <<>> = {}
      OBVIOUS
    <2> QED BY <2>1 DEF SessionInv, OkMeansAccepted
  <1> QED BY <1>1 DEF SessionInv, ConnectedIsAuthenticated, SessionKeyMatches, Connected

\* Reads, writes, failures and teardown at most end a session.
LEMMA QuietStep ==
    ASSUME TypeOK, LockDiscipline, SessionInv,
           \/ ReadBegin \/ ReadSettles \/ ReadSends \/ CollectDataPackets \/ ReadCancelled
           \/ WaitCancelled \/ ConnectFails \/ HandshakeEscapes \/ ConnectionLost
           \/ \E w \in Writers : WriteBegin(w) \/ WriteSends(w) \/ WriteAcked(w) \/ WriteUnanswered(w)
           \/ \E t \in Tasks : RecvBlocks(t)
    PROVE  SessionInv'
  <1> USE DEF Quiet, Handshaking, Runs
  <1>1. ASSUME Quiet, inbox' = inbox \/ \E t \in Tasks : Take(t) /\ inbox[on[t]] # <<>>
        PROVE  SessionInv'
    BY <1>1, QuietSession, InboxShrinks DEF SessionInv
  <1>2. CASE ReadBegin
    BY <1>1, <1>2 DEF ReadBegin, Acquire, Continue, Await, TypeOK
  <1>3. CASE ReadSettles
    BY <1>1, <1>3 DEF ReadSettles, Await, TypeOK
  <1>4. CASE ReadSends
    <2>1. CASE CanSend
      BY <1>1, <1>4, <2>1 DEF ReadSends, Send, Continue, TypeOK
    <2>2. CASE ~CanSend
      BY <1>1, <1>4, <2>2 DEF ReadSends, ReadFails, TypeOK
    <2> QED BY <2>1, <2>2
  <1>5. CASE CollectDataPackets
    <2>1. pc[Poll] \in {"collect", "recollect"}
      BY <1>5 DEF CollectDataPackets
    <2>2. inbox' = inbox \/ \E t \in Tasks : Take(t) /\ inbox[on[t]] # <<>>
      BY <1>5 DEF CollectDataPackets, CollectFails, LastPacket, Gets
    <2>3. ASSUME NEW some, CollectEnds(some) PROVE Quiet
      BY <2>3 DEF CollectEnds, ReadReturns, Await, TypeOK, ConstantsAssumption
    <2>4. ASSUME NEW some, CollectMore(some) PROVE Quiet
      BY <2>1, <2>3, <2>4 DEF CollectMore, Continue, TypeOK
    <2>5. ASSUME ReadFails PROVE Quiet
      BY <2>5 DEF ReadFails, TypeOK
    <2>6. ReadFails \/ \E some : CollectEnds(some) \/ CollectMore(some)
      BY <1>5 DEF CollectDataPackets, CollectFails
    <2> QED BY <1>1, <2>2, <2>3, <2>4, <2>5, <2>6
  <1>6. CASE ReadCancelled
    BY <1>1, <1>6 DEF ReadCancelled, ReleaseAndEnd, TypeOK
  <1>7. CASE WaitCancelled
    BY <1>1, <1>7 DEF WaitCancelled, Finish, Await, TypeOK
  <1>8. CASE ConnectFails
    <2>1. inbox' = inbox \/ \E t \in Tasks : Take(t) /\ inbox[on[t]] # <<>>
      BY <1>8 DEF ConnectFails, Gets
    <2> QED BY <1>1, <1>8, <2>1 DEF ConnectFails, Continue, TypeOK
  <1>9. CASE HandshakeEscapes
    <2>1. inbox' = inbox \/ \E t \in Tasks : Take(t) /\ inbox[on[t]] # <<>>
      BY <1>9 DEF HandshakeEscapes, Gets
    <2> QED BY <1>1, <1>9, <2>1 DEF HandshakeEscapes, Finish, Await, TypeOK
  <1>10. CASE ConnectionLost
    BY <1>1, <1>10 DEF ConnectionLost
  <1>11. ASSUME NEW w \in Writers,
                WriteBegin(w) \/ WriteSends(w) \/ WriteAcked(w) \/ WriteUnanswered(w)
         PROVE  SessionInv'
    <2>1. w \in Tasks /\ w # Poll
      BY DEF ConstantsAssumption
    <2>2. CASE WriteBegin(w)
      BY <1>1, <2>1, <2>2 DEF WriteBegin, Acquire, Continue, Await, TypeOK
    <2>3. ASSUME WriteFails(w) PROVE SessionInv'
      BY <1>1, <2>1, <2>3 DEF WriteFails, ReleaseAndEnd, TypeOK
    <2>4. CASE WriteSends(w)
      BY <1>1, <2>1, <2>3, <2>4 DEF WriteSends, Send, Continue, TypeOK
    <2>5. CASE WriteAcked(w)
      BY <1>1, <2>1, <2>5 DEF WriteAcked, Gets, ReleaseAndEnd, TypeOK
    <2>6. CASE WriteUnanswered(w)
      BY <2>3, <2>6 DEF WriteUnanswered
    <2> QED BY <1>11, <2>2, <2>4, <2>5, <2>6
  <1>12. ASSUME NEW t \in Tasks, RecvBlocks(t) PROVE SessionInv'
    <2>1. pc' = pc
      BY <1>12 DEF RecvBlocks, Await, TypeOK
    <2> QED BY <1>1, <1>12, <2>1 DEF RecvBlocks
  <1> QED BY <1>2, <1>3, <1>4, <1>5, <1>6, <1>7, <1>8, <1>9, <1>10, <1>11, <1>12

\* The steps that begin, establish or end a connection.
LEMMA ConnectionStep ==
    ASSUME TypeOK, LockDiscipline, SessionInv,
           \/ PollBegin \/ Connect \/ Opened \/ HandshakeIv \/ HandshakeLogin
           \/ AttemptFails \/ AttemptOver \/ UnloadBegin \/ UnloadOver
    PROVE  SessionInv'
  <1> USE DEF Handshaking, Runs
  <1>1. ASSUME Quiet, inbox' = inbox PROVE SessionInv'
    BY <1>1, QuietSession, InboxShrinks DEF SessionInv, Quiet
  <1>2. ASSUME NEW t \in Tasks, NEW p \in Closing, Disconnect(t, p) PROVE SessionInv'
    <2>1. /\ conn' = conn /\ iv' = None /\ ~encrypted' /\ inbox' = inbox /\ auth' = auth
          /\ pc'[Poll] \notin {"iv", "login"} \/ (pc'[Poll] = pc[Poll] /\ on'[Poll] = on[Poll])
      BY <1>2 DEF Disconnect, DropSession, Continue, Closing, TypeOK, ConstantsAssumption
    <2>2. OkMeansAccepted'
      BY <2>1, InboxShrinks DEF SessionInv
    <2> QED BY <2>1, <2>2
        DEF SessionInv, ConnectedIsAuthenticated, SessionKeyMatches, Connected
  <1>3. CASE PollBegin
    <2>1. CASE Connected
      BY <1>1, <1>3, <2>1 DEF PollBegin, Continue, Quiet, TypeOK
    <2>2. CASE ~Connected
      BY <1>2, <1>3, <2>2 DEF PollBegin, Closing
    <2> QED BY <2>1, <2>2
  <1>4. CASE Connect
    <2>1. pc'[Poll] = "opening"
      BY <1>4 DEF Connect, Finish, Await, TypeOK
    <2> QED BY <1>4, <2>1, HangUpSession DEF Connect, LetGo
  <1>5. CASE Opened
    <2>1. PICK c \in Conns : conn' = c /\ on' = [on EXCEPT ![Poll] = c]
      BY <1>5 DEF Opened
    <2>2. iv' = None /\ ~encrypted' /\ inbox' = inbox /\ auth' = auth
      BY <1>5 DEF Opened, SessionInv
    <2>3. OkMeansAccepted'
      BY <2>2, InboxShrinks DEF SessionInv
    <2>4. on'[Poll] = c
      BY <2>1 DEF TypeOK
    <2> QED BY <2>1, <2>2, <2>3, <2>4
        DEF SessionInv, ConnectedIsAuthenticated, SessionKeyMatches, Connected
  <1>6. CASE HandshakeIv
    <2>1. /\ conn' = conn /\ iv' = iv /\ encrypted' = encrypted /\ auth' = auth
          /\ pc[Poll] = "iv" /\ pc'[Poll] = "login" /\ on'[Poll] = conn /\ conn # None
          /\ Take(Poll) /\ inbox[on[Poll]] # <<>>
      BY <1>6 DEF HandshakeIv, Send, Continue, CanSend, Gets, TypeOK
    <2>2. OkMeansAccepted'
      BY <2>1, InboxShrinks DEF SessionInv
    <2>3. conn \in Conns
      BY <2>1 DEF TypeOK
    <2> QED BY <2>1, <2>2, <2>3
        DEF SessionInv, ConnectedIsAuthenticated, SessionKeyMatches, Connected
  <1>7. CASE HandshakeLogin
    <2>1. /\ conn' = conn /\ iv' = on[Poll] /\ encrypted' /\ auth' = auth /\ on' = on
          /\ pc[Poll] = "login" /\ pc'[Poll] = "acquire"
          /\ Take(Poll) /\ inbox[on[Poll]] # <<>> /\ Head(inbox[on[Poll]]) = "ok"
      BY <1>7 DEF HandshakeLogin, LoginAccepted, Continue, Gets, TypeOK
    <2>2. OkMeansAccepted'
      BY <2>1, InboxShrinks DEF SessionInv
    <2>3. on[Poll] \in Conns /\ conn \in {None, on[Poll]} /\ None \notin Conns
      BY <2>1 DEF SessionInv, ConstantsAssumption
    <2>4. on[Poll] \in auth
      <3>1. /\ 1 \in DOMAIN inbox[on[Poll]] /\ inbox[on[Poll]][1] = "ok"
        BY <2>1, <2>3, LenProperties, EmptySeq DEF TypeOK
      <3> QED BY <2>3, <3>1 DEF SessionInv, OkMeansAccepted
    <2> QED BY <2>1, <2>2, <2>3, <2>4
        DEF SessionInv, ConnectedIsAuthenticated, SessionKeyMatches, Connected
  <1>8. CASE AttemptFails
    BY <1>2, <1>8 DEF AttemptFails, Closing
  <1>9. CASE AttemptOver
    <2>1. pc'[Poll] \in {"begin", "idle"}
      BY <1>9 DEF AttemptOver, Continue, Finish, Await, TypeOK
    <2> QED BY <1>9, <2>1, HangUpSession DEF AttemptOver, LetGo
  <1>10. CASE UnloadBegin
    <2>1. CASE active
      BY <1>2, <1>10, <2>1 DEF UnloadBegin, Closing
    <2>2. CASE ~active
      BY <1>1, <1>10, <2>2 DEF UnloadBegin, Await, Quiet, TypeOK, ConstantsAssumption
    <2> QED BY <2>1, <2>2
  <1>11. CASE UnloadOver
    <2>1. pc'[Poll] = pc[Poll] /\ on'[Poll] = on[Poll]
      BY <1>11 DEF UnloadOver, Finish, Await, TypeOK, ConstantsAssumption
    <2> QED BY <1>11, <2>1, HangUpSession DEF UnloadOver, LetGo
  <1> QED BY <1>3, <1>4, <1>5, <1>6, <1>7, <1>8, <1>9, <1>10, <1>11

\* What comes from outside keeps the session invariant.
LEMMA EnvironmentSession ==
    ASSUME TypeOK, SessionInv, Environment
    PROVE  SessionInv'
  <1> USE DEF Quiet, Handshaking
  <1>1. ASSUME Quiet, inbox' = inbox PROVE SessionInv'
    BY <1>1, QuietSession, InboxShrinks DEF SessionInv
  <1>2. CASE PollStart
    BY <1>1, <1>2 DEF PollStart, Start, TypeOK
  <1>3. CASE UnloadStart
    BY <1>1, <1>3 DEF UnloadStart, Start, TypeOK, ConstantsAssumption
  <1>4. CASE Cancel
    BY <1>1, <1>4 DEF Cancel
  <1>5. CASE OpenSucceeds
    BY <1>1, <1>5 DEF OpenSucceeds
  <1>6. ASSUME NEW w \in Writers, WriteStart(w) PROVE SessionInv'
    BY <1>1, <1>6 DEF WriteStart, Start, TypeOK, ConstantsAssumption
  <1>7. ASSUME NEW t \in Tasks, Timer(t) PROVE SessionInv'
    BY <1>1, <1>7 DEF Timer
  <1>8. ASSUME NEW c \in Conns, NeverAnswers(c) \/ PeerCloses(c) PROVE SessionInv'
    BY <1>1, <1>8 DEF NeverAnswers, PeerCloses
  <1>9. ASSUME NEW c \in Conns, Answer(c) PROVE SessionInv'
    <2>1. PICK packet \in Packet :
            /\ inbox' = [inbox EXCEPT ![c] = Append(@, packet)]
            /\ auth' = IF packet = "ok" THEN auth \cup {c} ELSE auth
      <3> DEFINE request == Head(owed[c])
      <3>1. request \in Request
        BY <1>9, HeadTailProperties DEF Answer, TypeOK
      <3>2. PICK kind \in Replies(request) :
              /\ inbox' = [inbox EXCEPT ![c] = Append(@, kind)]
              /\ auth' = IF kind = "ok" THEN auth \cup {c} ELSE auth
        BY <1>9 DEF Answer
      <3>3. kind \in Packet
        BY <3>1, <3>2 DEF Replies, Request, Packet
      <3> QED BY <3>2, <3>3
    <2>2. Quiet
      BY <1>9, <2>1 DEF Answer
    <2>3. OkMeansAccepted'
      <3> DEFINE b == Append(inbox[c], packet)
      <3>1. \A k \in DOMAIN b : (k \in DOMAIN inbox[c] /\ b[k] = inbox[c][k]) \/ b[k] = packet
        <4>1. inbox[c] \in Seq(Packet)
          BY DEF TypeOK
        <4>2. DOMAIN b = 1..Len(inbox[c]) + 1 /\ DOMAIN inbox[c] = 1..Len(inbox[c]) /\ Len(inbox[c]) \in Nat
          BY <4>1, AppendProperties, LenProperties
        <4>3. \A k \in 1..Len(inbox[c]) : b[k] = inbox[c][k]
          BY <4>1, AppendProperties
        <4>4. b[Len(inbox[c]) + 1] = packet
          BY <4>1, AppendProperties
        <4> QED BY <4>2, <4>3, <4>4
      <3>2. inbox'[c] = b /\ \A d \in Conns \ {c} : inbox'[d] = inbox[d]
        BY <2>1 DEF TypeOK
      <3> HIDE DEF b
      <3> QED BY <2>1, <3>1, <3>2 DEF SessionInv, OkMeansAccepted
    <2> QED BY <2>2, <2>3, QuietSession
  <1> QED BY <1>2, <1>3, <1>4, <1>5, <1>6, <1>7, <1>8, <1>9 DEF Environment

\* The session invariant is inductive, given the types and the lock.
LEMMA SessionIsSafe == Spec => []SessionInv
  <1>1. Init => SessionInv
    BY DEF Init, SessionInv, ConnectedIsAuthenticated, SessionKeyMatches, Connected,
           OkMeansAccepted, Handshaking, ConstantsAssumption
  <1>2. TypeOK /\ LockDiscipline /\ SessionInv /\ [Next]_vars => SessionInv'
    <2> SUFFICES ASSUME TypeOK, LockDiscipline, SessionInv, [Next]_vars PROVE SessionInv'
      OBVIOUS
    <2>1. CASE LoopStep
      BY <2>1, QuietStep, ConnectionStep DEF LoopStep
    <2>2. CASE Environment
      BY <2>2, EnvironmentSession
    <2>3. CASE UNCHANGED vars
      BY <2>3 DEF vars, SessionInv, ConnectedIsAuthenticated, SessionKeyMatches, Connected,
                  OkMeansAccepted
    <2> QED BY <2>1, <2>2, <2>3 DEF Next
  <1> QED BY <1>1, <1>2, TypeAndLock, PTL DEF Spec

\* `connected` is only ever true of the connection the transport holds, after
\* its own login and with its own key: for any interleaving of polls, writes,
\* unloading and cancellation.
THEOREM ConnectedMeansAuthenticated == Spec => []ConnectedIsAuthenticated
  <1>1. SessionInv => ConnectedIsAuthenticated
    BY DEF SessionInv
  <1> QED BY <1>1, SessionIsSafe, PTL

\* A key left behind by a failed write never meets a later connection.
THEOREM KeyFitsConnection == Spec => []SessionKeyMatches
  <1>1. SessionInv => SessionKeyMatches
    BY DEF SessionInv
  <1> QED BY <1>1, SessionIsSafe, PTL

-----------------------------------------------------------------------------
(* The streams have one reader each, and no socket is left behind.  The lock  *)
(* covers neither the handshake nor disconnect(); what keeps them apart from  *)
(* the readers is the order in which the loop resumes those whose connection  *)
(* is gone.                                                                   *)

\* A connection that ends what is read from it; a task that waits to be resumed.
Dead(c) == sock[c] \in {"rst", "closed"}
Awake(t, r) == \E i \in DOMAIN r : r[i][1] = t

\* In the queue r, t comes before any wake-up that lets the poll go on.
Ahead(t, r) == \A i \in DOMAIN r : r[i] = <<Poll, "go">> => \E j \in 1..(i - 1) : r[j][1] = t

\* Where tasks can be, and that those who receive have a connection.
Places ==
    /\ pc[Unload] \in {"setup", "idle", "begin", "closeU", "done"} /\ pc[Poll] \notin {"ack", "closeU"}
    /\ \A w \in Writers : pc[w] \in {"idle", "begin", "locked", "ack"}
    /\ \A t \in Tasks : pc[t] \in Receiving => on[t] \in Conns

\* A reader whose connection was let go: nothing is held, and nothing arrives.
LetGoIsDead == \A t \in Tasks : pc[t] \in Receiving /\ on[t] # conn =>
    conn = None /\ Dead(on[t]) /\ inbox[on[t]] = <<>>

\* A writer is told when its connection dies.
DeadIsSeen == \A t \in Tasks : pc[t] = "ack" /\ Dead(on[t]) => Awake(t, ready)

\* A task that hangs up holds on to the connection until it is closed.
HangUps == \A t \in Tasks : pc[t] \in Closing /\ conn # None =>
    \/ Dead(conn)
    \/ sock[conn] = "closing" /\ on[t] = conn /\ ~Queued(<<t, "go">>, ready)

\* The unloading, where it hangs up, is resumed or waits for its connection.
UnloadGoesOn == pc[Unload] = "closeU" =>
    Awake(Unload, ready) \/ (conn # None /\ conn = on[Unload] /\ sock[conn] = "closing")

\* While the poll opens a connection, whoever still has to do with the last one
\* is resumed first.
OpeningIsLast == pc[Poll] = "opening" =>
    conn = None /\ \A t \in Tasks : pc[t] \in {"ack", "closeU"} => Ahead(t, ready)

\* Nobody waits for an acknowledgement while the poll shakes hands.
HandshakeIsAlone == pc[Poll] \in {"iv", "login"} => \A t \in Tasks : pc[t] # "ack"

\* What makes OneReader, ReaderOwnsSocket and NoOrphanSocket inductive.
ReaderInv ==
    /\ Places /\ LetGoIsDead /\ DeadIsSeen /\ NoOrphanSocket
    /\ HangUps /\ UnloadGoesOn /\ OpeningIsLast /\ HandshakeIsAlone

-----------------------------------------------------------------------------
(* The loop's queue.                                                         *)

\* From the queue r to the queue q, t keeps its wake-up and gets none to go on.
Stays(t, r, q) ==
    /\ Awake(t, r) => Awake(t, q)
    /\ Queued(<<t, "go">>, q) => Queued(<<t, "go">>, r)

\* Taking the head off the queue leaves the others where they are.
LEMMA QueueTail ==
    ASSUME NEW r \in Seq(Entry), r # <<>>, NEW u \in Tasks, r[1][1] # u
    PROVE  Stays(u, r, Tail(r)) /\ (Ahead(u, r) => Ahead(u, Tail(r)))
  <1>1. /\ Tail(r) \in Seq(Entry)
        /\ DOMAIN r = 1..Len(r) /\ Len(r) \in Nat \ {0}
        /\ DOMAIN Tail(r) = 1..(Len(r) - 1)
        /\ \A i \in 1..(Len(r) - 1) : Tail(r)[i] = r[i + 1]
    BY HeadTailProperties, LenProperties, EmptySeq
  <1>2. \A i \in DOMAIN Tail(r) : i + 1 \in DOMAIN r /\ Tail(r)[i] = r[i + 1]
    BY <1>1
  <1>3. \A i \in DOMAIN r : i # 1 => i - 1 \in DOMAIN Tail(r) /\ Tail(r)[i - 1] = r[i]
    BY <1>1
  <1>4. Stays(u, r, Tail(r))
    BY <1>2, <1>3, ZenonT(60) DEF Stays, Awake, Queued
  <1>5. ASSUME Ahead(u, r), NEW i \in DOMAIN Tail(r), Tail(r)[i] = <<Poll, "go">>
        PROVE  \E j \in 1..(i - 1) : Tail(r)[j][1] = u
    <2>1. PICK j \in 1..((i + 1) - 1) : r[j][1] = u
      BY <1>2, <1>5 DEF Ahead
    <2>2. j # 1 /\ j - 1 \in 1..(i - 1) /\ j \in DOMAIN r
      BY <1>1, <1>5, <2>1
    <2> QED BY <1>3, <2>1, <2>2
  <1> QED BY <1>4, <1>5 DEF Ahead

\* So does replacing the head by a task that goes on.
LEMMA QueueHead ==
    ASSUME NEW r \in Seq(Entry), r # <<>>, NEW t \in Tasks, r[1][1] = t, NEW u \in Tasks, u # t
    PROVE  /\ Stays(u, r, [r EXCEPT ![1] = <<t, "go">>])
           /\ t # Poll /\ Ahead(u, r) => Ahead(u, [r EXCEPT ![1] = <<t, "go">>])
  <1> DEFINE q == [r EXCEPT ![1] = <<t, "go">>]
  <1>1. /\ DOMAIN r = 1..Len(r) /\ Len(r) \in Nat \ {0}
        /\ DOMAIN q = DOMAIN r /\ q[1] = <<t, "go">> /\ \A i \in DOMAIN r : i # 1 => q[i] = r[i]
    BY LenProperties, EmptySeq
  <1> HIDE DEF q
  <1>2. Stays(u, r, q)
    BY <1>1 DEF Stays, Awake, Queued
  <1>3. ASSUME t # Poll, Ahead(u, r), NEW i \in DOMAIN q, q[i] = <<Poll, "go">>
        PROVE  \E j \in 1..(i - 1) : q[j][1] = u
    <2>1. i # 1 /\ r[i] = <<Poll, "go">>
      BY <1>1, <1>3
    <2>2. PICK j \in 1..(i - 1) : r[j][1] = u
      BY <1>1, <1>3, <2>1 DEF Ahead
    <2>3. j # 1 /\ j \in DOMAIN r
      BY <1>1, <1>3, <2>2
    <2> QED BY <1>1, <2>2, <2>3
  <1> QED BY <1>2, <1>3 DEF Ahead, q

\* So does scheduling others behind it.
LEMMA QueueMore ==
    ASSUME NEW r \in Seq(Entry), NEW s \in Seq(Entry), NEW u \in Tasks
    PROVE  /\ (\A i \in DOMAIN s : s[i] # <<u, "go">>) => Stays(u, r, r \o s)
           /\ Awake(u, r) \/ Awake(u, s) => Awake(u, r \o s)
           /\ (\A i \in DOMAIN s : s[i] # <<Poll, "go">>) /\ Ahead(u, r) => Ahead(u, r \o s)
           /\ Awake(u, r) /\ Ahead(u, r) => Ahead(u, r \o s)
  <1> DEFINE q == r \o s
  <1>1. /\ DOMAIN r = 1..Len(r) /\ Len(r) \in Nat
        /\ DOMAIN s = 1..Len(s) /\ Len(s) \in Nat
        /\ DOMAIN q = 1..(Len(r) + Len(s))
        /\ \A i \in 1..(Len(r) + Len(s)) : q[i] = IF i <= Len(r) THEN r[i] ELSE s[i - Len(r)]
    BY ConcatProperties, LenProperties
  <1> HIDE DEF q
  <1>2. /\ \A i \in DOMAIN r : i \in DOMAIN q /\ q[i] = r[i]
        /\ \A i \in DOMAIN s : i + Len(r) \in DOMAIN q /\ q[i + Len(r)] = s[i]
    BY <1>1
  <1>3. \A i \in DOMAIN q : \/ i \in DOMAIN r /\ q[i] = r[i]
                            \/ i - Len(r) \in DOMAIN s /\ q[i] = s[i - Len(r)] /\ i > Len(r)
    BY <1>1
  <1>4. Awake(u, r) \/ Awake(u, s) => Awake(u, q)
    BY <1>2 DEF Awake
  <1>5. (\A i \in DOMAIN s : s[i] # <<u, "go">>) => Stays(u, r, q)
    BY <1>3, <1>4 DEF Stays, Queued
  <1>6. ASSUME Ahead(u, r), NEW i \in DOMAIN q, i \in DOMAIN r, q[i] = r[i], q[i] = <<Poll, "go">>
        PROVE  \E j \in 1..(i - 1) : q[j][1] = u
    <2>1. PICK j \in 1..(i - 1) : r[j][1] = u
      BY <1>6 DEF Ahead
    <2>2. j \in DOMAIN r
      BY <1>1, <1>6, <2>1
    <2> QED BY <1>2, <2>1, <2>2
  <1>7. (\A i \in DOMAIN s : s[i] # <<Poll, "go">>) /\ Ahead(u, r) => Ahead(u, q)
    BY <1>3, <1>6 DEF Ahead
  <1>8. ASSUME Awake(u, r), Ahead(u, r) PROVE Ahead(u, q)
    <2>1. PICK j \in DOMAIN r : r[j][1] = u
      BY <1>8 DEF Awake
    <2>2. \A i \in DOMAIN q : i > Len(r) => j \in 1..(i - 1) /\ q[j][1] = u
      BY <1>1, <1>2, <2>1
    <2> QED BY <1>3, <1>6, <1>8, <2>2 DEF Ahead
  <1> QED BY <1>4, <1>5, <1>7, <1>8 DEF q

\* How a step of t leaves the queue: it is done or goes on, and wakes no task
\* but the next owner of the lock.
Loops(t) == \E s \in Seq(Entry) :
    /\ ready' = Tail(ready) \o s \/ ready' = [ready EXCEPT ![1] = <<t, "go">>] \o s
    /\ \A i \in DOMAIN s : s[i][1] \in Tasks => pc[s[i][1]] = "locked"

\* All steps of tasks do.
LEMMA StepLoops ==
    ASSUME TypeOK, LockDiscipline, NEW t \in Tasks, ready # <<>>,
           \/ ready' \in {Tail(ready), Tail(ready) \o NextOwner}
           \/ ready' \in {[ready EXCEPT ![1] = <<t, "go">>], [ready EXCEPT ![1] = <<t, "go">>] \o NextOwner}
           \/ conn \in Conns /\ ready' = Tail(ready) \o <<<<conn, "lost">>>>
    PROVE  Loops(t)
  <1> DEFINE Harmless(s) == s \in Seq(Entry) /\ \A i \in DOMAIN s : s[i][1] \in Tasks => pc[s[i][1]] = "locked"
  <1>1. Tail(ready) \in Seq(Entry) /\ [ready EXCEPT ![1] = <<t, "go">>] \in Seq(Entry)
    BY QueueType
  <1>2. Harmless(<<>>)
    BY EmptySeq
  <1>3. Harmless(NextOwner)
    <2>1. CASE Len(lock) > 1
      <3>1. lock[2] \in Tasks /\ pc[lock[2]] = "locked"
        BY <2>1, NextOwnerWaits
      <3>2. NextOwner = <<<<lock[2], "go">>>>
        BY <2>1 DEF NextOwner
      <3> QED BY <3>1, <3>2 DEF Entry
    <2>2. CASE ~(Len(lock) > 1)
      BY <1>2, <2>2 DEF NextOwner
    <2> QED BY <2>1, <2>2
  <1>4. conn \in Conns => Harmless(<<<<conn, "lost">>>>)
    BY DEF Entry
  <1>5. /\ Tail(ready) = Tail(ready) \o <<>>
        /\ [ready EXCEPT ![1] = <<t, "go">>] = [ready EXCEPT ![1] = <<t, "go">>] \o <<>>
    BY <1>1, ConcatEmptySeq
  <1> HIDE DEF Harmless
  <1>6. ASSUME NEW s, Harmless(s),
               ready' = Tail(ready) \o s \/ ready' = [ready EXCEPT ![1] = <<t, "go">>] \o s
        PROVE  Loops(t)
    BY <1>6 DEF Loops, Harmless
  <1> QED BY <1>2, <1>3, <1>4, <1>5, <1>6

\* What a step of t leaves to the tasks that do not wait for the lock.
LEMMA LoopKeeps ==
    ASSUME TypeOK, NEW t \in Tasks, ready # <<>>, ready[1][1] = t, Loops(t),
           NEW u \in Tasks, u # t, pc[u] # "locked"
    PROVE  /\ Stays(u, ready, ready')
           /\ t # Poll /\ pc[Poll] = "opening" /\ Ahead(u, ready) => Ahead(u, ready')
  <1>1. PICK s \in Seq(Entry) :
          /\ ready' = Tail(ready) \o s \/ ready' = [ready EXCEPT ![1] = <<t, "go">>] \o s
          /\ \A i \in DOMAIN s : s[i][1] \in Tasks => pc[s[i][1]] = "locked"
    BY DEF Loops
  <1>2. ready \in Seq(Entry) /\ Tail(ready) \in Seq(Entry) /\ [ready EXCEPT ![1] = <<t, "go">>] \in Seq(Entry)
    BY QueueType DEF TypeOK
  <1>3. \A i \in DOMAIN s : s[i] # <<u, "go">> /\ (pc[Poll] = "opening" => s[i] # <<Poll, "go">>)
    BY <1>1
  <1>4. ASSUME NEW r \in Seq(Entry), Stays(u, ready, r),
               t # Poll /\ Ahead(u, ready) => Ahead(u, r), ready' = r \o s
        PROVE  /\ Stays(u, ready, ready')
               /\ t # Poll /\ pc[Poll] = "opening" /\ Ahead(u, ready) => Ahead(u, ready')
    <2>1. /\ Stays(u, r, ready')
          /\ pc[Poll] = "opening" /\ Ahead(u, r) => Ahead(u, ready')
      BY <1>3, <1>4, QueueMore
    <2> QED BY <1>4, <2>1 DEF Stays
  <1> QED BY <1>1, <1>2, <1>4, QueueTail, QueueHead

-----------------------------------------------------------------------------
(* Steps that neither begin nor end a connection.                            *)

\* No packet arrives on a connection let go; t still reads where it did.
NothingArrives == \A c \in Conns : c # conn /\ inbox[c] = <<>> => inbox'[c] = <<>>
Remains(t) == pc[t] \in Receiving /\ on'[t] = on[t]

\* A running task goes on, with the connection it had or with the one held.
Goes(t) ==
    /\ conn' = conn /\ sock' = sock
    /\ NothingArrives
    /\ \A u \in Tasks \ {t} : on'[u] = on[u] /\ pc'[u] \in {pc[u], "idle"}
    /\ pc'[t] \notin Closing \cup {"opening"}
    /\ pc'[t] \in Receiving => Remains(t) \/ (conn # None /\ on'[t] = conn)
    /\ t # Poll => pc'[t] \notin Receiving \ {"ack"}
    /\ pc'[t] \in {"iv", "login"} => pc[t] \in {"iv", "login"}
    /\ pc'[t] = "ack" => t \in Writers
    /\ pc'[t] = "ack" /\ ~(pc[t] = "ack" /\ Remains(t) /\ ~Dead(on[t])) =>
          conn # None /\ pc[Poll] \notin {"iv", "login"} /\ Awake(t, ready')
    /\ t \in Writers => pc'[t] \in {"idle", "locked", "ack"}
    /\ t = Unload => pc'[t] = "done"

\* Such a step keeps the invariant.
LEMMA GoesOn ==
    ASSUME TypeOK, ReaderInv, NEW t \in Tasks, ready # <<>>, ready[1][1] = t, Loops(t), Goes(t)
    PROVE  ReaderInv'
  <1> USE DEF ReaderInv
  <1>1. /\ conn' = conn /\ sock' = sock
        /\ \A u \in Tasks \ {t} : on'[u] = on[u] /\ pc'[u] \in {pc[u], "idle"}
    BY DEF Goes, Remains
  <1>2. \A c : Dead(c)' <=> Dead(c)
    BY <1>1 DEF Dead
  <1>3. \A u \in Tasks : pc'[u] \in Closing \cup {"ack", "closeU"} /\ u # t =>
          pc'[u] = pc[u] /\ on'[u] = on[u] /\ Stays(u, ready, ready')
    BY <1>1, LoopKeeps DEF Closing
  <1>4. Places'
    <2>1. \A u \in Tasks : pc'[u] \in Receiving => on'[u] \in Conns
      BY <1>1 DEF Goes, Remains, Places, TypeOK, Receiving
    <2>2. pc'[Unload] \in {"setup", "idle", "begin", "closeU", "done"} /\ pc'[Poll] \notin {"ack", "closeU"}
      BY DEF Goes, Remains, Places, Closing, ConstantsAssumption
    <2>3. \A w \in Writers : pc'[w] \in {"idle", "begin", "locked", "ack"}
      BY DEF Goes, Remains, Places
    <2> QED BY <2>1, <2>2, <2>3 DEF Places
  <1>5. LetGoIsDead'
    BY <1>1, <1>2 DEF Goes, Remains, NothingArrives, LetGoIsDead, Places, Receiving
  <1>6. DeadIsSeen'
    BY <1>1, <1>2, <1>3 DEF Goes, Remains, DeadIsSeen, Stays
  <1>7. NoOrphanSocket'
    BY <1>1 DEF NoOrphanSocket
  <1>8. HangUps'
    BY <1>1, <1>2, <1>3 DEF Goes, Remains, HangUps, Stays
  <1>9. UnloadGoesOn'
    BY <1>1, <1>3 DEF Goes, Remains, UnloadGoesOn, Stays, Closing
  <1>10. OpeningIsLast'
    <2> SUFFICES ASSUME pc'[Poll] = "opening",
                        NEW u \in Tasks, pc'[u] \in {"ack", "closeU"}
                 PROVE  conn' = None /\ Ahead(u, ready')
      BY <1>1 DEF OpeningIsLast, Goes
    <2>1. t # Poll /\ pc[Poll] = "opening" /\ conn = None
      BY DEF Goes, Remains, OpeningIsLast
    <2>2. u # t
      <3>1. ASSUME u = t PROVE FALSE
        <4>1. pc[t] = "ack" /\ ~Dead(on[t])
          BY <2>1, <3>1 DEF Goes, Remains, Closing
        <4>2. on[t] \in Conns /\ on[t] # conn
          BY <2>1, <4>1 DEF Places, Receiving
        <4> QED BY <4>1, <4>2 DEF LetGoIsDead, Receiving
      <3> QED BY <3>1
    <2>3. pc[u] = pc'[u]
      BY <1>3, <2>2
    <2> QED BY <1>1, <2>1, <2>2, <2>3, LoopKeeps DEF OpeningIsLast
  <1>11. HandshakeIsAlone'
    <2> SUFFICES ASSUME pc'[Poll] \in {"iv", "login"}, NEW u \in Tasks, pc'[u] = "ack" PROVE FALSE
      BY DEF HandshakeIsAlone
    <2>1. pc[Poll] \in {"iv", "login"}
      BY DEF Goes, Remains
    <2> QED BY <2>1 DEF Goes, Remains, HandshakeIsAlone
  <1> QED BY <1>4, <1>5, <1>6, <1>7, <1>8, <1>9, <1>10, <1>11

\* Taking a packet, or none, lets nothing arrive on another connection.
LEMMA NoneArrives ==
    ASSUME TypeOK, NEW t, inbox' = inbox \/ (Take(t) /\ inbox[on[t]] # <<>>)
    PROVE  NothingArrives
  BY DEF Take, TypeOK, NothingArrives

\* What a step of t does not touch of the other tasks.
OthersStay(t) == \A u \in Tasks \ {t} : on'[u] = on[u] /\ pc'[u] = pc[u]

\* The steps of the poll that go on: its connect().
LEMMA ConnectGoes ==
    ASSUME TypeOK, LockDiscipline, SessionInv, ReaderInv,
           \/ HandshakeIv \/ HandshakeLogin \/ ConnectFails \/ HandshakeEscapes \/ WaitCancelled
           \/ PollBegin /\ Connected
    PROVE  ReaderInv'
  <1> USE DEF Runs
  <1>1. ready # <<>> /\ ready[1][1] = Poll
    BY DEF HandshakeIv, HandshakeLogin, ConnectFails, HandshakeEscapes, WaitCancelled, PollBegin
  <1>2. Loops(Poll)
    BY <1>1, StepLoops DEF HandshakeIv, HandshakeLogin, ConnectFails, HandshakeEscapes,
       WaitCancelled, PollBegin, Continue, Finish, Await, Send
  <1>3. Goes(Poll)
    <2>1. CASE HandshakeIv
      <3>1. /\ conn' = conn /\ sock' = sock /\ conn # None /\ on'[Poll] = conn
            /\ pc[Poll] = "iv" /\ pc'[Poll] = "login"
            /\ OthersStay(Poll) /\ NothingArrives
        BY <2>1, NoneArrives DEF HandshakeIv, Send, Continue, Gets, CanSend, TypeOK, OthersStay
      <3> QED BY <3>1 DEF Goes, Remains, Closing, Receiving, OthersStay, ConstantsAssumption
    <2>2. CASE HandshakeLogin
      <3>1. /\ conn' = conn /\ sock' = sock /\ pc'[Poll] = "acquire"
            /\ OthersStay(Poll) /\ NothingArrives
        BY <2>2, NoneArrives DEF HandshakeLogin, LoginAccepted, Continue, Gets, TypeOK, OthersStay
      <3> QED BY <3>1 DEF Goes, Remains, Closing, Receiving, OthersStay, ConstantsAssumption
    <2>3. CASE ConnectFails
      <3>1. /\ conn' = conn /\ sock' = sock /\ pc'[Poll] = "failed" /\ OthersStay(Poll)
            /\ NothingArrives
        BY <2>3, NoneArrives DEF ConnectFails, Continue, Gets, TypeOK, OthersStay
      <3> QED BY <3>1 DEF Goes, Remains, Closing, Receiving, OthersStay, ConstantsAssumption
    <2>4. CASE HandshakeEscapes \/ WaitCancelled
      <3>1. /\ conn' = conn /\ sock' = sock /\ pc'[Poll] = "idle" /\ OthersStay(Poll)
            /\ NothingArrives
        BY <2>4, NoneArrives DEF HandshakeEscapes, WaitCancelled, Finish, Await, Gets, TypeOK, OthersStay
      <3> QED BY <3>1 DEF Goes, Remains, Closing, Receiving, OthersStay, ConstantsAssumption
    <2>5. CASE PollBegin /\ Connected
      <3>1. conn' = conn /\ sock' = sock /\ pc'[Poll] = "acquire" /\ OthersStay(Poll) /\ NothingArrives
        BY <2>5, NoneArrives DEF PollBegin, Continue, TypeOK, OthersStay
      <3> QED BY <3>1 DEF Goes, Remains, Closing, Receiving, OthersStay, ConstantsAssumption
    <2> QED BY <2>1, <2>2, <2>3, <2>4, <2>5
  <1> QED BY <1>1, <1>2, <1>3, GoesOn

\* And its read().
LEMMA ReadGoes ==
    ASSUME TypeOK, LockDiscipline, ReaderInv,
           ReadBegin \/ ReadSettles \/ ReadSends \/ CollectDataPackets \/ ReadCancelled
    PROVE  ReaderInv'
  <1> USE DEF Runs
  <1>1. ready # <<>> /\ ready[1][1] = Poll
    BY DEF ReadBegin, ReadSettles, ReadSends, CollectDataPackets, ReadCancelled
  <1>2. ASSUME conn' = conn, sock' = sock, Loops(Poll),
               NothingArrives,
               \A u \in Tasks \ {Poll} : on'[u] = on[u] /\ pc'[u] \in {pc[u], "idle"},
               \/ pc'[Poll] \in {"acquire", "locked", "failed", "settle", "pause", "idle"}
               \/ pc'[Poll] \in {"collect", "recollect"} /\ conn # None /\ on'[Poll] = conn
               \/ pc'[Poll] \in {"collect", "recollect"} /\ pc'[Poll] = pc[Poll] /\ on'[Poll] = on[Poll]
        PROVE  ReaderInv'
    <2>1. Goes(Poll)
      BY <1>2 DEF Goes, Remains, Closing, Receiving, ConstantsAssumption
    <2> QED BY <1>1, <1>2, <2>1, GoesOn
  <1>3. CASE ReadBegin
    <2>1. Loops(Poll)
      BY <1>1, <1>3, StepLoops DEF ReadBegin, Acquire, Continue, Await
    <2>2. pc'[Poll] \in {"locked", "failed"} /\ OthersStay(Poll)
      BY <1>3 DEF ReadBegin, Acquire, Continue, Await, TypeOK, OthersStay
    <2>3. NothingArrives
      BY <1>3, NoneArrives DEF ReadBegin
    <2> QED BY <1>2, <1>3, <2>1, <2>2, <2>3 DEF ReadBegin, OthersStay
  <1>4. CASE ReadSettles
    <2>1. Loops(Poll)
      BY <1>1, <1>4, StepLoops DEF ReadSettles, Await
    <2>2. pc'[Poll] = "settle" /\ OthersStay(Poll)
      BY <1>4 DEF ReadSettles, Await, TypeOK, OthersStay
    <2>3. NothingArrives
      BY <1>4, NoneArrives DEF ReadSettles
    <2> QED BY <1>2, <1>4, <2>1, <2>2, <2>3 DEF ReadSettles, OthersStay
  <1>5. ASSUME ReadFails, NothingArrives PROVE ReaderInv'
    <2>1. Loops(Poll)
      BY <1>1, <1>5, StepLoops DEF ReadFails
    <2>2. pc'[Poll] = "failed" /\ OthersStay(Poll)
      BY <1>5 DEF ReadFails, TypeOK, OthersStay
    <2> QED BY <1>2, <1>5, <2>1, <2>2 DEF ReadFails, OthersStay
  <1>6. CASE ReadSends
    <2>1. CASE CanSend
      <3>1. PICK p \in {"collect", "recollect"} : Send(Poll, "read", p) /\ conn' = conn /\ sock' = sock /\ NothingArrives
        BY <1>6, <2>1, NoneArrives DEF ReadSends
      <3>2. pc'[Poll] = p /\ on'[Poll] = conn /\ conn # None /\ OthersStay(Poll)
        BY <2>1, <3>1 DEF Send, Continue, CanSend, TypeOK, OthersStay
      <3>3. Loops(Poll)
        BY <1>1, <3>1, StepLoops DEF Send, Continue
      <3> QED BY <1>2, <3>1, <3>2, <3>3 DEF OthersStay
    <2>2. CASE ~CanSend
      BY <1>5, <1>6, <2>2, NoneArrives DEF ReadSends
    <2> QED BY <2>1, <2>2
  <1>7. CASE CollectDataPackets
    <2>1. pc[Poll] \in {"collect", "recollect"} /\ NothingArrives
      BY <1>7, NoneArrives DEF CollectDataPackets, CollectFails, LastPacket, Gets
    <2>2. ASSUME NEW some, CollectEnds(some) PROVE ReaderInv'
      <3>1. CASE ~some /\ pc[Poll] = "collect"
        BY <1>1, <1>2, <2>1, <2>2, <3>1, StepLoops, ZenonT(60) DEF CollectEnds, Await, TypeOK
      <3>2. CASE ReadReturns(some)
        BY <1>1, <1>2, <2>1, <2>2, <3>2, StepLoops DEF CollectEnds, ReadReturns, TypeOK
      <3> QED BY <2>2, <3>1, <3>2 DEF CollectEnds
    <2>3. ASSUME NEW some, CollectMore(some) PROVE ReaderInv'
      <3>1. CASE budget = 1
        BY <2>2, <2>3, <3>1 DEF CollectMore
      <3>2. CASE budget # 1
        <4>1. pc' = pc /\ on' = on /\ conn' = conn /\ sock' = sock /\ Loops(Poll)
          BY <1>1, <2>3, <3>2, StepLoops DEF CollectMore, Continue, TypeOK
        <4> QED BY <1>2, <2>1, <4>1
      <3> QED BY <3>1, <3>2
    <2>4. ReadFails \/ \E some : CollectEnds(some) \/ CollectMore(some)
      BY <1>7 DEF CollectDataPackets, CollectFails
    <2> QED BY <1>5, <2>1, <2>2, <2>3, <2>4
  <1>8. CASE ReadCancelled
    <2>1. Loops(Poll)
      BY <1>1, <1>8, StepLoops DEF ReadCancelled, ReleaseAndEnd
    <2>2. pc'[Poll] = "idle" /\ OthersStay(Poll)
      BY <1>8 DEF ReadCancelled, ReleaseAndEnd, TypeOK, OthersStay
    <2>3. NothingArrives
      BY <1>8, NoneArrives DEF ReadCancelled
    <2> QED BY <1>2, <1>8, <2>1, <2>2, <2>3 DEF ReadCancelled, OthersStay
  <1> QED BY <1>3, <1>4, <1>6, <1>7, <1>8

\* Those of a writer, and of an unloading that finds nothing active.
LEMMA WriteGoes ==
    ASSUME TypeOK, LockDiscipline, SessionInv, ReaderInv,
           \/ \E w \in Writers : WriteBegin(w) \/ WriteSends(w) \/ WriteAcked(w) \/ WriteUnanswered(w)
           \/ UnloadBegin /\ ~active
           \/ \E t \in Tasks : RecvBlocks(t)
    PROVE  ReaderInv'
  <1> USE DEF Runs
  <1>1. ASSUME NEW w \in Writers,
               WriteBegin(w) \/ WriteSends(w) \/ WriteAcked(w) \/ WriteUnanswered(w)
        PROVE  ReaderInv'
    <2>1. ready # <<>> /\ ready[1][1] = w /\ w # Poll /\ w # Unload
      BY <1>1 DEF WriteBegin, WriteSends, WriteAcked, WriteUnanswered, ConstantsAssumption
    <2>2. ASSUME conn' = conn, sock' = sock, Loops(w), OthersStay(w), pc'[w] \in {"idle", "locked"},
                 NothingArrives
          PROVE  ReaderInv'
      <3>1. Goes(w)
        BY <2>1, <2>2 DEF Goes, Remains, Closing, Receiving, OthersStay
      <3> QED BY <2>1, <2>2, <3>1, GoesOn
    <2>3. CASE WriteBegin(w)
      <3>1. Loops(w)
        BY <2>1, <2>3, StepLoops DEF WriteBegin, Acquire, Continue, Await
      <3>2. pc'[w] \in {"idle", "locked"} /\ OthersStay(w)
        BY <2>3 DEF WriteBegin, Acquire, Continue, Await, TypeOK, OthersStay
      <3>3. NothingArrives
        BY <2>3, NoneArrives DEF WriteBegin
      <3> QED BY <2>2, <2>3, <3>1, <3>2, <3>3 DEF WriteBegin
    <2>4. ASSUME WriteFails(w) PROVE ReaderInv'
      <3>1. Loops(w)
        BY <2>1, <2>4, StepLoops DEF WriteFails, ReleaseAndEnd
      <3>2. pc'[w] = "idle" /\ OthersStay(w)
        BY <2>4 DEF WriteFails, ReleaseAndEnd, TypeOK, OthersStay
      <3>3. NothingArrives
        BY <2>4, NoneArrives DEF WriteFails
      <3> QED BY <2>2, <2>4, <3>1, <3>2, <3>3 DEF WriteFails
    <2>5. CASE WriteSends(w)
      <3>1. CASE iv # None /\ CanSend
        <4>1. Send(w, "write", "ack") /\ conn' = conn /\ sock' = sock /\ NothingArrives
          BY <2>5, <3>1, NoneArrives DEF WriteSends
        <4>2. pc'[w] = "ack" /\ on'[w] = conn /\ conn # None /\ OthersStay(w)
          BY <3>1, <4>1 DEF Send, Continue, CanSend, TypeOK, OthersStay
        <4>3. pc[Poll] \notin {"iv", "login"}
          BY <3>1 DEF SessionInv, Handshaking
        <4>4. Awake(w, ready')
          <5>1. ready' = [ready EXCEPT ![1] = <<w, "go">>] /\ 1 \in DOMAIN ready
            BY <2>1, <4>1, EmptySeq, LenProperties DEF Send, Continue, TypeOK
          <5> QED BY <5>1 DEF Awake
        <4>5. Loops(w)
          BY <2>1, <4>1, StepLoops DEF Send, Continue
        <4>6. Goes(w)
          BY <2>1, <4>1, <4>2, <4>3, <4>4 DEF Goes, Remains, Closing, Receiving, OthersStay
        <4> QED BY <2>1, <4>5, <4>6, GoesOn
      <3>2. CASE ~(iv # None /\ CanSend)
        BY <2>4, <2>5, <3>2 DEF WriteSends
      <3> QED BY <3>1, <3>2
    <2>6. CASE WriteAcked(w)
      <3>1. Loops(w)
        BY <2>1, <2>6, StepLoops DEF WriteAcked, ReleaseAndEnd
      <3>2. pc'[w] = "idle" /\ OthersStay(w)
        BY <2>6 DEF WriteAcked, ReleaseAndEnd, TypeOK, OthersStay
      <3>3. NothingArrives
        BY <2>6, NoneArrives DEF WriteAcked, Gets
      <3> QED BY <2>2, <2>6, <3>1, <3>2, <3>3 DEF WriteAcked
    <2>7. CASE WriteUnanswered(w)
      BY <2>4, <2>7 DEF WriteUnanswered
    <2> QED BY <1>1, <2>3, <2>5, <2>6, <2>7
  <1>2. CASE UnloadBegin /\ ~active
    <2>1. /\ ready # <<>> /\ ready[1][1] = Unload /\ conn' = conn /\ sock' = sock /\ NothingArrives
          /\ pc'[Unload] = "done" /\ OthersStay(Unload)
      BY <1>2, NoneArrives DEF UnloadBegin, Await, TypeOK, OthersStay
    <2>2. Goes(Unload)
      BY <2>1 DEF Goes, Remains, Closing, Receiving, OthersStay, ConstantsAssumption
    <2> QED BY <1>2, <2>1, <2>2, GoesOn, StepLoops DEF UnloadBegin, Await
  <1>3. ASSUME NEW t \in Tasks, RecvBlocks(t) PROVE ReaderInv'
    <2>1. /\ ready # <<>> /\ ready[1][1] = t /\ pc[t] \in Receiving /\ pc' = pc /\ on' = on
          /\ conn' = conn /\ sock' = sock /\ NothingArrives /\ ~Dead(on[t])
      BY <1>3, NoneArrives DEF RecvBlocks, Await, TypeOK, Dead
    <2>2. /\ t # Poll => pc[t] = "ack" /\ t \in Writers
          /\ pc[t] = "ack" => t \in Writers
      <3>1. t = Poll => pc[t] # "ack"
        <4> QED BY DEF ReaderInv, Places
      <3> QED BY <2>1, <3>1 DEF ReaderInv, Places, Receiving
    <2>3. Goes(t)
      BY <2>1, <2>2 DEF Goes, Remains, Closing, Receiving
    <2> QED BY <1>3, <2>1, <2>3, GoesOn, StepLoops DEF RecvBlocks, Await
  <1> QED BY <1>1, <1>2, <1>3

-----------------------------------------------------------------------------
(* Steps that begin or end a connection.                                     *)

\* The step of a task takes its wake-up off the queue.
LEMMA HeadIsAlone ==
    ASSUME TypeOK, LockDiscipline, NEW t \in Tasks, ready # <<>>, ready[1][1] = t
    PROVE  /\ Absent(t, Tail(ready)) /\ Tail(ready) \in Seq(Entry)
           /\ 1 \in DOMAIN ready
  <1>1. ready \in Seq(Entry) /\ Disciplined(ready, lock, pc)
    BY DEF TypeOK, LockDiscipline
  <1>2. 1 \in DOMAIN ready
    BY <1>1, EmptySeq, LenProperties
  <1> QED BY <1>1, <1>2, DropHead

\* disconnect() up to its await: whoever hangs up holds on to what it closes.
LEMMA DisconnectKeeps ==
    ASSUME TypeOK, LockDiscipline, ReaderInv, NEW t \in {Poll, Unload}, NEW p \in Closing,
           p = "closeU" <=> t = Unload, ready # <<>>, ready[1][1] = t,
           pc[t] \notin Closing, Disconnect(t, p)
    PROVE  ReaderInv'
  <1> USE DEF ReaderInv
  <1>1. /\ conn' = conn /\ inbox' = inbox /\ pc'[t] = p /\ OthersStay(t)
        /\ sock' = IF HasSocket THEN [sock EXCEPT ![conn] = "closing"] ELSE sock
        /\ HasSocket => on'[t] = conn /\ conn \in Conns
    BY DEF Disconnect, Continue, TypeOK, OthersStay, HasSocket
  <1>2. Loops(t)
    <2>1. CASE HasSocket /\ sock[conn] # "closing"
      BY <1>1, <2>1, StepLoops DEF Disconnect
    <2>2. CASE HasSocket /\ sock[conn] = "closing"
      <3>1. ready' = Tail(ready) \o <<>>
        BY <2>2 DEF Disconnect
      <3>2. Tail(ready) \o <<>> = Tail(ready)
        BY HeadIsAlone, ConcatEmptySeq
      <3> QED BY <3>1, <3>2, StepLoops
    <2>3. CASE ~HasSocket
      BY <2>3, StepLoops DEF Disconnect, Continue
    <2> QED BY <2>1, <2>2, <2>3
  <1>3. \A c \in Conns : Dead(c)' <=> Dead(c)
    BY <1>1 DEF Dead, HasSocket, TypeOK
  <1>4. \A u \in Tasks : u # t /\ pc[u] # "locked" => Stays(u, ready, ready')
    BY <1>2, LoopKeeps
  <1>5. p \notin Receiving \cup {"ack", "opening", "iv", "login"}
    BY DEF Closing, Receiving
  <1>6. Places'
    BY <1>1, <1>5 DEF Places, OthersStay, Closing, ConstantsAssumption
  <1>7. LetGoIsDead'
    <2> SUFFICES ASSUME NEW u \in Tasks, pc'[u] \in Receiving, on'[u] # conn
                 PROVE  conn = None /\ Dead(on[u])' /\ on'[u] = on[u] /\ inbox[on[u]] = <<>>
      BY <1>1 DEF LetGoIsDead, Dead
    <2>1. u # t /\ pc[u] \in Receiving /\ on'[u] = on[u] /\ on[u] \in Conns
      BY <1>1, <1>5 DEF OthersStay, Places
    <2> QED BY <1>3, <2>1 DEF LetGoIsDead
  <1>8. DeadIsSeen'
    <2> SUFFICES ASSUME NEW u \in Tasks, pc'[u] = "ack", Dead(on[u])', on'[u] = on[u], u # t
                 PROVE  Awake(u, ready')
      BY <1>1, <1>5 DEF DeadIsSeen, OthersStay, Dead
    <2>1. pc[u] = "ack" /\ on[u] \in Conns
      BY <1>1 DEF OthersStay, Places, Receiving
    <2> QED BY <1>3, <1>4, <2>1 DEF DeadIsSeen, Stays
  <1>9. NoOrphanSocket'
    BY <1>1 DEF NoOrphanSocket, TypeOK
  <1>10. HangUps'
    <2> SUFFICES ASSUME NEW u \in Tasks, pc'[u] \in Closing, conn # None, ~Dead(conn)
                 PROVE  sock'[conn] = "closing" /\ on'[u] = conn /\ ~Queued(<<u, "go">>, ready')
      BY <1>1, <1>3 DEF HangUps, TypeOK
    <2>1. HasSocket /\ sock'[conn] = "closing"
      BY <1>1 DEF HasSocket, Dead, TypeOK
    <2>2. CASE u = t
      <3>1. Absent(t, Tail(ready)) /\ Tail(ready) \in Seq(Entry)
        BY HeadIsAlone
      <3> DEFINE s == IF sock[conn] = "closing" THEN <<>> ELSE <<<<conn, "lost">>>>
      <3>2. s \in Seq(Entry) /\ \A i \in DOMAIN s : s[i][1] = conn
        BY <1>1, <2>1, EmptySeq DEF Entry
      <3>3. ready' = Tail(ready) \o s
        BY <2>1 DEF Disconnect
      <3>4. ~Queued(<<t, "go">>, Tail(ready)) /\ \A i \in DOMAIN s : s[i] # <<t, "go">>
        BY <1>1, <2>1, <3>1, <3>2 DEF Absent, Queued, ConstantsAssumption
      <3> HIDE DEF s
      <3>5. Stays(t, Tail(ready), ready')
        BY <3>1, <3>2, <3>3, <3>4, QueueMore
      <3> QED BY <1>1, <2>1, <2>2, <3>4, <3>5 DEF Stays
    <2>3. CASE u # t
      <3>1. pc[u] = pc'[u] /\ on'[u] = on[u] /\ pc[u] # "locked"
        BY <1>1, <2>3 DEF OthersStay, Closing
      <3> QED BY <1>4, <2>1, <2>3, <3>1 DEF HangUps, Stays
    <2> QED BY <2>2, <2>3
  <1>11. UnloadGoesOn'
    <2>1. CASE t = Unload
      <3>1. CASE HasSocket
        BY <1>1, <2>1, <3>1 DEF UnloadGoesOn, HasSocket, TypeOK, ConstantsAssumption
      <3>2. CASE ~HasSocket
        <4>1. ready' = [ready EXCEPT ![1] = <<t, "go">>]
          BY <3>2 DEF Disconnect, Continue
        <4> QED BY <2>1, <4>1, HeadIsAlone DEF UnloadGoesOn, Awake
      <3> QED BY <3>1, <3>2
    <2>2. CASE t # Unload
      <3> SUFFICES ASSUME pc[Unload] = "closeU", on'[Unload] = on[Unload]
                   PROVE  UnloadGoesOn'
        BY <1>1, <2>2 DEF UnloadGoesOn, OthersStay
      <3>1. Stays(Unload, ready, ready')
        BY <1>4, <2>2
      <3> QED BY <1>1, <3>1 DEF UnloadGoesOn, Stays, TypeOK
    <2> QED BY <2>1, <2>2
  <1>12. OpeningIsLast'
    <2> SUFFICES ASSUME pc'[Poll] = "opening", NEW u \in Tasks, pc'[u] \in {"ack", "closeU"}
                 PROVE  Ahead(u, ready')
      BY <1>1, <1>5 DEF OpeningIsLast, OthersStay
    <2>1. t = Unload /\ pc[Poll] = "opening" /\ conn = None
      BY <1>1, <1>5 DEF OthersStay, OpeningIsLast
    <2>2. CASE u = t
      <3>1. ready' = [ready EXCEPT ![1] = <<t, "go">>]
        BY <2>1 DEF Disconnect, Continue, HasSocket
      <3>2. /\ DOMAIN ready = 1..Len(ready) /\ Len(ready) \in Nat /\ DOMAIN ready' = DOMAIN ready
            /\ ready'[1] = <<t, "go">>
        BY <3>1, HeadIsAlone, LenProperties DEF TypeOK
      <3> QED BY <2>1, <2>2, <3>2 DEF Ahead, ConstantsAssumption
    <2>3. CASE u # t
      <3>1. pc[u] = pc'[u]
        BY <1>1, <2>3 DEF OthersStay
      <3> QED BY <1>2, <2>1, <2>3, <3>1, LoopKeeps DEF OpeningIsLast, ConstantsAssumption
    <2> QED BY <2>1, <2>2, <2>3
  <1>13. HandshakeIsAlone'
    BY <1>1, <1>5 DEF HandshakeIsAlone, OthersStay
  <1> QED BY <1>6, <1>7, <1>8, <1>9, <1>10, <1>11, <1>12, <1>13

\* The rest of disconnect(): what is let go is dead, and all who read it know.
LEMMA LetGoKeeps ==
    ASSUME TypeOK, LockDiscipline, ReaderInv, NEW t \in {Poll, Unload},
           ready # <<>>, ready[1][1] = t, Why = "go", pc[t] \in Closing, LetGo,
           Loops(t), OthersStay(t), pc'[t] \in {"opening", "begin", "idle", "done"},
           t = Unload => pc'[t] = "done",
           pc'[t] = "opening" => ready' = Tail(ready)
    PROVE  ReaderInv'
  <1> USE DEF ReaderInv
  <1>1. conn = None \/ Dead(conn)
    <2>1. Queued(<<t, "go">>, ready)
      <3>1. ready[1] \in Entry
        BY HeadEntry
      <3>2. ready[1] = <<t, "go">>
        BY <3>1 DEF Entry, Why
      <3> QED BY <3>2, HeadIsAlone DEF Queued
    <2> QED BY <2>1 DEF HangUps
  <1>2. /\ conn' = None /\ sock' = sock
        /\ inbox' = [c \in Conns |-> IF c = conn THEN <<>> ELSE inbox[c]]
    BY DEF LetGo
  <1>3. \A u \in Tasks : u # t /\ pc[u] # "locked" => Stays(u, ready, ready')
    BY LoopKeeps
  <1>4. Places'
    BY DEF Places, OthersStay, Receiving, ConstantsAssumption
  <1>5. LetGoIsDead'
    <2> SUFFICES ASSUME NEW u \in Tasks, pc'[u] \in Receiving
                 PROVE  Dead(on'[u]) /\ inbox'[on'[u]] = <<>>
      BY <1>2 DEF LetGoIsDead, Dead
    <2>1. u # t /\ pc[u] \in Receiving /\ on'[u] = on[u] /\ on[u] \in Conns
      BY DEF OthersStay, Receiving, Places
    <2>2. CASE on[u] = conn
      BY <1>1, <1>2, <2>1, <2>2 DEF ConstantsAssumption
    <2>3. CASE on[u] # conn
      BY <1>2, <2>1, <2>3 DEF LetGoIsDead
    <2> QED BY <2>2, <2>3
  <1>6. DeadIsSeen'
    BY <1>2, <1>3 DEF DeadIsSeen, Dead, OthersStay, Stays
  <1>7. NoOrphanSocket'
    BY <1>1, <1>2 DEF NoOrphanSocket, Dead, ConstantsAssumption
  <1>8. HangUps'
    BY <1>2 DEF HangUps
  <1>9. UnloadGoesOn'
    <2>1. CASE t = Unload
      BY <2>1 DEF UnloadGoesOn
    <2>2. CASE t # Unload
      BY <1>1, <1>3, <2>2 DEF UnloadGoesOn, Dead, OthersStay, Stays
    <2> QED BY <2>1, <2>2
  <1>10. OpeningIsLast'
    <2> SUFFICES ASSUME pc'[Poll] = "opening", NEW u \in Tasks, pc'[u] \in {"ack", "closeU"}
                 PROVE  Ahead(u, ready')
      BY <1>2 DEF OpeningIsLast
    <2>1. u # t /\ pc[u] = pc'[u]
      BY DEF OthersStay
    <2>2. CASE t = Poll
      <3>1. Absent(Poll, ready')
        BY <2>2, HeadIsAlone
      <3> QED BY <3>1 DEF Absent, Ahead
    <2>3. CASE t # Poll
      BY <2>1, <2>3, LoopKeeps DEF OpeningIsLast, OthersStay
    <2> QED BY <2>2, <2>3
  <1>11. HandshakeIsAlone'
    BY DEF HandshakeIsAlone, OthersStay
  <1> QED BY <1>4, <1>5, <1>6, <1>7, <1>8, <1>9, <1>10, <1>11

\* The poll's new connection: nobody has anything to do with the last one.
LEMMA OpenedKeeps ==
    ASSUME TypeOK, LockDiscipline, ReaderInv, Opened
    PROVE  ReaderInv'
  <1> USE DEF ReaderInv, Runs
  <1>1. PICK c \in Conns : /\ Fresh(c) /\ conn' = c /\ sock' = [sock EXCEPT ![c] = "open"]
                           /\ on' = [on EXCEPT ![Poll] = c]
    BY DEF Opened
  <1>2. /\ pc[Poll] = "opening" /\ pc'[Poll] = "iv" /\ on'[Poll] = c /\ OthersStay(Poll)
        /\ conn = None /\ ready # <<>> /\ ready[1][1] = Poll /\ Why = "go"
    BY <1>1 DEF Opened, Continue, OpeningIsLast, OthersStay, TypeOK
  <1>3. ready[1] = <<Poll, "go">> /\ 1 \in DOMAIN ready
    BY <1>2, HeadEntry, HeadIsAlone DEF Entry, Why
  <1>4. \A u \in Tasks : pc[u] \notin {"ack", "closeU"}
    <2> SUFFICES ASSUME NEW u \in Tasks, pc[u] \in {"ack", "closeU"} PROVE FALSE
      OBVIOUS
    <2>1. \E j \in 1..(1 - 1) : ready[j][1] = u
      BY <1>2, <1>3 DEF OpeningIsLast, Ahead
    <2> QED BY <2>1
  <1>5. \A u \in Tasks : u # Poll => pc'[u] \notin Receiving \cup Closing
    BY <1>2, <1>4 DEF Places, OthersStay, Receiving, Closing
  <1>6. Places'
    BY <1>2 DEF Places, OthersStay, ConstantsAssumption
  <1>7. LetGoIsDead' /\ DeadIsSeen' /\ HandshakeIsAlone'
    BY <1>1, <1>2, <1>5 DEF LetGoIsDead, DeadIsSeen, HandshakeIsAlone, Receiving
  <1>8. NoOrphanSocket'
    BY <1>1, <1>2 DEF NoOrphanSocket, TypeOK, ConstantsAssumption
  <1>9. HangUps' /\ UnloadGoesOn' /\ OpeningIsLast'
    BY <1>2, <1>5 DEF HangUps, UnloadGoesOn, OpeningIsLast, Closing, ConstantsAssumption
  <1> QED BY <1>6, <1>7, <1>8, <1>9

\* Every task that a connection is to resume is resumed.
LEMMA AllAreResumed ==
    ASSUME NEW c, NEW where, NEW r \in Resuming(c, where), NEW u \in AwaitedBy(c, where)
    PROVE  Awake(u, r)
  <1> DEFINE S == AwaitedBy(c, where)
             n == Cardinality(S)
  <1>1. IsFiniteSet(S)
    <2>1. IsFiniteSet({Poll}) /\ IsFiniteSet({Unload})
      BY FS_Singleton
    <2>2. IsFiniteSet({Poll, Unload} \cup Writers)
      <3>1. IsFiniteSet({Poll} \cup {Unload})
        BY <2>1, FS_Union
      <3>2. {Poll, Unload} = {Poll} \cup {Unload}
        OBVIOUS
      <3> QED BY <3>1, <3>2, FS_Union DEF ConstantsAssumption
    <2>3. S \subseteq {Poll, Unload} \cup Writers
      BY DEF AwaitedBy
    <2> HIDE DEF S
    <2> QED BY <2>2, <2>3, FS_Subset
  <1>2. n \in Nat /\ Cardinality(1..n) = n
    <2>1. n \in Nat
      BY <1>1, FS_CardinalityType
    <2> HIDE DEF n
    <2> QED BY <2>1, FS_Interval
  <1>3. PICK s \in InAnyOrder(S) : r = [i \in DOMAIN s |-> <<s[i], "go">>]
    BY DEF Resuming
  <1>4. s \in [1..n -> S] /\ s \in Injection(1..n, S)
    BY <1>3 DEF InAnyOrder, Injection, IsInjective
  <1>5. s \in Surjection(1..n, S)
    BY <1>1, <1>2, <1>4, FS_Injection
  <1>6. PICK i \in 1..n : s[i] = u
    BY <1>5 DEF Surjection
  <1> QED BY <1>3, <1>4, <1>6 DEF Awake

\* What a connection resumes, in the queue: all of them, and nobody else.
LEMMA ResumingKeeps ==
    ASSUME TypeOK, NEW q \in Seq(Entry), NEW c, NEW where, NEW r \in Resuming(c, where),
           where = Receiving \/ where = Closing
    PROVE  /\ q \o r \in Seq(Entry)
           /\ \A u \in Tasks : Awake(u, q) => Awake(u, q \o r)
           /\ \A u \in AwaitedBy(c, where) : Awake(u, q \o r)
           /\ \A u \in Tasks : ~(pc[u] \in where /\ on[u] = c) => Stays(u, q, q \o r)
           /\ pc[Poll] = "opening" => \A u \in Tasks : Ahead(u, q) => Ahead(u, q \o r)
  <1>1. r \in Seq(Entry) /\ \A i \in DOMAIN r : r[i][1] \in AwaitedBy(c, where)
    BY ResumingDue
  <1>2. \A u \in Tasks : ~(pc[u] \in where /\ on[u] = c) => \A i \in DOMAIN r : r[i] # <<u, "go">>
    BY <1>1 DEF AwaitedBy
  <1>3. pc[Poll] = "opening" => \A i \in DOMAIN r : r[i] # <<Poll, "go">>
    BY <1>2 DEF Receiving, Closing
  <1>4. \A u \in AwaitedBy(c, where) : u \in Tasks /\ Awake(u, r)
    BY AllAreResumed DEF AwaitedBy
  <1>5. q \o r \in Seq(Entry)
    BY <1>1, ConcatProperties
  <1> QED BY <1>1, <1>2, <1>3, <1>4, <1>5, QueueMore

\* The loop tears a connection down.
LEMMA ConnectionLostKeeps ==
    ASSUME TypeOK, LockDiscipline, ReaderInv, ConnectionLost
    PROVE  ReaderInv'
  <1> USE DEF ReaderInv
  <1> DEFINE c == ready[1][1]
  <1>1. /\ ready # <<>> /\ Why = "lost" /\ sock' = [sock EXCEPT ![c] = "closed"]
        /\ conn' = conn /\ pc' = pc /\ on' = on /\ inbox' = inbox
    BY DEF ConnectionLost
  <1>2. PICK r \in Resuming(c, Receiving), k \in Resuming(c, Closing) : ready' = Tail(ready) \o r \o k
    BY DEF ConnectionLost
  <1>3. c \in Conns /\ \A u \in Tasks : c # u
    <2>1. ready[1] \in Entry /\ ready[1][2] = "lost"
      BY <1>1, HeadEntry DEF Why
    <2> QED BY <2>1 DEF Entry, ConstantsAssumption
  <1> HIDE DEF c
  <1>4. Tail(ready) \in Seq(Entry) /\ \A u \in Tasks : Stays(u, ready, Tail(ready)) /\ (Ahead(u, ready) => Ahead(u, Tail(ready)))
    BY <1>1, <1>3, QueueTail, HeadTailProperties DEF TypeOK, c
  <1> DEFINE q == Tail(ready) \o r
  <1>5. /\ q \in Seq(Entry)
        /\ \A u \in Tasks : Awake(u, Tail(ready)) => Awake(u, q)
        /\ \A u \in AwaitedBy(c, Receiving) : Awake(u, q)
        /\ \A u \in Tasks : ~(pc[u] \in Receiving /\ on[u] = c) => Stays(u, Tail(ready), q)
        /\ pc[Poll] = "opening" => \A u \in Tasks : Ahead(u, Tail(ready)) => Ahead(u, q)
    BY <1>4, ResumingKeeps
  <1> HIDE DEF q
  <1>6. /\ \A u \in Tasks : Awake(u, q) => Awake(u, q \o k)
        /\ \A u \in AwaitedBy(c, Closing) : Awake(u, q \o k)
        /\ \A u \in Tasks : ~(pc[u] \in Closing /\ on[u] = c) => Stays(u, q, q \o k)
        /\ pc[Poll] = "opening" => \A u \in Tasks : Ahead(u, q) => Ahead(u, q \o k)
    BY <1>5, ResumingKeeps
  <1>7. /\ \A u \in Tasks : Awake(u, ready) => Awake(u, ready')
        /\ \A u \in AwaitedBy(c, Receiving) \cup AwaitedBy(c, Closing) : Awake(u, ready')
        /\ \A u \in Tasks : pc[u] \in Closing /\ on[u] # c => Stays(u, ready, ready')
        /\ pc[Poll] = "opening" => \A u \in Tasks : Ahead(u, ready) => Ahead(u, ready')
    <2>1. ready' = q \o k
      BY <1>2 DEF q
    <2>2. \A u \in AwaitedBy(c, Receiving) : u \in Tasks
      BY DEF AwaitedBy
    <2> QED BY <1>4, <1>5, <1>6, <2>1, <2>2 DEF Stays
  <1>8. \A d \in Conns : /\ Dead(d) => Dead(d)'
                         /\ Dead(d)' => Dead(d) \/ d = c
    BY <1>1 DEF Dead, TypeOK
  <1>9. Places' /\ LetGoIsDead'
    BY <1>1, <1>8 DEF Places, LetGoIsDead
  <1>10. DeadIsSeen'
    <2> SUFFICES ASSUME NEW u \in Tasks, pc[u] = "ack", Dead(on[u])' PROVE Awake(u, ready')
      BY <1>1 DEF DeadIsSeen, Dead
    <2>1. on[u] \in Conns
      BY DEF Places, Receiving
    <2>2. CASE Dead(on[u])
      BY <1>7, <2>2 DEF DeadIsSeen
    <2>3. CASE on[u] = c
      <3>1. Awake(u, ready) \/ u \in AwaitedBy(c, Receiving)
        BY <2>3 DEF Awake, AwaitedBy, Suspended, Receiving
      <3> QED BY <1>7, <3>1
    <2> QED BY <1>1, <1>8, <2>1, <2>2, <2>3
  <1>11. NoOrphanSocket'
    BY <1>1 DEF NoOrphanSocket, TypeOK
  <1>12. HangUps'
    <2> SUFFICES ASSUME NEW u \in Tasks, pc[u] \in Closing, conn # None, ~Dead(conn)'
                 PROVE  sock'[conn] = "closing" /\ on[u] = conn /\ ~Queued(<<u, "go">>, ready')
      BY <1>1 DEF HangUps, Dead
    <2>1. conn \in Conns
      BY DEF TypeOK
    <2>2. sock[conn] = "closing" /\ on[u] = conn /\ ~Queued(<<u, "go">>, ready)
      BY <1>1, <1>8, <2>1 DEF HangUps, Dead
    <2>3. conn # c /\ sock'[conn] = sock[conn]
      BY <1>1, <2>1 DEF Dead, TypeOK
    <2> QED BY <1>7, <2>2, <2>3 DEF Stays
  <1>13. UnloadGoesOn'
    <2> SUFFICES ASSUME pc[Unload] = "closeU", ~Awake(Unload, ready')
                 PROVE  conn # None /\ conn = on[Unload] /\ sock'[conn] = "closing"
      BY <1>1 DEF UnloadGoesOn
    <2>1. conn # None /\ conn = on[Unload] /\ sock[conn] = "closing" /\ conn \in Conns
      BY <1>7 DEF UnloadGoesOn, TypeOK
    <2>2. Unload \notin AwaitedBy(c, Closing) /\ ~Awake(Unload, ready)
      BY <1>7
    <2>3. conn # c
      BY <2>1, <2>2 DEF AwaitedBy, Awake, Suspended, Closing
    <2> QED BY <1>1, <2>1, <2>3 DEF TypeOK
  <1>14. OpeningIsLast' /\ HandshakeIsAlone'
    BY <1>1, <1>7 DEF OpeningIsLast, HandshakeIsAlone
  <1> QED BY <1>9, <1>10, <1>11, <1>12, <1>13, <1>14

-----------------------------------------------------------------------------
(* What comes from outside.                                                  *)

\* A task is started or resumed from outside: all others stay where they are.
Scheduled(t, why) == ready' = ready \o <<<<t, why>>>>

\* Whoever was awake stays so, and whoever was ahead of the poll stays ahead.
LEMMA ScheduledKeeps ==
    ASSUME TypeOK, NEW t \in Tasks, NEW why, <<t, why>> \in Entry, Scheduled(t, why), NEW u \in Tasks
    PROVE  /\ u # t \/ why # "go" => Stays(u, ready, ready')
           /\ t # Poll \/ why # "go" \/ Awake(u, ready) => (Ahead(u, ready) => Ahead(u, ready'))
           /\ Awake(u, ready) => Awake(u, ready')
  <1> DEFINE s == <<<<t, why>>>>
  <1>1. s \in Seq(Entry) /\ DOMAIN s = {1} /\ s[1] = <<t, why>> /\ ready' = ready \o s
    BY DEF Scheduled
  <1>2. u # t \/ why # "go" => \A i \in DOMAIN s : s[i] # <<u, "go">>
    BY <1>1
  <1>3. t # Poll \/ why # "go" => \A i \in DOMAIN s : s[i] # <<Poll, "go">>
    BY <1>1
  <1> HIDE DEF s
  <1>4. ready \in Seq(Entry)
    BY DEF TypeOK
  <1> QED BY <1>1, <1>2, <1>3, <1>4, QueueMore

\* Starts and timers.
LEMMA ScheduleKeeps ==
    ASSUME TypeOK, ReaderInv, NEW t \in Tasks, NEW why, <<t, why>> \in Entry, Scheduled(t, why),
           conn' = conn, sock' = sock, inbox' = inbox, on' = on,
           \A u \in Tasks \ {t} : pc'[u] = pc[u],
           pc'[t] = pc[t] \/ (pc[t] = "idle" /\ pc'[t] = "begin"),
           pc'[t] \in Closing => why # "go"
    PROVE  ReaderInv'
  <1> USE DEF ReaderInv
  <1>1. \A u \in Tasks : pc'[u] \in Receiving \cup Closing \cup {"ack", "closeU", "opening", "iv", "login"} => pc[u] = pc'[u]
    BY DEF Receiving, Closing
  <1>2. \A u \in Tasks : /\ u # t \/ why # "go" => Stays(u, ready, ready')
                         /\ Awake(u, ready) => Awake(u, ready')
    BY ScheduledKeeps
  <1>3. Places'
    BY <1>1 DEF Places
  <1>4. LetGoIsDead' /\ NoOrphanSocket'
    BY <1>1 DEF LetGoIsDead, NoOrphanSocket, Dead
  <1>5. DeadIsSeen' /\ HandshakeIsAlone'
    BY <1>1, <1>2 DEF DeadIsSeen, HandshakeIsAlone, Dead
  <1>6. HangUps'
    BY <1>1, <1>2 DEF HangUps, Dead, Stays
  <1>7. UnloadGoesOn'
    BY <1>1, <1>2 DEF UnloadGoesOn
  <1>8. OpeningIsLast'
    <2> SUFFICES ASSUME pc[Poll] = "opening", conn = None, NEW u \in Tasks, pc'[u] \in {"ack", "closeU"}
                 PROVE  Ahead(u, ready')
      BY <1>1 DEF OpeningIsLast
    <2>1. pc[u] = pc'[u] /\ Ahead(u, ready)
      BY <1>1 DEF OpeningIsLast
    <2>2. Awake(u, ready)
      <3>1. CASE pc[u] = "ack"
        BY <3>1 DEF Places, LetGoIsDead, DeadIsSeen, Receiving, ConstantsAssumption
      <3>2. CASE pc[u] = "closeU"
        BY <3>2 DEF Places, UnloadGoesOn
      <3> QED BY <2>1, <3>1, <3>2
    <2> QED BY <2>1, <2>2, ScheduledKeeps
  <1> QED BY <1>3, <1>4, <1>5, <1>6, <1>7, <1>8

\* An answer, or the end of the connection, for those who read.
LEMMA NetworkKeeps ==
    ASSUME TypeOK, ReaderInv, NEW c \in Conns, Answer(c) \/ PeerCloses(c) \/ NeverAnswers(c)
    PROVE  ReaderInv'
  <1> USE DEF ReaderInv
  <1>1. /\ conn' = conn /\ pc' = pc /\ on' = on /\ c = conn
        /\ \A d \in Conns \ {c} : sock'[d] = sock[d] /\ inbox'[d] = inbox[d]
        /\ sock[c] \in {"open", "fin"} /\ sock'[c] \in {"open", "fin", "rst"}
    BY DEF Answer, PeerCloses, NeverAnswers, NoOrphanSocket, TypeOK
  <1>2. /\ \A u \in Tasks : Awake(u, ready) => Awake(u, ready')
        /\ PeerCloses(c) => \A u \in AwaitedBy(c, Receiving) : Awake(u, ready')
        /\ \A u \in Tasks : pc[u] \in Closing => Stays(u, ready, ready')
        /\ pc[Poll] = "opening" => \A u \in Tasks : Ahead(u, ready) => Ahead(u, ready')
    <2>1. CASE WakeReaders(c)
      <3>1. ready \in Seq(Entry)
        BY DEF TypeOK
      <3>2. PICK r \in Resuming(c, Receiving) : ready' = ready \o r
        BY <2>1 DEF WakeReaders
      <3>3. \A u \in Tasks : pc[u] \in Closing => pc[u] \notin Receiving
        BY DEF Closing, Receiving
      <3> QED BY <3>1, <3>2, <3>3, ResumingKeeps
    <2>2. CASE ready' = ready /\ NeverAnswers(c)
      <3>1. ~PeerCloses(c)
        BY <2>2 DEF NeverAnswers, PeerCloses, TypeOK
      <3> QED BY <2>2, <3>1 DEF Stays
    <2> QED BY <2>1, <2>2 DEF Answer, PeerCloses, NeverAnswers
  <1>3. \A u \in Tasks : pc[u] \notin Closing
    BY <1>1 DEF HangUps, Dead, ConstantsAssumption
  <1>4. Places' /\ HandshakeIsAlone' /\ NoOrphanSocket'
    BY <1>1 DEF Places, HandshakeIsAlone, NoOrphanSocket
  <1>5. LetGoIsDead'
    BY <1>1 DEF LetGoIsDead, Places, Dead
  <1>6. DeadIsSeen'
    <2> SUFFICES ASSUME NEW u \in Tasks, pc[u] = "ack", Dead(on[u])' PROVE Awake(u, ready')
      BY <1>1 DEF DeadIsSeen, Dead
    <2>1. on[u] \in Conns
      BY DEF Places, Receiving
    <2>2. CASE on[u] # c
      <3>1. Dead(on[u])
        BY <1>1, <2>1, <2>2 DEF Dead
      <3> QED BY <1>2, <3>1 DEF DeadIsSeen
    <2>3. CASE on[u] = c
      <3>1. PeerCloses(c)
        BY <1>1, <2>3 DEF Dead, Answer, NeverAnswers
      <3>2. Awake(u, ready) \/ u \in AwaitedBy(c, Receiving)
        BY <2>3 DEF Awake, AwaitedBy, Suspended, Receiving
      <3> QED BY <1>2, <3>1, <3>2
    <2> QED BY <2>2, <2>3
  <1>7. HangUps' /\ UnloadGoesOn' /\ OpeningIsLast'
    BY <1>1, <1>3 DEF HangUps, UnloadGoesOn, OpeningIsLast, Closing, ConstantsAssumption
  <1> QED BY <1>4, <1>5, <1>6, <1>7

-----------------------------------------------------------------------------
(* The theorems.                                                             *)

\* The steps that hang up.
LEMMA HangUpStep ==
    ASSUME TypeOK, LockDiscipline, ReaderInv,
           \/ (PollBegin /\ ~Connected) \/ AttemptFails \/ (UnloadBegin /\ active)
           \/ Connect \/ AttemptOver \/ UnloadOver
    PROVE  ReaderInv'
  <1> USE DEF Runs
  <1>1. CASE PollBegin /\ ~Connected
    BY <1>1, DisconnectKeeps DEF PollBegin, Closing, ConstantsAssumption
  <1>2. CASE AttemptFails
    BY <1>2, DisconnectKeeps DEF AttemptFails, Closing, ConstantsAssumption
  <1>3. CASE UnloadBegin /\ active
    BY <1>3, DisconnectKeeps DEF UnloadBegin, Closing, ConstantsAssumption
  <1>4. ASSUME NEW t \in {Poll, Unload}, NEW p \in {"opening", "begin", "idle", "done"},
               ready # <<>>, ready[1][1] = t, Why = "go", pc[t] \in Closing, LetGo,
               t = Unload => p = "done", p = "opening" => Finish(t, p),
               Finish(t, p) \/ (Continue(t, p) /\ on' = on)
        PROVE  ReaderInv'
    <2>1. Loops(t)
      BY <1>4, StepLoops DEF Finish, Await, Continue
    <2>2. pc'[t] = p /\ OthersStay(t)
      BY <1>4 DEF Finish, Await, Continue, TypeOK, OthersStay
    <2>3. p = "opening" => ready' = Tail(ready)
      BY <1>4 DEF Finish, Await
    <2> QED BY <1>4, <2>1, <2>2, <2>3, LetGoKeeps
  <1>5. CASE Connect
    BY <1>4, <1>5 DEF Connect, Closing, ConstantsAssumption
  <1>6. CASE AttemptOver
    BY <1>4, <1>6 DEF AttemptOver, Closing, ConstantsAssumption
  <1>7. CASE UnloadOver
    <2>1. Why = "go"
      <3>1. Runs(Unload, "closeU") /\ "closeU" \in Place
        BY <1>7 DEF UnloadOver, Place, Closing
      <3>2. Why \in {"go", "timeout", "cancel"} /\ Why # "cancel"
        BY <3>1, HeadAndLock DEF ConstantsAssumption
      <3>3. WakeUpIsDue(Unload, Why, lock, pc)
        BY <3>1, HeadIsAlone DEF LockDiscipline, Disciplined, WakeUpsAreDue, Why
      <3> QED BY <3>1, <3>2, <3>3 DEF WakeUpIsDue, Receiving
    <2> QED BY <1>4, <1>7, <2>1 DEF UnloadOver, Closing, ConstantsAssumption
  <1> QED BY <1>1, <1>2, <1>3, <1>5, <1>6, <1>7

\* Home Assistant, clocks, device and network.
LEMMA OutsideStep ==
    ASSUME TypeOK, LockDiscipline, ReaderInv, Environment
    PROVE  ReaderInv'
  <1>1. ASSUME NEW t \in Tasks, NEW why \in {"go", "timeout", "cancel"},
               ready' = Append(ready, <<t, why>>)
        PROVE  <<t, why>> \in Entry /\ Scheduled(t, why)
    <2>1. <<t, why>> \in Entry /\ ready \in Seq(Entry)
      BY DEF Entry, TypeOK
    <2> QED BY <1>1, <2>1, AppendIsConcat DEF Scheduled
  <1>2. ASSUME NEW t \in Tasks, Start(t, "begin"), pc[t] = "idle",
               UNCHANGED <<session, on, network>>
        PROVE  ReaderInv'
    <2>1. <<t, "go">> \in Entry /\ Scheduled(t, "go")
      BY <1>1, <1>2 DEF Start
    <2>2. pc'[t] = "begin" /\ \A u \in Tasks \ {t} : pc'[u] = pc[u]
      BY <1>2 DEF Start, TypeOK
    <2> QED BY <1>2, <2>1, <2>2, ScheduleKeeps DEF Closing
  <1>3. ASSUME NEW t \in Tasks, NEW why \in {"go", "timeout", "cancel"}, Wake(t, why),
               why = "go" => pc[t] \notin Closing, UNCHANGED <<session, pc, on, network>>
        PROVE  ReaderInv'
    <2>1. <<t, why>> \in Entry /\ Scheduled(t, why)
      BY <1>1, <1>3 DEF Wake
    <2> QED BY <1>3, <2>1, ScheduleKeeps
  <1>4. CASE PollStart
    BY <1>2, <1>4 DEF PollStart
  <1>5. CASE UnloadStart
    BY <1>2, <1>5 DEF UnloadStart
  <1>6. CASE Cancel
    BY <1>3, <1>6 DEF Cancel
  <1>7. CASE OpenSucceeds
    BY <1>3, <1>7 DEF OpenSucceeds, Closing
  <1>8. ASSUME NEW w \in Writers, WriteStart(w) PROVE ReaderInv'
    BY <1>2, <1>8 DEF WriteStart
  <1>9. ASSUME NEW t \in Tasks, Timer(t) PROVE ReaderInv'
    BY <1>3, <1>9 DEF Timer, Timed, Receiving, Closing
  <1>10. ASSUME NEW c \in Conns, Answer(c) \/ NeverAnswers(c) \/ PeerCloses(c) PROVE ReaderInv'
    BY <1>10, NetworkKeeps
  <1> QED BY <1>4, <1>5, <1>6, <1>7, <1>8, <1>9, <1>10 DEF Environment

\* The invariant is inductive, given the types, the lock and the session.
LEMMA ReadersAreSafe == Spec => [](LockDiscipline /\ ReaderInv)
  <1>1. Init => ReaderInv
    BY DEF Init, ReaderInv, Places, LetGoIsDead, DeadIsSeen, NoOrphanSocket, HangUps, UnloadGoesOn,
           OpeningIsLast, HandshakeIsAlone, Receiving, Closing, ConstantsAssumption
  <1>2. TypeOK /\ LockDiscipline /\ SessionInv /\ ReaderInv /\ [Next]_vars => ReaderInv'
    <2> SUFFICES ASSUME TypeOK, LockDiscipline, SessionInv, ReaderInv, [Next]_vars PROVE ReaderInv'
      OBVIOUS
    <2>1. CASE LoopStep
      <3>1. CASE \/ HandshakeIv \/ HandshakeLogin \/ ConnectFails \/ HandshakeEscapes \/ WaitCancelled
                 \/ PollBegin /\ Connected
        BY <3>1, ConnectGoes
      <3>2. CASE ReadBegin \/ ReadSettles \/ ReadSends \/ CollectDataPackets \/ ReadCancelled
        BY <3>2, ReadGoes
      <3>3. CASE \/ \E w \in Writers : WriteBegin(w) \/ WriteSends(w) \/ WriteAcked(w) \/ WriteUnanswered(w)
                 \/ UnloadBegin /\ ~active
                 \/ \E t \in Tasks : RecvBlocks(t)
        BY <3>3, WriteGoes
      <3>4. CASE \/ (PollBegin /\ ~Connected) \/ AttemptFails \/ (UnloadBegin /\ active)
                 \/ Connect \/ AttemptOver \/ UnloadOver
        BY <3>4, HangUpStep
      <3>5. CASE Opened \/ ConnectionLost
        BY <3>5, OpenedKeeps, ConnectionLostKeeps
      <3> QED BY <2>1, <3>1, <3>2, <3>3, <3>4, <3>5 DEF LoopStep
    <2>2. CASE Environment
      BY <2>2, OutsideStep
    <2>3. CASE UNCHANGED vars
      BY <2>3 DEF vars, ReaderInv, Places, LetGoIsDead, DeadIsSeen, NoOrphanSocket, HangUps,
                  UnloadGoesOn, OpeningIsLast, HandshakeIsAlone, Dead
    <2> QED BY <2>1, <2>2, <2>3 DEF Next
  <1> QED BY <1>1, <1>2, TypeAndLock, SessionIsSafe, PTL DEF Spec

\* No two tasks ever read one stream, although the handshake takes no lock: for
\* any number of writers, whatever is cancelled, late or closed under a reader.
THEOREM StreamsHaveOneReader == Spec => []OneReader
  <1>1. LockDiscipline /\ ReaderInv => OneReader
    <2> SUFFICES ASSUME LockDiscipline, ReaderInv, NEW t \in Tasks, NEW u \in Tasks,
                        pc[t] \in Receiving, pc[u] \in Receiving
                 PROVE  t = u
      BY DEF OneReader
    <2>1. CASE pc[t] \in Holding /\ pc[u] \in Holding
      BY <2>1 DEF LockDiscipline, Disciplined, HolderOwns
    <2>2. \A v \in Tasks : pc[v] \in Receiving => v = Poll \/ pc[v] = "ack"
      BY DEF ReaderInv, Places, Receiving
    <2>3. \A v \in Tasks : pc[v] \in Receiving \ {"iv", "login"} => pc[v] \in Holding
      BY DEF Receiving, Holding, Reading
    <2> QED BY <2>1, <2>2, <2>3 DEF ReaderInv, HandshakeIsAlone
  <1> QED BY <1>1, ReadersAreSafe, PTL

\* A task whose connection is let go under it by disconnect(), which takes no
\* lock, sees the end of its own stream, and never a byte of the next.
THEOREM ReadersKeepTheirStream == Spec => []ReaderOwnsSocket
  <1>1. ReaderInv => ReaderOwnsSocket
    BY DEF ReaderInv, LetGoIsDead, ReaderOwnsSocket, Dead
  <1> QED BY <1>1, ReadersAreSafe, PTL

\* However polls, writes, the unloading and cancellations interleave, what is
\* open is held by the transport: the next connect or unloading closes it.
THEOREM SocketsAreHeld == Spec => []NoOrphanSocket
  <1>1. ReaderInv => NoOrphanSocket
    BY DEF ReaderInv
  <1> QED BY <1>1, ReadersAreSafe, PTL

-----------------------------------------------------------------------------
(* With the poll, the writes and the unloading that share it, TcpTransport    *)
(* does nothing that Coordinator does not allow an entry with one transport.  *)

\* In the queue r, t comes before whatever resumes u.
Precedes(t, u, r) == \A i \in DOMAIN r : r[i][1] = u => \E j \in 1..(i - 1) : r[j][1] = t

\* A write that has been started looks at the transport before the unloading
\* does, and before another poll can connect the transport again.
BegunWritesAreNext == \A w \in Writers : pc[w] = "begin" =>
    /\ Awake(w, ready)
    /\ pc[Unload] \in {"idle", "begin"} /\ Precedes(w, Unload, ready)
    /\ active \/ (~Connected /\ pc[Poll] \in {"idle", "begin"} /\ Precedes(w, Poll, ready))

\* Nobody in the queue r is to be cancelled.
NoCancel(r) == \A i \in DOMAIN r : r[i][2] # "cancel"

\* A poll is cancelled only once the entry is unloaded.
CancelComesLast == pc[Unload] = "done" \/ NoCancel(ready)

\* What the mapping of the steps needs to know of the queue.
QueueInv == BegunWritesAreNext /\ CancelComesLast

-----------------------------------------------------------------------------
(* The loop's queue.                                                         *)

\* What is scheduled behind t leaves it ahead.
LEMMA MorePrecedes ==
    ASSUME NEW r \in Seq(Entry), NEW s \in Seq(Entry), NEW t, NEW u
    PROVE  /\ Awake(t, r) => Awake(t, r \o s)
           /\ Awake(t, r) /\ Precedes(t, u, r) => Precedes(t, u, r \o s)
           /\ NoCancel(r) /\ NoCancel(s) => NoCancel(r \o s)
  <1> DEFINE q == r \o s
  <1>1. /\ DOMAIN r = 1..Len(r) /\ Len(r) \in Nat
        /\ DOMAIN s = 1..Len(s) /\ Len(s) \in Nat
        /\ DOMAIN q = 1..(Len(r) + Len(s))
        /\ \A i \in 1..(Len(r) + Len(s)) : q[i] = IF i <= Len(r) THEN r[i] ELSE s[i - Len(r)]
    BY ConcatProperties, LenProperties
  <1> HIDE DEF q
  <1>2. \A i \in DOMAIN r : i \in DOMAIN q /\ q[i] = r[i]
    BY <1>1
  <1>3. Awake(t, r) => Awake(t, q)
    BY <1>2 DEF Awake
  <1>4. ASSUME Awake(t, r), Precedes(t, u, r), NEW i \in DOMAIN q, q[i][1] = u
        PROVE  \E j \in 1..(i - 1) : q[j][1] = t
    <2>1. CASE i \in DOMAIN r
      <3>1. PICK j \in 1..(i - 1) : r[j][1] = t
        BY <1>2, <1>4, <2>1 DEF Precedes
      <3>2. j \in DOMAIN r
        BY <1>1, <2>1, <3>1
      <3> QED BY <1>2, <3>1, <3>2
    <2>2. CASE i \notin DOMAIN r
      <3>1. PICK j \in DOMAIN r : r[j][1] = t
        BY <1>4 DEF Awake
      <3>2. j \in 1..(i - 1)
        BY <1>1, <1>4, <2>2, <3>1
      <3> QED BY <1>2, <3>1, <3>2
    <2> QED BY <2>1, <2>2
  <1>5. NoCancel(r) /\ NoCancel(s) => NoCancel(q)
    <2>1. \A i \in DOMAIN q : (i \in DOMAIN r /\ q[i] = r[i]) \/ (i - Len(r) \in DOMAIN s /\ q[i] = s[i - Len(r)])
      BY <1>1
    <2> QED BY <2>1 DEF NoCancel
  <1> QED BY <1>3, <1>4, <1>5 DEF Precedes, q

\* When another than t leaves the head, t is still ahead.
LEMMA TailPrecedes ==
    ASSUME NEW r \in Seq(Entry), r # <<>>, NEW t, NEW u
    PROVE  /\ r[1][1] # t /\ Awake(t, r) => Awake(t, Tail(r))
           /\ r[1][1] # t /\ Precedes(t, u, r) => Precedes(t, u, Tail(r))
           /\ NoCancel(r) => NoCancel(Tail(r))
  <1>1. /\ Tail(r) \in Seq(Entry)
        /\ DOMAIN r = 1..Len(r) /\ Len(r) \in Nat \ {0}
        /\ DOMAIN Tail(r) = 1..(Len(r) - 1)
        /\ \A i \in 1..(Len(r) - 1) : Tail(r)[i] = r[i + 1]
    BY HeadTailProperties, LenProperties, EmptySeq
  <1>2. \A i \in DOMAIN Tail(r) : i + 1 \in DOMAIN r /\ Tail(r)[i] = r[i + 1]
    BY <1>1
  <1>3. \A i \in DOMAIN r : i # 1 => i - 1 \in DOMAIN Tail(r) /\ Tail(r)[i - 1] = r[i]
    BY <1>1
  <1>4. ASSUME r[1][1] # t, Precedes(t, u, r), NEW i \in DOMAIN Tail(r), Tail(r)[i][1] = u
        PROVE  \E j \in 1..(i - 1) : Tail(r)[j][1] = t
    <2>1. PICK j \in 1..((i + 1) - 1) : r[j][1] = t
      BY <1>2, <1>4 DEF Precedes
    <2>2. j # 1 /\ j - 1 \in 1..(i - 1) /\ j \in DOMAIN r
      BY <1>1, <1>4, <2>1
    <2> QED BY <1>3, <2>1, <2>2
  <1>5. r[1][1] # t /\ Awake(t, r) => Awake(t, Tail(r))
    BY <1>3 DEF Awake
  <1>6. NoCancel(r) => NoCancel(Tail(r))
    BY <1>2 DEF NoCancel
  <1> QED BY <1>4, <1>5, <1>6 DEF Precedes

\* So it is when the head goes on.
LEMMA HeadPrecedes ==
    ASSUME NEW r \in Seq(Entry), r # <<>>, NEW x, r[1][1] = x, NEW t, NEW u
    PROVE  /\ x # t /\ Awake(t, r) => Awake(t, [r EXCEPT ![1] = <<x, "go">>])
           /\ x # t /\ Precedes(t, u, r) => Precedes(t, u, [r EXCEPT ![1] = <<x, "go">>])
           /\ NoCancel(r) => NoCancel([r EXCEPT ![1] = <<x, "go">>])
  <1> DEFINE q == [r EXCEPT ![1] = <<x, "go">>]
  <1>1. /\ DOMAIN r = 1..Len(r) /\ Len(r) \in Nat \ {0}
        /\ DOMAIN q = DOMAIN r /\ q[1] = <<x, "go">> /\ \A i \in DOMAIN r : i # 1 => q[i] = r[i]
    BY LenProperties, EmptySeq
  <1> HIDE DEF q
  <1>2. \A i \in DOMAIN q : i \in DOMAIN r /\ q[i][1] = r[i][1]
    BY <1>1
  <1>3. \A i \in DOMAIN r : i \in DOMAIN q
    BY <1>1
  <1>4. Precedes(t, u, r) => Precedes(t, u, q)
    <2> SUFFICES ASSUME Precedes(t, u, r), NEW i \in DOMAIN q, q[i][1] = u
                 PROVE  \E j \in 1..(i - 1) : q[j][1] = t
      BY DEF Precedes
    <2>1. PICK j \in 1..(i - 1) : r[j][1] = t
      BY <1>2 DEF Precedes
    <2>2. j \in DOMAIN q
      BY <1>1, <2>1
    <2> QED BY <1>2, <2>1, <2>2
  <1>5. Awake(t, r) => Awake(t, q)
    BY <1>2, <1>3 DEF Awake
  <1>6. NoCancel(r) => NoCancel(q)
    BY <1>1 DEF NoCancel
  <1> QED BY <1>4, <1>5, <1>6 DEF q

\* Nobody is cancelled by what is scheduled after r.
Schedules(r) == \E s \in Seq(Entry) : NoCancel(s) /\ ready' = r \o s

\* How a step of the loop leaves the queue: its head x is done, or goes on.
Leaves(x) ==
    /\ ready # <<>> /\ ready[1][1] = x
    /\ Schedules(Tail(ready)) \/ (x \in Tasks /\ Schedules([ready EXCEPT ![1] = <<x, "go">>]))

\* What such a step keeps.
LEMMA LeavesKeeps ==
    ASSUME TypeOK, NEW x, Leaves(x), NEW t, NEW u
    PROVE  /\ x # t /\ Awake(t, ready) => Awake(t, ready')
           /\ x # t /\ Awake(t, ready) /\ Precedes(t, u, ready) => Precedes(t, u, ready')
           /\ NoCancel(ready) => NoCancel(ready')
  <1>1. ready \in Seq(Entry) /\ ready # <<>> /\ ready[1][1] = x
    BY DEF TypeOK, Leaves
  <1>2. Tail(ready) \in Seq(Entry) /\ (x \in Tasks => [ready EXCEPT ![1] = <<x, "go">>] \in Seq(Entry))
    BY <1>1, QueueType
  <1>3. CASE Schedules(Tail(ready))
    BY <1>1, <1>2, <1>3, TailPrecedes, MorePrecedes DEF Schedules
  <1>4. CASE x \in Tasks /\ Schedules([ready EXCEPT ![1] = <<x, "go">>])
    <2> DEFINE q == [ready EXCEPT ![1] = <<x, "go">>]
    <2>1. /\ x # t /\ Awake(t, ready) => Awake(t, q)
          /\ x # t /\ Precedes(t, u, ready) => Precedes(t, u, q)
          /\ NoCancel(ready) => NoCancel(q)
      BY <1>1, HeadPrecedes
    <2>2. q \in Seq(Entry) /\ Schedules(q)
      BY <1>2, <1>4
    <2> HIDE DEF q
    <2> QED BY <2>1, <2>2, MorePrecedes DEF Schedules
  <1> QED BY <1>3, <1>4 DEF Leaves

\* Leaving the head in the ways the building blocks do.
LEMMA HeadLeaves ==
    ASSUME TypeOK, NEW t \in Tasks, ready # <<>>, ready[1][1] = t,
           \/ ready' \in {Tail(ready), Tail(ready) \o NextOwner}
           \/ ready' \in {[ready EXCEPT ![1] = <<t, "go">>], [ready EXCEPT ![1] = <<t, "go">>] \o NextOwner}
           \/ conn \in Conns /\ ready' = Tail(ready) \o <<<<conn, "lost">>>>
    PROVE  Leaves(t)
  <1> DEFINE Harmless(s) == s \in Seq(Entry) /\ NoCancel(s)
             head == [ready EXCEPT ![1] = <<t, "go">>]
  <1>1. Tail(ready) \in Seq(Entry) /\ head \in Seq(Entry)
    BY QueueType
  <1>2. Harmless(<<>>)
    BY EmptySeq DEF NoCancel
  <1>3. Harmless(NextOwner)
    <2>1. NextOwner \in Seq(Entry)
      BY NextOwnerType
    <2>2. NoCancel(NextOwner)
      BY DEF NextOwner, NoCancel
    <2> QED BY <2>1, <2>2
  <1>4. conn \in Conns => Harmless(<<<<conn, "lost">>>>)
    BY DEF Entry, NoCancel
  <1>5. Tail(ready) = Tail(ready) \o <<>> /\ head = head \o <<>>
    BY <1>1, ConcatEmptySeq
  <1>6. ASSUME NEW s, Harmless(s), ready' = Tail(ready) \o s \/ ready' = head \o s
        PROVE  Leaves(t)
    BY <1>6 DEF Leaves, Schedules
  <1> HIDE DEF Harmless, head
  <1>7. \/ ready' \in {Tail(ready), Tail(ready) \o NextOwner}
        \/ ready' \in {head, head \o NextOwner}
        \/ conn \in Conns /\ ready' = Tail(ready) \o <<<<conn, "lost">>>>
    BY DEF head
  <1> QED BY <1>2, <1>3, <1>4, <1>5, <1>6, <1>7

\* Those that a connection resumes go on.
LEMMA ResumingSchedules ==
    ASSUME TypeOK, NEW c, NEW where, NEW r \in Resuming(c, where)
    PROVE  r \in Seq(Entry) /\ NoCancel(r)
  <1>1. r \in Seq(Entry)
    BY ResumingType
  <1>2. PICK s : r = [i \in DOMAIN s |-> <<s[i], "go">>]
    BY DEF Resuming
  <1> QED BY <1>1, <1>2 DEF NoCancel

-----------------------------------------------------------------------------
(* The queue's invariant.                                                    *)

\* What a step of x leaves of the others, and of what a begun write looks at.
LeavesOthers(x) ==
    /\ \A u \in Tasks : u # x => pc'[u] = pc[u] \/ (pc[u] = "setup" /\ pc'[u] = "idle")
    /\ x \in Tasks \ {Poll} => pc'[x] # "begin"
    /\ x # Poll => active' = active /\ (Connected' => Connected)
    /\ x = Poll => active' \/ ~active \/ (~Connected' /\ pc'[Poll] = "idle")
    /\ x = Unload => pc[x] # "done"

\* Such a step keeps the queue's invariant.
LEMMA StepKeepsQueue ==
    ASSUME TypeOK, LockDiscipline', QueueInv, NEW x, Leaves(x), LeavesOthers(x)
    PROVE  QueueInv'
  <1>1. CancelComesLast'
    BY LeavesKeeps, ConstantsAssumption DEF QueueInv, CancelComesLast, LeavesOthers
  <1>2. ASSUME NEW w \in Writers, pc'[w] = "begin"
        PROVE  /\ Awake(w, ready')
               /\ pc'[Unload] \in {"idle", "begin"} /\ Precedes(w, Unload, ready')
               /\ active' \/ (~Connected' /\ pc'[Poll] \in {"idle", "begin"} /\ Precedes(w, Poll, ready'))
    <2>1. x # w /\ pc[w] = "begin" /\ w \in Tasks
      BY <1>2, ConstantsAssumption DEF LeavesOthers
    <2>2. ready # <<>> /\ ready[1][1] = x /\ 1 \in DOMAIN ready
      BY LenProperties, EmptySeq DEF Leaves, TypeOK
    <2>3. \A u : Precedes(w, u, ready) => x # u
      BY <2>2 DEF Precedes
    <2>4. Awake(w, ready') /\ pc'[Unload] \in {"idle", "begin"} /\ Precedes(w, Unload, ready')
      BY <2>1, <2>3, LeavesKeeps DEF QueueInv, BegunWritesAreNext, LeavesOthers
    <2>5. CASE active'
      BY <2>4, <2>5
    <2>6. CASE ~active' /\ active
      <3>1. x = Poll /\ ~Connected' /\ pc'[Poll] = "idle"
        BY <2>6 DEF LeavesOthers
      <3>2. Precedes(w, Poll, ready')
        BY <3>1 DEF Precedes, LockDiscipline, Disciplined, WakeUpsAreDue, WakeUpIsDue
      <3> QED BY <2>4, <3>1, <3>2
    <2>7. CASE ~active' /\ ~active
      <3>1. ~Connected /\ pc[Poll] \in {"idle", "begin"} /\ Precedes(w, Poll, ready) /\ x # Poll
        BY <2>1, <2>3, <2>7 DEF QueueInv, BegunWritesAreNext
      <3>2. ~Connected' /\ pc'[Poll] \in {"idle", "begin"} /\ Precedes(w, Poll, ready')
        BY <2>1, <3>1, LeavesKeeps DEF LeavesOthers, QueueInv, BegunWritesAreNext
      <3> QED BY <2>4, <3>2
    <2> QED BY <2>5, <2>6, <2>7
  <1> QED BY <1>1, <1>2 DEF QueueInv, BegunWritesAreNext

\* The poll's steps leave the others where they are, and whoever fails has hung up.
LEMMA PollLeaves ==
    ASSUME TypeOK,
           \/ PollBegin \/ Connect \/ Opened \/ HandshakeIv \/ HandshakeLogin
           \/ ConnectFails \/ HandshakeEscapes \/ ReadBegin \/ ReadSettles \/ ReadSends
           \/ CollectDataPackets \/ ReadCancelled \/ WaitCancelled \/ AttemptFails \/ AttemptOver
    PROVE  Leaves(Poll) /\ LeavesOthers(Poll)
  <1> USE DEF Runs
  <1>1. ready # <<>> /\ ready[1][1] = Poll
    BY DEF PollBegin, Connect, Opened, HandshakeIv, HandshakeLogin, ConnectFails, HandshakeEscapes,
           ReadBegin, ReadSettles, ReadSends, CollectDataPackets, ReadCancelled, WaitCancelled,
           AttemptFails, AttemptOver
  <1>2. ASSUME \/ ready' \in {Tail(ready), Tail(ready) \o NextOwner}
               \/ ready' \in {[ready EXCEPT ![1] = <<Poll, "go">>], [ready EXCEPT ![1] = <<Poll, "go">>] \o NextOwner}
               \/ conn \in Conns /\ ready' = Tail(ready) \o <<<<conn, "lost">>>>,
               \A u \in Tasks : u # Poll => pc'[u] = pc[u] \/ (pc[u] = "setup" /\ pc'[u] = "idle"),
               active' \/ ~active \/ (~Connected' /\ pc'[Poll] = "idle")
        PROVE  Leaves(Poll) /\ LeavesOthers(Poll)
    BY <1>1, <1>2, HeadLeaves, ConstantsAssumption DEF LeavesOthers
  <1>3. ASSUME NEW p, Disconnect(Poll, p) PROVE Leaves(Poll) /\ LeavesOthers(Poll)
    <2>1. \A u \in Tasks : u # Poll => pc'[u] = pc[u]
      BY <1>3 DEF Disconnect, Continue, TypeOK
    <2>2. \/ ready' \in {Tail(ready), [ready EXCEPT ![1] = <<Poll, "go">>]}
          \/ conn \in Conns /\ ready' = Tail(ready) \o <<<<conn, "lost">>>>
      <3>1. CASE HasSocket
        <4>1. conn \in Conns /\ Tail(ready) \o <<>> = Tail(ready)
          BY <1>1, <3>1, QueueType, ConcatEmptySeq DEF HasSocket, TypeOK
        <4> QED BY <1>3, <3>1, <4>1 DEF Disconnect
      <3>2. CASE ~HasSocket
        BY <1>3, <3>2 DEF Disconnect, Continue
      <3> QED BY <3>1, <3>2
    <2>3. active' = active
      BY <1>3 DEF Disconnect
    <2> QED BY <1>2, <2>1, <2>2, <2>3
  <1>4. CASE PollBegin \/ AttemptFails
    <2>1. CASE PollBegin /\ Connected
      BY <1>2, <2>1 DEF PollBegin, Continue, TypeOK
    <2> QED BY <1>3, <1>4, <2>1 DEF PollBegin, AttemptFails
  <1>5. CASE Connect \/ Opened \/ HandshakeIv \/ HandshakeLogin \/ ConnectFails
    <2>1. /\ ready' \in {Tail(ready), [ready EXCEPT ![1] = <<Poll, "go">>]}
          /\ \A u \in Tasks : u # Poll => pc'[u] = pc[u]
      BY <1>5 DEF Connect, Opened, HandshakeIv, HandshakeLogin, ConnectFails, Finish, Await, Continue,
                  Send, TypeOK
    <2>2. active' = active
      BY <1>5 DEF Connect, Opened, HandshakeIv, HandshakeLogin, ConnectFails
    <2> QED BY <1>2, <2>1, <2>2
  <1>6. CASE HandshakeEscapes \/ WaitCancelled \/ ReadCancelled
    <2>1. /\ ready' \in {Tail(ready), Tail(ready) \o NextOwner}
          /\ \A u \in Tasks : u # Poll => pc'[u] = pc[u]
      BY <1>6 DEF HandshakeEscapes, WaitCancelled, ReadCancelled, ReleaseAndEnd, Finish, Await, TypeOK
    <2>2. active' = active
      BY <1>6 DEF HandshakeEscapes, WaitCancelled, ReadCancelled
    <2> QED BY <1>2, <2>1, <2>2
  <1>7. CASE ReadBegin \/ ReadSettles
    <2>1. /\ ready' \in {Tail(ready), [ready EXCEPT ![1] = <<Poll, "go">>]}
          /\ \A u \in Tasks : u # Poll => pc'[u] = pc[u]
      BY <1>7 DEF ReadBegin, ReadSettles, Acquire, Await, Continue, TypeOK
    <2>2. active' = active
      BY <1>7 DEF ReadBegin, ReadSettles
    <2> QED BY <1>2, <2>1, <2>2
  <1>8. ASSUME ReadFails PROVE Leaves(Poll) /\ LeavesOthers(Poll)
    BY <1>2, <1>8 DEF ReadFails, TypeOK
  <1>9. CASE ReadSends
    <2>1. CASE CanSend
      <3>1. /\ ready' = [ready EXCEPT ![1] = <<Poll, "go">>]
            /\ \A u \in Tasks : u # Poll => pc'[u] = pc[u]
            /\ active' = active
        BY <1>9, <2>1 DEF ReadSends, Send, Continue, TypeOK
      <3> QED BY <1>2, <3>1
    <2>2. CASE ~CanSend
      BY <1>8, <1>9, <2>2 DEF ReadSends
    <2> QED BY <2>1, <2>2
  <1>10. CASE CollectDataPackets
    <2>1. ASSUME NEW some, CollectEnds(some) PROVE Leaves(Poll) /\ LeavesOthers(Poll)
      <3>1. /\ ready' \in {Tail(ready), Tail(ready) \o NextOwner}
            /\ \A u \in Tasks : u # Poll => pc'[u] = pc[u] \/ (pc[u] = "setup" /\ pc'[u] = "idle")
            /\ active' \/ ~active
        BY <2>1, ConstantsAssumption DEF CollectEnds, ReadReturns, Await, TypeOK
      <3> QED BY <1>2, <3>1
    <2>2. ASSUME NEW some, CollectMore(some) PROVE Leaves(Poll) /\ LeavesOthers(Poll)
      <3>1. CASE budget = 1
        BY <2>1, <2>2, <3>1 DEF CollectMore
      <3>2. CASE budget # 1
        BY <1>2, <2>2, <3>2 DEF CollectMore, Continue, TypeOK
      <3> QED BY <3>1, <3>2
    <2>3. ReadFails \/ \E some : CollectEnds(some) \/ CollectMore(some)
      BY <1>10 DEF CollectDataPackets, CollectFails
    <2> QED BY <1>8, <2>1, <2>2, <2>3
  <1>11. CASE AttemptOver
    <2>1. /\ ready' \in {Tail(ready), [ready EXCEPT ![1] = <<Poll, "go">>]}
          /\ \A u \in Tasks : u # Poll => pc'[u] = pc[u]
          /\ active' = active \/ pc'[Poll] = "idle"
          /\ conn' = None /\ active \in BOOLEAN /\ active' \in BOOLEAN
      BY <1>11, ZenonT(60) DEF AttemptOver, LetGo, Finish, Await, Continue, TypeOK
    <2> QED BY <1>2, <2>1 DEF Connected
  <1> QED BY <1>4, <1>5, <1>6, <1>7, <1>9, <1>10, <1>11

\* So do the steps of writes, of the unloading and of the network's ends.
LEMMA OtherLeaves ==
    ASSUME TypeOK, LockDiscipline, ReaderInv,
           \/ \E w \in Writers : WriteBegin(w) \/ WriteSends(w) \/ WriteAcked(w) \/ WriteUnanswered(w)
           \/ UnloadBegin \/ UnloadOver \/ ConnectionLost
           \/ \E t \in Tasks : RecvBlocks(t)
    PROVE  \E x : Leaves(x) /\ LeavesOthers(x)
  <1> USE DEF Runs
  <1>1. ASSUME NEW w \in Writers,
               WriteBegin(w) \/ WriteSends(w) \/ WriteAcked(w) \/ WriteUnanswered(w)
        PROVE  Leaves(w) /\ LeavesOthers(w)
    <2>1. w \in Tasks /\ w # Poll /\ w # Unload /\ ready # <<>> /\ ready[1][1] = w
      BY <1>1, ConstantsAssumption DEF WriteBegin, WriteSends, WriteAcked, WriteUnanswered
    <2>2. ASSUME \/ ready' \in {Tail(ready), Tail(ready) \o NextOwner}
                 \/ ready' = [ready EXCEPT ![1] = <<w, "go">>],
                 \A u \in Tasks : u # w => pc'[u] = pc[u],
                 pc'[w] # "begin", active' = active, Connected' => Connected
          PROVE  Leaves(w) /\ LeavesOthers(w)
      BY <2>1, <2>2, HeadLeaves DEF LeavesOthers
    <2>3. CASE WriteBegin(w)
      BY <2>1, <2>2, <2>3 DEF WriteBegin, Acquire, Continue, Await, Connected, TypeOK
    <2>4. ASSUME WriteFails(w) PROVE Leaves(w) /\ LeavesOthers(w)
      BY <2>1, <2>2, <2>4 DEF WriteFails, ReleaseAndEnd, Connected, TypeOK
    <2>5. CASE WriteSends(w)
      BY <2>1, <2>2, <2>4, <2>5 DEF WriteSends, Send, Continue, Connected, TypeOK
    <2>6. CASE WriteAcked(w)
      BY <2>1, <2>2, <2>6 DEF WriteAcked, ReleaseAndEnd, Connected, TypeOK
    <2>7. CASE WriteUnanswered(w)
      BY <2>4, <2>7 DEF WriteUnanswered
    <2> QED BY <1>1, <2>3, <2>5, <2>6, <2>7
  <1>2. CASE UnloadBegin \/ UnloadOver
    <2>1. /\ ready # <<>> /\ ready[1][1] = Unload /\ pc[Unload] # "done" /\ Unload # Poll /\ Unload \in Tasks
          /\ active' = active /\ pc'[Unload] \in {"closeU", "done"}
          /\ \A u \in Tasks : u # Unload => pc'[u] = pc[u]
      BY <1>2, ConstantsAssumption
         DEF UnloadBegin, UnloadOver, Disconnect, Finish, Await, Continue, TypeOK
    <2>2. Connected' => Connected
      BY <1>2 DEF UnloadBegin, UnloadOver, Disconnect, DropSession, LetGo, Connected
    <2>3. \/ ready' \in {Tail(ready), [ready EXCEPT ![1] = <<Unload, "go">>]}
          \/ conn \in Conns /\ ready' = Tail(ready) \o <<<<conn, "lost">>>>
      <3>1. CASE UnloadBegin /\ active /\ HasSocket
        <4>1. conn \in Conns /\ Tail(ready) \o <<>> = Tail(ready)
          BY <2>1, <3>1, QueueType, ConcatEmptySeq DEF HasSocket, TypeOK
        <4> QED BY <3>1, <4>1 DEF UnloadBegin, Disconnect
      <3>2. CASE ~(UnloadBegin /\ active /\ HasSocket)
        BY <1>2, <3>2 DEF UnloadBegin, UnloadOver, Disconnect, Finish, Await, Continue
      <3> QED BY <3>1, <3>2
    <2>4. Leaves(Unload)
      BY <2>1, <2>3, HeadLeaves
    <2>5. LeavesOthers(Unload)
      BY <2>1, <2>2 DEF LeavesOthers
    <2> QED BY <2>4, <2>5
  <1>3. CASE ConnectionLost
    <2> DEFINE c == ready[1][1]
    <2>1. /\ ready # <<>> /\ pc' = pc /\ active' = active /\ Connected' = Connected
          /\ \E r \in Resuming(c, Receiving), k \in Resuming(c, Closing) : ready' = Tail(ready) \o r \o k
      BY <1>3 DEF ConnectionLost, Connected
    <2>2. c \in Conns /\ c \notin Tasks
      <3>1. ready[1] \in Entry
        BY <2>1, ElementOfSeq, LenProperties, EmptySeq DEF TypeOK
      <3>2. ready[1][2] = "lost"
        BY <1>3 DEF ConnectionLost, Why
      <3> QED BY <3>1, <3>2, ConstantsAssumption DEF Entry
    <2>3. Schedules(Tail(ready))
      <3>1. PICK r \in Resuming(c, Receiving), k \in Resuming(c, Closing) : ready' = Tail(ready) \o r \o k
        BY <2>1
      <3> HIDE DEF c
      <3>2. r \in Seq(Entry) /\ NoCancel(r) /\ k \in Seq(Entry) /\ NoCancel(k) /\ Tail(ready) \in Seq(Entry)
        BY <2>1, ResumingSchedules, HeadTailProperties DEF TypeOK
      <3>3. ready' = Tail(ready) \o (r \o k)
        BY <3>1, <3>2, ConcatAssociative
      <3>4. r \o k \in Seq(Entry) /\ NoCancel(r \o k)
        BY <3>2, MorePrecedes, ConcatProperties
      <3> QED BY <3>3, <3>4 DEF Schedules
    <2> QED BY <2>1, <2>2, <2>3 DEF Leaves, LeavesOthers
  <1>4. ASSUME NEW t \in Tasks, RecvBlocks(t) PROVE Leaves(t) /\ LeavesOthers(t)
    <2>1. /\ ready # <<>> /\ ready[1][1] = t /\ pc[t] \in Receiving
          /\ ready' = Tail(ready) /\ pc' = pc /\ active' = active /\ Connected' = Connected
      BY <1>4 DEF RecvBlocks, Await, Connected, TypeOK
    <2>2. pc[t] \notin {"begin", "done"}
      BY <2>1 DEF Receiving
    <2> QED BY <2>1, <2>2, HeadLeaves DEF LeavesOthers
  <1> QED BY <1>1, <1>2, <1>3, <1>4

\* What is scheduled from outside keeps the queue's invariant.
LEMMA OutsideKeepsQueue ==
    ASSUME TypeOK, LockDiscipline', QueueInv, Environment
    PROVE  QueueInv'
  <1> USE DEF QueueInv
  <1>1. ready \in Seq(Entry)
    BY DEF TypeOK
  <1>2. ASSUME NEW t \in Tasks, NEW why \in {"go", "timeout", "cancel"},
               ready' = Append(ready, <<t, why>>)
        PROVE  /\ <<<<t, why>>>> \in Seq(Entry) /\ ready' = ready \o <<<<t, why>>>>
               /\ why # "cancel" => Schedules(ready)
               /\ Awake(t, ready')
    <2> DEFINE s == <<<<t, why>>>>
    <2>1. /\ s \in Seq(Entry) /\ (why # "cancel" => NoCancel(s)) /\ DOMAIN s = {1} /\ s[1][1] = t
          /\ <<t, why>> \in Entry
      BY DEF Entry, NoCancel
    <2>2. ready' = ready \o s
      BY <1>1, <1>2, <2>1, AppendIsConcat
    <2> HIDE DEF s
    <2>3. Awake(t, ready')
      BY <1>1, <2>1, <2>2, QueueMore DEF Awake
    <2> QED BY <2>1, <2>2, <2>3 DEF Schedules, s
  <1>3. ASSUME NEW s \in Seq(Entry), ready' = ready \o s,
               \A u \in Tasks : pc'[u] = pc[u] \/ (pc[u] = "idle" /\ pc'[u] = "begin" /\ u \in {Poll, Unload}),
               active' = active, Connected' = Connected
        PROVE  BegunWritesAreNext'
    <2> SUFFICES ASSUME NEW w \in Writers, pc'[w] = "begin"
                 PROVE  /\ Awake(w, ready')
                        /\ pc'[Unload] \in {"idle", "begin"} /\ Precedes(w, Unload, ready')
                        /\ active' \/ (~Connected' /\ pc'[Poll] \in {"idle", "begin"} /\ Precedes(w, Poll, ready'))
      BY DEF BegunWritesAreNext
    <2>1. pc[w] = "begin"
      BY <1>3, ConstantsAssumption
    <2>2. /\ Awake(w, ready) /\ pc[Unload] \in {"idle", "begin"} /\ Precedes(w, Unload, ready)
          /\ active \/ (~Connected /\ pc[Poll] \in {"idle", "begin"} /\ Precedes(w, Poll, ready))
      BY <2>1 DEF BegunWritesAreNext
    <2> QED BY <1>1, <1>3, <2>2, MorePrecedes
  <1>4. ASSUME Schedules(ready), pc'[Unload] = pc[Unload] \/ pc[Unload] # "done" PROVE CancelComesLast'
    BY <1>1, <1>4, MorePrecedes DEF Schedules, CancelComesLast
  <1>5. CASE PollStart \/ UnloadStart
    <2>1. PICK t \in {Poll, Unload} : Start(t, "begin") /\ pc[t] = "idle"
      BY <1>5 DEF PollStart, UnloadStart
    <2>2. /\ active' = active /\ Connected' = Connected
      BY <1>5 DEF PollStart, UnloadStart, Connected
    <2>3. /\ \A u \in Tasks : pc'[u] = pc[u] \/ (pc[u] = "idle" /\ pc'[u] = "begin" /\ u \in {Poll, Unload})
          /\ pc'[Unload] = pc[Unload] \/ pc[Unload] # "done"
      BY <2>1 DEF Start, TypeOK
    <2> QED BY <1>2, <1>3, <1>4, <2>1, <2>2, <2>3 DEF Start
  <1>6. CASE Cancel
    <2>1. pc' = pc /\ active' = active /\ Connected' = Connected /\ pc[Unload] = "done"
      BY <1>6 DEF Cancel, Connected
    <2>2. BegunWritesAreNext'
      BY <1>2, <1>3, <1>6, <2>1 DEF Cancel, Wake
    <2> QED BY <2>1, <2>2 DEF CancelComesLast
  <1>7. ASSUME OpenSucceeds \/ \E t \in Tasks : Timer(t) PROVE QueueInv'
    <2>1. pc' = pc /\ active' = active /\ Connected' = Connected
      BY <1>7 DEF OpenSucceeds, Timer, Connected
    <2>2. PICK t \in Tasks, why \in {"go", "timeout"} : Wake(t, why)
      BY <1>7 DEF OpenSucceeds, Timer
    <2> QED BY <1>2, <1>3, <1>4, <2>1, <2>2 DEF Wake
  <1>8. ASSUME NEW w \in Writers, WriteStart(w) PROVE QueueInv'
    <2>1. /\ w \in Tasks /\ w # Poll /\ w # Unload /\ pc[Unload] = "idle" /\ active' /\ active
          /\ Connected' = Connected /\ Start(w, "begin")
      BY <1>8, ConstantsAssumption DEF WriteStart, Connected
    <2>2. pc'[w] = "begin" /\ \A u \in Tasks : u # w => pc'[u] = pc[u]
      BY <2>1 DEF Start, TypeOK
    <2>3. CancelComesLast'
      BY <1>2, <1>4, <2>1, <2>2 DEF Start
    <2>4. Awake(w, ready') /\ Precedes(w, Unload, ready')
      <3>1. pc'[Unload] = "idle"
        BY <2>1, <2>2
      <3>2. Precedes(w, Unload, ready')
        BY <3>1 DEF Precedes, LockDiscipline, Disciplined, WakeUpsAreDue, WakeUpIsDue
      <3> QED BY <1>2, <2>1, <3>2 DEF Start
    <2>5. ASSUME NEW v \in Writers, v # w, pc'[v] = "begin" PROVE Awake(v, ready') /\ Precedes(v, Unload, ready')
      <3>1. Awake(v, ready) /\ Precedes(v, Unload, ready)
        BY <2>2, <2>5 DEF BegunWritesAreNext
      <3>2. PICK s \in Seq(Entry) : ready' = ready \o s
        BY <1>2, <2>1 DEF Start
      <3> QED BY <1>1, <3>1, <3>2, MorePrecedes
    <2>6. BegunWritesAreNext'
      BY <2>1, <2>2, <2>4, <2>5 DEF BegunWritesAreNext
    <2> QED BY <2>3, <2>6
  <1>9. ASSUME NEW c \in Conns, Answer(c) \/ NeverAnswers(c) \/ PeerCloses(c) PROVE QueueInv'
    <2>1. pc' = pc /\ active' = active /\ Connected' = Connected
      BY <1>9 DEF Answer, NeverAnswers, PeerCloses, Connected
    <2>2. CASE WakeReaders(c)
      <3>1. PICK r \in Resuming(c, Receiving) : ready' = ready \o r
        BY <2>2 DEF WakeReaders
      <3>2. r \in Seq(Entry) /\ Schedules(ready)
        BY <3>1, ResumingSchedules DEF Schedules
      <3> QED BY <1>3, <1>4, <2>1, <3>1, <3>2
    <2>3. CASE ready' = ready
      BY <2>1, <2>3 DEF BegunWritesAreNext, CancelComesLast
    <2> QED BY <1>9, <2>2, <2>3 DEF Answer, NeverAnswers, PeerCloses
  <1> QED BY <1>5, <1>6, <1>7, <1>8, <1>9 DEF Environment

\* The queue's invariant is inductive, given the types, the lock and the places.
LEMMA QueueIsSafe == Spec => []QueueInv
  <1>1. Init => QueueInv
    BY DEF Init, QueueInv, BegunWritesAreNext, CancelComesLast, NoCancel, ConstantsAssumption
  <1>2. TypeOK /\ LockDiscipline /\ LockDiscipline' /\ ReaderInv /\ QueueInv /\ [Next]_vars => QueueInv'
    <2> SUFFICES ASSUME TypeOK, LockDiscipline, LockDiscipline', ReaderInv, QueueInv, [Next]_vars PROVE QueueInv'
      OBVIOUS
    <2>1. CASE LoopStep
      BY <2>1, PollLeaves, OtherLeaves, StepKeepsQueue DEF LoopStep
    <2>2. CASE Environment
      BY <2>2, OutsideKeepsQueue
    <2>3. CASE UNCHANGED vars
      BY <2>3 DEF vars, QueueInv, BegunWritesAreNext, CancelComesLast, Connected
    <2> QED BY <2>1, <2>2, <2>3 DEF Next
  <1> QED BY <1>1, <1>2, TypeAndLock, ReadersAreSafe, PTL DEF Spec

\* Who is cancelled, is so after the unloading.
LEMMA CancelIsLast ==
    ASSUME TypeOK, QueueInv, ready # <<>>, Why = "cancel"
    PROVE  pc[Unload] = "done"
  <1>1. 1 \in DOMAIN ready
    BY LenProperties, EmptySeq DEF TypeOK
  <1> QED BY <1>1 DEF QueueInv, CancelComesLast, NoCancel, Why

-----------------------------------------------------------------------------
(* The mapping.                                                              *)

\* A step of the entry with its one transport, as the coordinator sees it.
Mapped == C!Next \/ UNCHANGED C!vars

\* What the link becomes of what a step does to the session.
LEMMA LinkMoves ==
    ASSUME TypeOK
    PROVE  /\ conn' = conn /\ encrypted' = encrypted => Link' = Link
           /\ conn' = conn /\ ~encrypted' => Link' = IF Link = "up" THEN "stale" ELSE Link
           /\ conn' = conn /\ encrypted' => Link' = IF Link = "none" THEN "none" ELSE "up"
           /\ conn' # None /\ ~encrypted' => Link' = "stale"
           /\ conn' = None => Link' = "none"
           /\ Connected <=> Link = "up"
           /\ Link \in {"none", "stale", "up"}
  BY DEF Link, Connected

\* Where the coordinator sees the poll.
LEMMA PollPlaces ==
    /\ pc[Poll] = "idle" => PollAt = "idle"
    /\ pc[Poll] = "begin" => PollAt = "check"
    /\ pc[Poll] \in {"closeC", "opening", "iv", "login"} => PollAt = "connect"
    /\ pc[Poll] \in Reading \cup {"acquire", "locked"} => PollAt = "read"
    /\ pc[Poll] \in {"failed", "closeE"} => PollAt = "hangup"
    /\ pc'[Poll] = "idle" => PollAt' = "idle"
    /\ pc'[Poll] = "begin" => PollAt' = "check"
    /\ pc'[Poll] \in {"closeC", "opening", "iv", "login"} => PollAt' = "connect"
    /\ pc'[Poll] \in Reading \cup {"acquire", "locked"} => PollAt' = "read"
    /\ pc'[Poll] \in {"failed", "closeE"} => PollAt' = "hangup"
  BY DEF PollAt, Reading

\* What the poll leaves of entry and writes, and what it comes to.
Others == EntryState' = EntryState /\ ClosingOne' = ClosingOne /\ WritesTo' = WritesTo
Results == ActiveOne' = ActiveOne /\ Outcome' = Outcome

\* A step of the poll is none of the entry or of a write.
LEMMA PollMoves ==
    ASSUME TypeOK, NEW p, pc' = [pc EXCEPT ![Poll] = p]
    PROVE  Others /\ pc'[Poll] = p
  <1>1. Poll \in Tasks /\ Poll # Unload /\ Poll \notin Writers
    BY ConstantsAssumption
  <1>2. pc'[Poll] = p /\ pc'[Unload] = pc[Unload] /\ \A w \in Writers : pc'[w] = pc[w]
    BY <1>1 DEF TypeOK
  <1>3. EntryState' = EntryState /\ ClosingOne' = ClosingOne
    BY <1>2 DEF EntryState, ClosingOne
  <1>4. WritesTo' = WritesTo
    BY <1>2 DEF WritesTo
  <1> QED BY <1>2, <1>3, <1>4 DEF Others

\* The connecting of a poll, as the coordinator sees it.
LEMMA ConnectMaps ==
    ASSUME TypeOK, SessionInv, QueueInv,
           \/ PollBegin \/ Connect \/ Opened \/ HandshakeIv \/ HandshakeLogin
           \/ ConnectFails \/ HandshakeEscapes
    PROVE  Mapped
  <1> USE DEF Runs, Mapped, Others, Results, C!progress, C!outcome
  <1>1. CASE PollBegin
    <2>1. /\ PollAt = "check" /\ Others /\ Results /\ attempt' = attempt
          /\ pc'[Poll] = IF Link = "up" THEN "acquire" ELSE "closeC"
          /\ Link' = Link
      <3>1. CASE Connected
        BY <1>1, <3>1, PollMoves, LinkMoves, PollPlaces DEF PollBegin, Continue, ActiveOne, Outcome
      <3>2. CASE ~Connected
        <4>1. pc' = [pc EXCEPT ![Poll] = "closeC"] /\ conn' = conn /\ ~encrypted' /\ UNCHANGED <<attempt, result, active>>
          BY <1>1, <3>2 DEF PollBegin, Disconnect, DropSession, Continue
        <4>2. Link' = Link /\ Link # "up"
          BY <3>2, <4>1, LinkMoves
        <4> QED BY <1>1, <4>1, <4>2, PollMoves, PollPlaces DEF PollBegin, ActiveOne, Outcome
      <3> QED BY <3>1, <3>2
    <2>2. PollAt' = IF Link = "up" THEN "read" ELSE "connect"
      BY <2>1, PollPlaces
    <2> QED BY <2>1, <2>2 DEF C!CheckConnected, C!PollStep, C!Next
  <1>2. CASE Connect \/ Opened
    <2>1. /\ PollAt = "connect" /\ PollAt' = "connect" /\ Others /\ Results /\ attempt' = attempt
      BY <1>2, PollMoves, PollPlaces DEF Connect, Opened, Finish, Await, Continue, ActiveOne, Outcome
    <2>2. Link' \in {"none", "stale"}
      <3>1. CASE Connect
        BY <3>1, LinkMoves DEF Connect, LetGo
      <3>2. CASE Opened
        <4>1. conn' # None /\ ~encrypted'
          BY <3>2, ConstantsAssumption DEF Opened, SessionInv, Handshaking
        <4> QED BY <4>1, LinkMoves
      <3> QED BY <1>2, <3>1, <3>2
    <2> QED BY <2>1, <2>2 DEF C!Dial, C!Dialled, C!Next
  <1>3. CASE HandshakeIv
    <2>1. /\ PollAt = "connect" /\ PollAt' = "connect" /\ Others /\ Results /\ attempt' = attempt
      BY <1>3, PollMoves, PollPlaces DEF HandshakeIv, Send, Continue, ActiveOne, Outcome
    <2>2. Link' = Link
      BY <1>3, LinkMoves DEF HandshakeIv
    <2> QED BY <2>1, <2>2 DEF C!vars
  <1>4. CASE HandshakeLogin
    <2>1. /\ PollAt = "connect" /\ PollAt' = "read" /\ Others /\ Results /\ attempt' = attempt
      BY <1>4, PollMoves, PollPlaces DEF HandshakeLogin, Continue, ActiveOne, Outcome
    <2>2. Link' = IF Link = "stale" THEN "up" ELSE Link
      BY <1>4, LinkMoves DEF HandshakeLogin
    <2> QED BY <2>1, <2>2 DEF C!ConnectReturns, C!PollStep, C!Next
  <1>5. CASE ConnectFails
    <2>1. /\ PollAt = "connect" /\ PollAt' = "hangup" /\ Others /\ Results /\ attempt' = attempt
      BY <1>5, PollMoves, PollPlaces DEF ConnectFails, Continue, ActiveOne, Outcome
    <2>2. Link' = Link
      BY <1>5, LinkMoves DEF ConnectFails
    <2> QED BY <2>1, <2>2 DEF C!ConnectFails, C!PollStep, C!Next
  <1>6. CASE HandshakeEscapes
    <2>1. /\ PollAt = "connect" /\ PollAt' = "idle" /\ Others /\ ActiveOne' = ActiveOne /\ attempt' = attempt
      BY <1>6, PollMoves, PollPlaces DEF HandshakeEscapes, Finish, Await, ActiveOne
    <2>2. Link' = Link
      BY <1>6, LinkMoves DEF HandshakeEscapes
    <2>3. \/ Outcome' = "escaped"
          \/ Outcome' = "cancelled" /\ EntryState = "unloaded"
      <3>1. Why = "cancel" => pc[Unload] = "done"
        BY <1>6, CancelIsLast DEF HandshakeEscapes
      <3>2. result' = "escaped" \/ (result' = "cancelled" /\ Why = "cancel")
        BY <1>6 DEF HandshakeEscapes
      <3> QED BY <3>1, <3>2 DEF Outcome, EntryState
    <2> QED BY <2>1, <2>2, <2>3 DEF C!ConnectEscapes, C!Cancelled, C!PollStep, C!Next
  <1> QED BY <1>1, <1>2, <1>3, <1>4, <1>5, <1>6

\* Its reading.
LEMMA ReadMaps ==
    ASSUME TypeOK, LockDiscipline, ReaderInv, QueueInv,
           \/ ReadBegin \/ ReadSettles \/ ReadSends \/ CollectDataPackets \/ ReadCancelled \/ WaitCancelled
    PROVE  Mapped
  <1> USE DEF Runs, Mapped, Others, Results, C!progress, C!outcome
  <1>1. ASSUME NEW p, pc' = [pc EXCEPT ![Poll] = p], pc[Poll] \in Reading \cup {"acquire", "locked"},
               p \in Reading \cup {"acquire", "locked"}, conn' = conn, encrypted' = encrypted,
               UNCHANGED <<attempt, result, active>>
        PROVE  Mapped
    <2>1. PollAt' = PollAt /\ Others /\ Results /\ Link' = Link
      BY <1>1, PollMoves, PollPlaces, LinkMoves DEF ActiveOne, Outcome
    <2> QED BY <1>1, <2>1 DEF C!vars
  <1>2. ASSUME pc[Poll] \in Reading \cup {"acquire", "locked"}, pc' = [pc EXCEPT ![Poll] = "failed"],
               conn' = conn, ~Connected', UNCHANGED <<attempt, result, active>>
        PROVE  Mapped
    <2>1. PollAt = "read" /\ PollAt' = "hangup" /\ Others /\ Results
      BY <1>2, PollMoves, PollPlaces DEF ActiveOne, Outcome
    <2>2. Link' = IF Link = "up" THEN "stale" ELSE Link
      BY <1>2 DEF Link, Connected
    <2> QED BY <1>2, <2>1, <2>2 DEF C!ReadFails, C!Drops, C!Stale, C!PollStep, C!Next
  <1>3. ASSUME ReadFails, pc[Poll] \in Reading \cup {"acquire", "locked"} PROVE Mapped
    BY <1>2, <1>3 DEF ReadFails, Connected
  <1>4. CASE ReadBegin
    BY <1>1, <1>2, <1>4 DEF ReadBegin, Acquire, Continue, Await, Connected
  <1>5. CASE ReadSettles
    BY <1>1, <1>5 DEF ReadSettles, Await, Reading
  <1>6. CASE ReadSends
    <2>1. pc[Poll] \in Reading \cup {"acquire", "locked"}
      BY <1>6 DEF ReadSends, Reading
    <2>2. CASE CanSend
      <3>1. PICK p \in {"collect", "recollect"} : Send(Poll, "read", p)
        BY <1>6, <2>2 DEF ReadSends
      <3>2. pc' = [pc EXCEPT ![Poll] = p] /\ p \in Reading
        BY <3>1 DEF Send, Continue, Reading
      <3>3. conn' = conn /\ encrypted' = encrypted /\ UNCHANGED <<attempt, result, active>>
        BY <1>6, <2>2 DEF ReadSends
      <3> QED BY <1>1, <2>1, <3>2, <3>3
    <2>3. CASE ~CanSend
      BY <1>3, <1>6, <2>1, <2>3 DEF ReadSends
    <2> QED BY <2>2, <2>3
  <1>7. CASE CollectDataPackets
    <2>1. pc[Poll] \in {"collect", "recollect"} /\ pc[Poll] \in Reading
      BY <1>7 DEF CollectDataPackets, Reading
    <2>2. ASSUME NEW some \in BOOLEAN, CollectEnds(some) PROVE Mapped
      <3>1. CASE ~some /\ pc[Poll] = "collect"
        BY <1>1, <2>1, <2>2, <3>1 DEF CollectEnds, Await, Reading
      <3>2. CASE ~(~some /\ pc[Poll] = "collect")
        <4>1. /\ ReadReturns(some) /\ conn' = conn /\ encrypted' = encrypted /\ attempt' = attempt
          BY <2>2, <3>2 DEF CollectEnds
        <4>2. /\ pc'[Poll] = "idle" /\ pc'[Unload] = (IF pc[Unload] = "setup" THEN "idle" ELSE pc[Unload])
              /\ \A w \in Writers : pc'[w] = pc[w]
              /\ result' \in {"ok", "empty"} /\ active'
          BY <4>1, ConstantsAssumption DEF ReadReturns, TypeOK
        <4>3. /\ EntryState' = IF EntryState = "setup" THEN "loaded" ELSE EntryState
              /\ ClosingOne' = ClosingOne /\ ActiveOne' = 1 /\ Outcome' = "ok"
          BY <4>2 DEF EntryState, ClosingOne, ActiveOne, Outcome, Index, ReaderInv, Places
        <4>4. WritesTo' = WritesTo
          BY <4>2 DEF WritesTo
        <4>5. PollAt = "read" /\ PollAt' = "idle" /\ Link' = Link
          BY <2>1, <4>1, <4>2, PollPlaces, LinkMoves
        <4> QED BY <4>1, <4>3, <4>4, <4>5 DEF C!ReadReturns, C!PollStep, C!Next
      <3> QED BY <3>1, <3>2
    <2>3. ASSUME NEW some \in BOOLEAN, CollectMore(some) PROVE Mapped
      <3>1. CASE budget = 1
        BY <2>2, <2>3, <3>1 DEF CollectMore
      <3>2. CASE budget # 1
        BY <1>1, <2>1, <2>3, <3>2 DEF CollectMore, Continue
      <3> QED BY <3>1, <3>2
    <2>4. ReadFails \/ \E some \in BOOLEAN : CollectEnds(some) \/ CollectMore(some)
      BY <1>7 DEF CollectDataPackets, CollectFails, TypeOK
    <2> QED BY <1>3, <2>1, <2>2, <2>3, <2>4
  <1>8. CASE ReadCancelled \/ WaitCancelled
    <2>1. /\ PollAt # "idle" /\ EntryState = "unloaded"
          /\ PollAt' = "idle" /\ Others /\ ActiveOne' = ActiveOne /\ Outcome' = "cancelled" /\ attempt' = attempt
      <3>1. pc[Unload] = "done" /\ pc' = [pc EXCEPT ![Poll] = "idle"] /\ result' = "cancelled"
            /\ active' = active /\ attempt' = attempt
        BY <1>8, CancelIsLast DEF ReadCancelled, WaitCancelled, ReleaseAndEnd, Finish, Await
      <3>2. pc[Poll] \in Reading \cup {"opening", "locked", "closeC", "closeE"}
        BY <1>8 DEF ReadCancelled, WaitCancelled, Closing, ReaderInv, Places
      <3>3. EntryState = "unloaded" /\ ActiveOne' = ActiveOne /\ Outcome' = "cancelled"
        BY <3>1 DEF EntryState, ActiveOne, Outcome
      <3>4. PollAt # "idle" /\ PollAt' = "idle" /\ Others
        BY <3>1, <3>2, PollMoves, PollPlaces
      <3> QED BY <3>1, <3>3, <3>4
    <2>2. CASE WaitCancelled
      <3>1. Link' = Link
        BY <2>2, LinkMoves DEF WaitCancelled
      <3> QED BY <2>1, <3>1 DEF C!Cancelled, C!Next
    <2>3. CASE ReadCancelled
      <3>1. Link' = IF Link = "up" THEN "stale" ELSE Link
        BY <2>3, LinkMoves DEF ReadCancelled
      <3>2. PollAt = "read"
        BY <2>3, PollPlaces DEF ReadCancelled
      <3> QED BY <2>1, <3>1, <3>2 DEF C!Cancelled, C!Drops, C!Stale, C!Next
    <2> QED BY <1>8, <2>2, <2>3
  <1> QED BY <1>4, <1>5, <1>6, <1>7, <1>8

\* Its hanging up.
LEMMA AttemptMaps ==
    ASSUME TypeOK, AttemptFails \/ AttemptOver
    PROVE  Mapped
  <1> USE DEF Runs, Mapped, Others, Results, C!progress, C!outcome
  <1>1. CASE AttemptFails
    <2>1. pc' = [pc EXCEPT ![Poll] = "closeE"] /\ conn' = conn /\ ~encrypted' /\ UNCHANGED <<attempt, result, active>>
      BY <1>1 DEF AttemptFails, Disconnect, DropSession, Continue
    <2>2. PollAt = "hangup" /\ PollAt' = "hangup" /\ Others /\ Results
      BY <1>1, <2>1, PollMoves, PollPlaces DEF AttemptFails, ActiveOne, Outcome
    <2>3. Link' = IF Link = "up" THEN "stale" ELSE Link
      BY <2>1, LinkMoves
    <2> QED BY <2>1, <2>2, <2>3 DEF C!HangingUp, C!Drops, C!Stale, C!Next
  <1>2. CASE AttemptOver
    <2>1. PollAt = "hangup" /\ Link' = "none"
      BY <1>2, PollPlaces, LinkMoves DEF AttemptOver, LetGo
    <2>2. CASE ~LastAttempt
      <3>1. PollAt' = "check" /\ Others /\ Results /\ attempt' = attempt + 1
        BY <1>2, <2>2, PollMoves, PollPlaces DEF AttemptOver, Continue, ActiveOne, Outcome
      <3>2. attempt # 2
        BY <2>2 DEF LastAttempt
      <3> QED BY <2>1, <3>1, <3>2 DEF C!HungUp, C!LastAttempt, C!NextAttempt, C!LetsGo, C!PollStep, C!Next
    <2>3. CASE LastAttempt
      <3>1. /\ PollAt' = "idle" /\ Others /\ attempt' = attempt /\ attempt = 2
            /\ ActiveOne' = 0 /\ Outcome' = "failed"
        BY <1>2, <2>3, PollMoves, PollPlaces
           DEF AttemptOver, Finish, Await, ActiveOne, Index, Outcome, LastAttempt
      <3> QED BY <2>1, <3>1 DEF C!HungUp, C!LastAttempt, C!LetsGo, C!PollStep, C!Next
    <2> QED BY <2>2, <2>3
  <1> QED BY <1>1, <1>2

\* A writer that moves to p.
LEMMA WriterMoves ==
    ASSUME TypeOK, NEW w \in Writers, NEW p, pc' = [pc EXCEPT ![w] = p]
    PROVE  /\ EntryState' = EntryState /\ ClosingOne' = ClosingOne /\ PollAt' = PollAt
           /\ WritesTo' = [WritesTo EXCEPT ![w] = Index(p \in {"locked", "ack"})]
  <1>1. w \in Tasks /\ w # Poll /\ w # Unload
    BY ConstantsAssumption
  <1>2. /\ pc'[w] = p /\ pc'[Unload] = pc[Unload] /\ pc'[Poll] = pc[Poll]
        /\ \A v \in Writers \ {w} : pc'[v] = pc[v]
    BY <1>1 DEF TypeOK
  <1>3. EntryState' = EntryState /\ ClosingOne' = ClosingOne /\ PollAt' = PollAt
    BY <1>2 DEF EntryState, ClosingOne, PollAt
  <1>4. WritesTo' = [WritesTo EXCEPT ![w] = Index(p \in {"locked", "ack"})]
    <2>1. \A v \in Writers : Index(pc'[v] \in {"locked", "ack"}) =
                IF v = w THEN Index(p \in {"locked", "ack"}) ELSE WritesTo[v]
      BY <1>2 DEF WritesTo
    <2>2. WritesTo' = [v \in Writers |-> Index(pc'[v] \in {"locked", "ack"})]
      BY DEF WritesTo
    <2>3. WritesTo = [v \in Writers |-> WritesTo[v]]
      BY DEF WritesTo
    <2> QED BY <2>1, <2>2, <2>3
  <1> QED BY <1>3, <1>4

\* A write, as the coordinator sees it.
LEMMA WriteMaps ==
    ASSUME TypeOK, QueueInv, NEW w \in Writers,
           WriteBegin(w) \/ WriteSends(w) \/ WriteAcked(w) \/ WriteUnanswered(w)
    PROVE  Mapped
  <1> USE DEF Runs, Mapped, Results, C!progress, C!outcome
  <1>1. WritesTo[w] = IF pc[w] \in {"locked", "ack"} THEN 1 ELSE 0
    BY DEF WritesTo, Index
  <1>2. ASSUME pc[w] \in {"locked", "ack"}, pc' = [pc EXCEPT ![w] = "idle"],
               conn' = conn, encrypted' \in {encrypted, FALSE}, UNCHANGED <<attempt, result, active>>
        PROVE  Mapped
    <2>1. /\ EntryState' = EntryState /\ ClosingOne' = ClosingOne /\ PollAt' = PollAt /\ Results
          /\ WritesTo' = [WritesTo EXCEPT ![w] = 0]
      <3>1. Index("idle" \in {"locked", "ack"}) = 0
        BY DEF Index
      <3> QED BY <1>2, <3>1, WriterMoves DEF ActiveOne, Outcome
    <2>2. Link' = Link \/ Link' = IF Link = "up" THEN "stale" ELSE Link
      BY <1>2, LinkMoves
    <2>3. C!WriteReturns(w)
      BY <1>1, <1>2, <2>1, <2>2 DEF C!WriteReturns, C!Drops, C!Stale
    <2> QED BY <2>3 DEF C!Next
  <1>3. ASSUME WriteFails(w), pc[w] \in {"locked", "ack"} PROVE Mapped
    BY <1>2, <1>3 DEF WriteFails, ReleaseAndEnd
  <1>4. CASE WriteBegin(w)
    <2>1. conn' = conn /\ encrypted' = encrypted /\ UNCHANGED <<attempt, result, active>> /\ pc[w] = "begin"
      BY <1>4 DEF WriteBegin
    <2>2. Link' = Link /\ Results
      BY <2>1, LinkMoves DEF ActiveOne, Outcome
    <2>3. CASE Connected
      <3>1. pc' = [pc EXCEPT ![w] = "locked"]
        BY <1>4, <2>3 DEF WriteBegin, Acquire, Continue, Await
      <3>2. EntryState = "loaded" /\ ActiveOne = 1 /\ Link = "up"
        <4>1. pc[Unload] \in {"idle", "begin"} /\ active
          BY <2>1, <2>3 DEF QueueInv, BegunWritesAreNext
        <4> QED BY <2>3, <4>1, LinkMoves DEF EntryState, ActiveOne, Index
      <3>3. /\ EntryState' = EntryState /\ ClosingOne' = ClosingOne /\ PollAt' = PollAt
            /\ WritesTo' = [WritesTo EXCEPT ![w] = 1]
        BY <3>1, WriterMoves DEF Index
      <3>4. C!WriteBegins(w)
        BY <1>1, <2>1, <2>2, <3>2, <3>3 DEF C!WriteBegins
      <3> QED BY <3>4 DEF C!Next
    <2>4. CASE ~Connected
      <3>1. pc' = [pc EXCEPT ![w] = "idle"]
        BY <1>4, <2>4 DEF WriteBegin, Await
      <3>2. /\ EntryState' = EntryState /\ ClosingOne' = ClosingOne /\ PollAt' = PollAt
            /\ WritesTo' = [WritesTo EXCEPT ![w] = 0]
        BY <3>1, WriterMoves, ZenonT(60) DEF Index
      <3>3. WritesTo' = WritesTo
        BY <1>1, <2>1, <3>2 DEF WritesTo
      <3> QED BY <2>1, <2>2, <3>2, <3>3 DEF C!vars
    <2> QED BY <2>3, <2>4
  <1>5. CASE WriteSends(w)
    <2>1. CASE iv # None /\ CanSend
      <3>1. pc' = [pc EXCEPT ![w] = "ack"] /\ pc[w] = "locked"
            /\ conn' = conn /\ encrypted' = encrypted /\ UNCHANGED <<attempt, result, active>>
        BY <1>5, <2>1 DEF WriteSends, Send, Continue
      <3>2. /\ EntryState' = EntryState /\ ClosingOne' = ClosingOne /\ PollAt' = PollAt
            /\ WritesTo' = [WritesTo EXCEPT ![w] = 1] /\ Link' = Link /\ Results
        BY <3>1, WriterMoves, LinkMoves DEF Index, ActiveOne, Outcome
      <3>3. WritesTo' = WritesTo
        BY <1>1, <3>1, <3>2 DEF WritesTo
      <3> QED BY <3>1, <3>2, <3>3 DEF C!vars
    <2>2. CASE ~(iv # None /\ CanSend)
      BY <1>3, <1>5, <2>2 DEF WriteSends
    <2> QED BY <2>1, <2>2
  <1>6. CASE WriteAcked(w)
    BY <1>2, <1>6 DEF WriteAcked, ReleaseAndEnd
  <1>7. CASE WriteUnanswered(w)
    BY <1>3, <1>7 DEF WriteUnanswered
  <1> QED BY <1>4, <1>5, <1>6, <1>7

\* The unloading, as the coordinator sees it.
LEMMA UnloadMaps ==
    ASSUME TypeOK, UnloadBegin \/ UnloadOver
    PROVE  Mapped
  <1> USE DEF Runs, Mapped, Results, C!progress, C!outcome
  <1>1. Unload \in Tasks /\ Unload # Poll /\ Unload \notin Writers
    BY ConstantsAssumption
  <1>2. ASSUME NEW p, pc' = [pc EXCEPT ![Unload] = p]
        PROVE  pc'[Unload] = p /\ PollAt' = PollAt /\ WritesTo' = WritesTo
    <2>1. pc'[Unload] = p /\ pc'[Poll] = pc[Poll] /\ \A w \in Writers : pc'[w] = pc[w]
      BY <1>1, <1>2 DEF TypeOK
    <2>2. WritesTo' = WritesTo
      BY <2>1 DEF WritesTo
    <2> QED BY <2>1, <2>2 DEF PollAt
  <1>3. UNCHANGED <<attempt, result, active>> /\ Results
    BY DEF UnloadBegin, UnloadOver, Disconnect, ActiveOne, Outcome
  <1>4. CASE UnloadBegin /\ active
    <2>1. pc' = [pc EXCEPT ![Unload] = "closeU"] /\ conn' = conn /\ ~encrypted' /\ pc[Unload] = "begin"
      BY <1>4 DEF UnloadBegin, Disconnect, DropSession, Continue
    <2>2. Link' = IF Link = "up" THEN "stale" ELSE Link
      BY <2>1, LinkMoves
    <2>3. EntryState = "loaded" /\ EntryState' = "unloading" /\ ClosingOne' = 1 /\ ActiveOne = 1
      BY <1>2, <1>4, <2>1 DEF EntryState, ClosingOne, ActiveOne, Index
    <2>4. <<Link'>> = [<<Link>> EXCEPT ![ActiveOne] = IF <<Link>>[ActiveOne] = "up" THEN "stale" ELSE <<Link>>[ActiveOne]]
      BY <2>2, <2>3
    <2>5. C!Drops(ActiveOne)
      BY <2>4 DEF C!Drops, C!Stale
    <2>6. UNCHANGED <<PollAt, attempt, ActiveOne, Outcome, WritesTo>>
      BY <1>2, <1>3, <2>1
    <2>7. C!UnloadBegins
      BY <2>3, <2>5, <2>6 DEF C!UnloadBegins
    <2> QED BY <2>7 DEF C!Next
  <1>5. CASE UnloadBegin /\ ~active
    <2>1. /\ pc' = [pc EXCEPT ![Unload] = "done"] /\ pc[Unload] = "begin"
          /\ conn' = conn /\ encrypted' = encrypted
      BY <1>5 DEF UnloadBegin, Await
    <2>2. Link' = Link
      BY <2>1, LinkMoves
    <2>3. EntryState = "loaded" /\ EntryState' = "unloaded" /\ ClosingOne' = ClosingOne /\ ActiveOne = 0
      BY <1>2, <1>5, <2>1 DEF EntryState, ClosingOne, ActiveOne, Index
    <2> QED BY <1>2, <1>3, <2>1, <2>2, <2>3 DEF C!UnloadBegins, C!Next
  <1>6. CASE UnloadOver
    <2>1. pc' = [pc EXCEPT ![Unload] = "done"] /\ pc[Unload] = "closeU"
      BY <1>6 DEF UnloadOver, Finish, Await
    <2>2. Link' = "none"
      BY <1>6, LinkMoves DEF UnloadOver, LetGo
    <2>3. EntryState = "unloading" /\ EntryState' = "unloaded" /\ ClosingOne' = 0 /\ ClosingOne = 1
      BY <1>2, <2>1 DEF EntryState, ClosingOne, Index
    <2>4. <<Link'>> = [<<Link>> EXCEPT ![ClosingOne] = "none"]
      BY <2>2, <2>3
    <2>5. C!UnloadEnds
      BY <1>2, <1>3, <2>1, <2>3, <2>4 DEF C!UnloadEnds
    <2> QED BY <2>5 DEF C!Next
  <1> QED BY <1>4, <1>5, <1>6

\* The coordinator sees neither the network nor who waits to be resumed; of
\* Home Assistant it sees the polls begin.
LEMMA OutsideMaps ==
    ASSUME TypeOK, LockDiscipline, ReaderInv,
           ConnectionLost \/ (\E t \in Tasks : RecvBlocks(t)) \/ Environment
    PROVE  Mapped
  <1> USE DEF Mapped, C!progress, C!outcome
  <1>1. ASSUME pc' = pc, UNCHANGED <<conn, encrypted, attempt, result, active>> PROVE Mapped
    <2>1. Link' = Link /\ EntryState' = EntryState /\ PollAt' = PollAt /\ ClosingOne' = ClosingOne
          /\ ActiveOne' = ActiveOne /\ Outcome' = Outcome /\ WritesTo' = WritesTo
      BY <1>1, LinkMoves DEF EntryState, PollAt, ClosingOne, ActiveOne, Outcome, WritesTo
    <2> QED BY <1>1, <2>1 DEF C!vars
  <1>2. CASE ConnectionLost
    BY <1>1, <1>2 DEF ConnectionLost
  <1>3. ASSUME NEW t \in Tasks, RecvBlocks(t) PROVE Mapped
    <2>1. pc' = pc
      BY <1>3 DEF RecvBlocks, Runs, Await, TypeOK
    <2> QED BY <1>1, <1>3, <2>1 DEF RecvBlocks
  <1>4. CASE PollStart
    <2>1. /\ pc' = [pc EXCEPT ![Poll] = "begin"] /\ pc[Poll] = "idle" /\ attempt' = 1 /\ result' = "none"
          /\ active' = active /\ conn' = conn /\ encrypted' = encrypted
          /\ pc[Unload] = "idle" \/ (pc[Unload] = "setup" /\ result = "none")
      BY <1>4 DEF PollStart, Start
    <2>2. /\ PollAt = "idle" /\ PollAt' = "check" /\ Others /\ Link' = Link
          /\ ActiveOne' = ActiveOne /\ Outcome' = "none"
      BY <2>1, PollMoves, PollPlaces, LinkMoves DEF ActiveOne, Outcome
    <2>3. EntryState = "loaded" \/ (EntryState = "setup" /\ Outcome = "none")
      BY <2>1 DEF EntryState, Outcome
    <2> QED BY <2>1, <2>2, <2>3 DEF C!PollStart, C!Next, Others
  <1>5. CASE UnloadStart
    <2>1. /\ Unload # Poll /\ Unload \notin Writers /\ pc[Unload] = "idle" /\ pc'[Unload] = "begin"
          /\ pc'[Poll] = pc[Poll] /\ \A w \in Writers : pc'[w] = pc[w]
          /\ UNCHANGED <<conn, encrypted, attempt, result, active>>
      BY <1>5, ConstantsAssumption DEF UnloadStart, Start, TypeOK
    <2>2. EntryState' = EntryState /\ PollAt' = PollAt /\ ClosingOne' = ClosingOne
      BY <2>1 DEF EntryState, PollAt, ClosingOne
    <2>3. WritesTo' = WritesTo
      BY <2>1 DEF WritesTo
    <2>4. Link' = Link /\ ActiveOne' = ActiveOne /\ Outcome' = Outcome
      BY <2>1, LinkMoves DEF ActiveOne, Outcome
    <2> QED BY <2>1, <2>2, <2>3, <2>4 DEF C!vars
  <1>6. ASSUME NEW w \in Writers, WriteStart(w) PROVE Mapped
    <2>1. /\ pc' = [pc EXCEPT ![w] = "begin"] /\ pc[w] = "idle"
          /\ UNCHANGED <<conn, encrypted, attempt, result, active>>
      BY <1>6 DEF WriteStart, Start
    <2>2. /\ EntryState' = EntryState /\ ClosingOne' = ClosingOne /\ PollAt' = PollAt
          /\ WritesTo' = [WritesTo EXCEPT ![w] = 0]
      BY <2>1, WriterMoves, ZenonT(60) DEF Index
    <2>3. WritesTo' = WritesTo
      BY <2>1, <2>2 DEF WritesTo, Index
    <2>4. Link' = Link /\ ActiveOne' = ActiveOne /\ Outcome' = Outcome
      BY <2>1, LinkMoves DEF ActiveOne, Outcome
    <2> QED BY <2>1, <2>2, <2>3, <2>4 DEF C!vars
  <1>7. CASE Cancel \/ OpenSucceeds \/ \E t \in Tasks : Timer(t)
    BY <1>1, <1>7 DEF Cancel, OpenSucceeds, Timer
  <1>8. ASSUME NEW c \in Conns, Answer(c) \/ NeverAnswers(c) \/ PeerCloses(c) PROVE Mapped
    BY <1>1, <1>8 DEF Answer, NeverAnswers, PeerCloses
  <1> QED BY <1>2, <1>3, <1>4, <1>5, <1>6, <1>7, <1>8 DEF Environment

-----------------------------------------------------------------------------
(* The theorem.                                                              *)

\* Whatever the device, the network and Home Assistant do, and however poll,
\* writes and unloading interleave at their awaits, TCP does to the entry only
\* what the coordinator is specified to see of a transport: what Coordinator_proof
\* shows of any number of transports holds of this one.
THEOREM TcpImplements == Spec => StepsImplementCoordinator
  <1>1. Init => C!Init
    <2> SUFFICES ASSUME Init PROVE C!Init
      OBVIOUS
    <2>1. /\ pc[Unload] = "setup" /\ pc[Poll] = "idle" /\ \A w \in Writers : pc[w] = "idle"
          /\ conn = None /\ attempt = 1 /\ ~active /\ result = "none"
      BY ConstantsAssumption DEF Init
    <2>2. Link = "none" /\ EntryState = "setup" /\ ClosingOne = 0 /\ PollAt = "idle" /\ ActiveOne = 0
          /\ Outcome = "none"
      <3>1. Link = "none" /\ ActiveOne = 0 /\ Outcome = "none"
        BY <2>1 DEF Link, Connected, ActiveOne, Outcome, Index
      <3>2. EntryState = "setup" /\ ClosingOne = 0
        BY <2>1 DEF EntryState, ClosingOne, Index
      <3>3. PollAt = "idle"
        BY <2>1, PollPlaces
      <3> QED BY <3>1, <3>2, <3>3
    <2>3. WritesTo = [w \in Writers |-> 0]
      BY <2>1 DEF WritesTo, Index
    <2>4. <<Link>> = [t \in C!Transports |-> "none"]
      BY <2>2 DEF C!Transports
    <2> QED BY <2>1, <2>2, <2>3, <2>4 DEF C!Init
  <1>2. TypeOK /\ LockDiscipline /\ SessionInv /\ ReaderInv /\ QueueInv /\ [Next]_vars => [C!Next]_C!vars
    <2> SUFFICES ASSUME TypeOK, LockDiscipline, SessionInv, ReaderInv, QueueInv, [Next]_vars PROVE Mapped
      BY DEF Mapped
    <2>1. CASE LoopStep
      BY <2>1, ConnectMaps, ReadMaps, AttemptMaps, WriteMaps, UnloadMaps, OutsideMaps DEF LoopStep
    <2>2. CASE Environment
      BY <2>2, OutsideMaps
    <2>3. CASE UNCHANGED vars
      BY <2>3 DEF vars, Mapped, C!vars, C!progress, C!outcome, Link, Connected, EntryState, PollAt,
                  ClosingOne, ActiveOne, Outcome, WritesTo
    <2> QED BY <2>1, <2>2, <2>3 DEF Next
  <1> QED BY <1>1, <1>2, TypeAndLock, SessionIsSafe, ReadersAreSafe, QueueIsSafe, PTL
      DEF Spec, StepsImplementCoordinator, C!Spec
=============================================================================
