-------------------------- MODULE Coordinator_proof --------------------------
(* What Coordinator promises holds for any number of transports and writers. *)
EXTENDS Coordinator, TLAPS

\* While a poll runs, it has no result yet: nothing it or others do meanwhile is
\* measured against what an earlier poll came to.
NoResultYet == at # "idle" => result = "none"

\* connect() is under way on a transport without a session; only its return makes one.
NoneWhileConnecting == at = "connect" => link[turn] # "up"

Inv == /\ TypeOK /\ FallbackInOrder /\ UpdateFailedMeansDown /\ NoResultYet
       /\ NoneWhileConnecting /\ EscapeLeavesNoSession

\* Nobody's link or session begins: the steps that only drop or keep them.
NoLinkBegins == \A t \in Transports : link[t] = "none" => link'[t] = "none"
NoSessionBegins == \A t \in Transports : link'[t] = "up" => link[t] = "up"

\* A dropped session may leave a link, and never begins one.
LEMMA DropsBeginsNone ==
    ASSUME TypeOK, NEW u \in Transports, Drops(u)
    PROVE  /\ link' \in [Transports -> {"none", "stale", "up"}]
           /\ NoLinkBegins /\ NoSessionBegins
BY DEF TypeOK, Drops, Stale, NoLinkBegins, NoSessionBegins

\* The type invariant is preserved by every step.
LEMMA TypeStep ==
    ASSUME TypeOK, [Next]_vars
    PROVE  TypeOK'
<1> USE TransportsAssumption DEF TypeOK, Transports
<1>1. CASE PollStart BY <1>1 DEF PollStart
<1>2. CASE CheckConnected BY <1>2 DEF CheckConnected, progress, outcome
<1>3. CASE Dial BY <1>3 DEF Dial, Dialled, progress, outcome
<1>4. CASE ConnectReturns BY <1>4 DEF ConnectReturns, progress, outcome
<1>5. CASE ConnectFails BY <1>5 DEF ConnectFails, progress, outcome
<1>6. CASE ConnectEscapes BY <1>6 DEF ConnectEscapes, progress
<1>7. CASE ReadReturns BY <1>7 DEF ReadReturns, progress
<1>8. CASE ReadFails BY <1>8, DropsBeginsNone DEF ReadFails, progress, outcome
<1>9. CASE HangingUp BY <1>9, DropsBeginsNone DEF HangingUp, progress, outcome
<1>10. CASE HungUp
  <2>1. link' \in [Transports -> {"none", "stale", "up"}] BY <1>10 DEF HungUp, LetsGo
  <2>2. at' \in {"check", "idle"} /\ turn' \in Transports /\ attempt' \in {1, 2}
    BY <1>10 DEF HungUp, LastAttempt, NextAttempt, progress, outcome
  <2>3. active' \in 0..N /\ result' \in {"none", "ok", "failed", "escaped", "cancelled"}
    BY <1>10 DEF HungUp, progress, outcome
  <2>4. UNCHANGED <<entry, closing, busy>> BY <1>10 DEF HungUp
  <2> QED BY <2>1, <2>2, <2>3, <2>4
<1>11. CASE Cancelled BY <1>11, DropsBeginsNone DEF Cancelled, progress
<1>12. CASE UnloadBegins BY <1>12, DropsBeginsNone DEF UnloadBegins, progress, outcome
<1>13. CASE UnloadEnds
  <2>1. link' \in [Transports -> {"none", "stale", "up"}] BY <1>13 DEF UnloadEnds
  <2>2. entry' = "unloaded" /\ closing' = 0 BY <1>13 DEF UnloadEnds
  <2>3. UNCHANGED <<at, turn, attempt, active, result, busy>>
    BY <1>13 DEF UnloadEnds, progress, outcome
  <2> QED BY <2>1, <2>2, <2>3
<1>14. CASE \E w \in Writers : WriteBegins(w) BY <1>14 DEF WriteBegins, progress, outcome
<1>15. CASE \E w \in Writers : WriteReturns(w)
  <2> PICK w \in Writers : WriteReturns(w) BY <1>15
  <2>1. link' \in [Transports -> {"none", "stale", "up"}]
    BY DropsBeginsNone DEF WriteReturns
  <2> QED BY <2>1 DEF WriteReturns, progress, outcome
<1>16. CASE UNCHANGED vars BY <1>16 DEF vars, progress, outcome
<1> QED BY <1>1, <1>2, <1>3, <1>4, <1>5, <1>6, <1>7, <1>8, <1>9, <1>10, <1>11, <1>12,
           <1>13, <1>14, <1>15, <1>16 DEF Next, PollStep

\* The steps that are not the poll's begin no link and no session, and leave the poll where it is.
LEMMA OthersBeginNone ==
    ASSUME TypeOK,
           UnloadBegins \/ UnloadEnds \/ (\E w \in Writers : WriteBegins(w) \/ WriteReturns(w))
    PROVE  NoLinkBegins /\ NoSessionBegins /\ UNCHANGED <<at, turn, attempt, active, result>>
<1> USE TransportsAssumption DEF Transports
<1>1. CASE UnloadBegins
  BY <1>1, DropsBeginsNone DEF UnloadBegins, NoLinkBegins, NoSessionBegins, TypeOK, progress, outcome
<1>2. CASE UnloadEnds BY <1>2 DEF UnloadEnds, NoLinkBegins, NoSessionBegins, TypeOK, progress, outcome
<1>3. CASE \E w \in Writers : WriteBegins(w)
  BY <1>3 DEF WriteBegins, NoLinkBegins, NoSessionBegins, progress, outcome
<1>4. CASE \E w \in Writers : WriteReturns(w)
  <2> PICK w \in Writers : WriteReturns(w) BY <1>4
  <2>1. busy[w] \in Transports BY DEF WriteReturns, TypeOK
  <2> QED BY <2>1, DropsBeginsNone DEF WriteReturns, NoLinkBegins, NoSessionBegins, progress, outcome
<1> QED BY <1>1, <1>2, <1>3, <1>4

\* What a step has to keep, beside the types.
Promised ==
    /\ FallbackInOrder' /\ UpdateFailedMeansDown' /\ NoResultYet'
    /\ NoneWhileConnecting' /\ EscapeLeavesNoSession'

\* While at most the transport whose turn it is gains a link, and the poll stays
\* under way, those before it stay without one.
LEMMA RunningStep ==
    ASSUME Inv, at # "idle", at' # "idle", UNCHANGED <<turn, active, result>>,
           \A t \in Transports : t # turn => (link[t] = "none" => link'[t] = "none"),
           at' = "connect" => link'[turn] # "up"
    PROVE  Promised
<1>1. result' = "none" BY DEF Inv, NoResultYet
<1>2. \A t \in Transports : t < turn' => link'[t] = "none"
  <2> TAKE t \in Transports
  <2> HAVE t < turn'
  <2>1. t < turn /\ t # turn BY TransportsAssumption DEF Inv, TypeOK, Transports
  <2> QED BY <2>1 DEF Inv, FallbackInOrder
<1> QED BY <1>1, <1>2 DEF Promised, FallbackInOrder, UpdateFailedMeansDown, NoResultYet,
                          NoneWhileConnecting, EscapeLeavesNoSession

\* A step that begins no link and no session and leaves the poll alone keeps what is
\* promised.
LEMMA OtherStep ==
    ASSUME Inv, NoLinkBegins, NoSessionBegins, UNCHANGED <<at, turn, active, result>>
    PROVE  Promised
<1>1. FallbackInOrder' /\ UpdateFailedMeansDown' /\ NoResultYet'
  BY DEF Inv, FallbackInOrder, UpdateFailedMeansDown, NoResultYet, NoLinkBegins
<1>2. NoneWhileConnecting' /\ EscapeLeavesNoSession'
  BY DEF Inv, TypeOK, NoneWhileConnecting, EscapeLeavesNoSession, NoSessionBegins
<1> QED BY <1>1, <1>2 DEF Promised

\* Hanging up moves the poll on, past a transport that holds nothing any more.
LEMMA HungUpStep ==
    ASSUME Inv, HungUp
    PROVE  Promised
<1> USE TransportsAssumption
<1>1. result = "none" /\ at = "hangup" BY DEF Inv, NoResultYet, HungUp
<1>2. \A t \in Transports : t <= turn => link'[t] = "none"
  <2> TAKE t \in Transports
  <2> HAVE t <= turn
  <2>1. link' = [link EXCEPT ![turn] = "none"] BY DEF HungUp, LetsGo
  <2>2. CASE t = turn BY <2>1, <2>2 DEF Inv, TypeOK
  <2>3. CASE t # turn
    <3>1. t < turn BY <2>3 DEF Inv, TypeOK, Transports
    <3>2. link[t] = "none" BY <1>1, <3>1 DEF Inv, FallbackInOrder
    <3> QED BY <2>1, <2>3, <3>2 DEF Inv, TypeOK
  <2> QED BY <2>2, <2>3
<1>3. CASE at' = "check" /\ turn' = turn /\ result' = result
  <2>1. \A t \in Transports : t < turn' => t <= turn
    BY <1>3 DEF Inv, TypeOK, Transports
  <2> QED BY <1>1, <1>2, <1>3, <2>1
        DEF Promised, FallbackInOrder, UpdateFailedMeansDown, NoResultYet,
            NoneWhileConnecting, EscapeLeavesNoSession
<1>4. CASE at' = "check" /\ turn' = turn + 1 /\ result' = result
  <2>1. \A t \in Transports : t < turn' => t <= turn
    BY <1>4 DEF Inv, TypeOK, Transports
  <2> QED BY <1>1, <1>2, <1>4, <2>1
        DEF Promised, FallbackInOrder, UpdateFailedMeansDown, NoResultYet,
            NoneWhileConnecting, EscapeLeavesNoSession
<1>5. CASE turn = N /\ at' = "idle" /\ active' = 0 /\ result' = "failed"
  <2>1. \A t \in Transports : t <= turn BY <1>5 DEF Transports
  <2> QED BY <1>2, <1>5, <2>1
        DEF Promised, FallbackInOrder, UpdateFailedMeansDown, NoResultYet,
            NoneWhileConnecting, EscapeLeavesNoSession
<1> QED BY <1>3, <1>4, <1>5 DEF HungUp, progress, outcome

\* What is promised is preserved by every step.
LEMMA SafetyStep ==
    ASSUME Inv, [Next]_vars
    PROVE  Promised
<1> USE TransportsAssumption
<1>1. CASE PollStart
  <2>1. \A t \in Transports : ~(t < 1) BY DEF Transports
  <2> QED BY <1>1, <2>1
        DEF PollStart, Promised, FallbackInOrder, UpdateFailedMeansDown, NoResultYet,
            NoneWhileConnecting, EscapeLeavesNoSession
<1>2. CASE CheckConnected
  BY <1>2, RunningStep DEF CheckConnected, progress, outcome
<1>3. CASE Dial BY <1>3, RunningStep DEF Dial, Dialled, progress, outcome, Inv, TypeOK
<1>4. CASE ConnectReturns
  BY <1>4, RunningStep DEF ConnectReturns, progress, outcome, Inv, TypeOK
<1>5. CASE ConnectFails
  BY <1>5, RunningStep DEF ConnectFails, progress, outcome, Inv, TypeOK
<1>6. CASE ConnectEscapes
  <2>1. \A t \in Transports : t <= turn => link[t] # "up"
    <3> TAKE t \in Transports
    <3> HAVE t <= turn
    <3>1. CASE t = turn BY <1>6, <3>1 DEF ConnectEscapes, Inv, NoneWhileConnecting
    <3>2. CASE t < turn BY <1>6, <3>2 DEF ConnectEscapes, Inv, FallbackInOrder
    <3> QED BY <3>1, <3>2 DEF Inv, TypeOK, Transports
  <2>2. UNCHANGED <<link, turn>> BY <1>6 DEF ConnectEscapes, progress
  <2> QED BY <1>6, <2>1, <2>2
        DEF ConnectEscapes, Promised, Inv, FallbackInOrder, UpdateFailedMeansDown, NoResultYet,
            NoneWhileConnecting, EscapeLeavesNoSession
<1>7. CASE ReadReturns
  BY <1>7 DEF ReadReturns, Promised, Inv, FallbackInOrder, UpdateFailedMeansDown, NoResultYet,
              NoneWhileConnecting, EscapeLeavesNoSession
<1>8. CASE ReadFails
  <2>1. NoLinkBegins BY <1>8, DropsBeginsNone DEF ReadFails, Inv, TypeOK
  <2> QED BY <1>8, <2>1, RunningStep DEF ReadFails, NoLinkBegins, progress, outcome
<1>9. CASE HangingUp
  <2>1. NoLinkBegins BY <1>9, DropsBeginsNone DEF HangingUp, Inv, TypeOK
  <2> QED BY <1>9, <2>1, RunningStep DEF HangingUp, NoLinkBegins, progress, outcome
<1>10. CASE HungUp BY <1>10, HungUpStep
<1>11. CASE Cancelled
  <2>1. NoLinkBegins
    BY <1>11, DropsBeginsNone DEF Cancelled, NoLinkBegins, Inv, TypeOK
  <2>2. turn' = turn BY <1>11 DEF Cancelled, progress
  <2> QED BY <1>11, <2>1, <2>2
        DEF Cancelled, Promised, Inv, FallbackInOrder, UpdateFailedMeansDown, NoResultYet,
            NoLinkBegins, NoneWhileConnecting, EscapeLeavesNoSession
<1>12. CASE UnloadBegins \/ UnloadEnds \/ (\E w \in Writers : WriteBegins(w) \/ WriteReturns(w))
  BY <1>12, OthersBeginNone, OtherStep DEF Inv
<1>13. CASE UNCHANGED vars
  BY <1>13, OtherStep DEF vars, progress, outcome, NoLinkBegins, NoSessionBegins
<1> QED BY <1>1, <1>2, <1>3, <1>4, <1>5, <1>6, <1>7, <1>8, <1>9, <1>10, <1>11, <1>12, <1>13
       DEF Next, PollStep

\* The invariant holds from the start.
LEMMA InitInv == Init => Inv
BY TransportsAssumption
   DEF Init, Inv, TypeOK, FallbackInOrder, UpdateFailedMeansDown, NoResultYet, Transports,
       NoneWhileConnecting, EscapeLeavesNoSession

\* Every reachable state satisfies the invariant.
LEMMA Invariance == Spec => []Inv
<1>1. Inv /\ [Next]_vars => Inv' BY TypeStep, SafetyStep DEF Inv, Promised
<1> QED BY InitInv, <1>1, PTL DEF Spec

\* The coordinator's state keeps its type, for any number of transports and
\* writers: `attempt` counts to two, `turn` and `active` name transports it has.
THEOREM TypeCorrect == Spec => []TypeOK
<1>1. Inv => TypeOK BY DEF Inv
<1> QED BY <1>1, Invariance, PTL

\* However many transports there are, one is tried, or active, only while those
\* before it hold no link, and so too where an exception or a cancellation ends the
\* poll (the loop of _async_update_data).
THEOREM FallsBackInOrder == Spec => []FallbackInOrder
<1>1. Inv => FallbackInOrder BY DEF Inv
<1> QED BY <1>1, Invariance, PTL

\* After UpdateFailed no transport holds a link and none is active.
THEOREM FailureMeansDown == Spec => []UpdateFailedMeansDown
<1>1. Inv => UpdateFailedMeansDown BY DEF Inv
<1> QED BY <1>1, Invariance, PTL

\* A poll that left connect() with an exception of another kind leaves no session on
\* any transport it has tried, for as long as no other poll has begun.
THEOREM EscapesWithoutSession == Spec => []EscapeLeavesNoSession
<1>1. Inv => EscapeLeavesNoSession BY DEF Inv
<1> QED BY <1>1, Invariance, PTL
=============================================================================
