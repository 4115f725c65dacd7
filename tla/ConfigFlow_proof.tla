-------------------------- MODULE ConfigFlow_proof --------------------------
(* The invariants of the wizard, for any number of flows open at once, any    *)
(* devices, accounts and generations of keys.                                 *)
EXTENDS ConfigFlow, TLAPS

\* A flow that has not chosen what it talks to has neither host nor address, and
\* none ever has both.
Undecided == {"new", "user", "manual_host", "manual_mac"}
ChoicesAgree ==
    \A f \in Flows :
        /\ step[f] \in Undecided => host[f] = None /\ mac[f] = None
        /\ host[f] = None \/ mac[f] = None

\* What a flow has of its account as long as it asks it for a key.
LoggedIn ==
    \A f \in Flows :
        /\ step[f] \in {"list", "pick", "key"} => account[f] \in Accounts
        /\ step[f] = "pick" => offered[f] \subseteq Owned[account[f]]

\* The second call follows a failed one.
FirstCalls == ~failed => \A f \in Flows : step[f] = "key" => try[f] = 1

\* Home Assistant lets one flow or entry have a unique id.
Lives(f) == step[f] \notin Over \/ entry[f] # None
OneLives ==
    \A f, g \in Flows : uid[f] # None /\ uid[f] = uid[g] /\ Lives(f) /\ Lives(g) => f = g

\* A step of one flow.
FlowStep(f) ==
    \/ UserStarts(f) \/ UserSelects(f) \/ ManualHost(f) \/ ManualMac(f) \/ Bluetooth(f)
    \/ AuthMethod(f) \/ ManualKey(f) \/ Credentials(f) \/ CloudLogin(f)
    \/ FetchDevices(f) \/ ListFails(f) \/ PickCloudDevice(f)
    \/ FetchAuthKey(f) \/ FetchFails(f) \/ Abandon(f)

USE ConfigAssumption

\* The parts of the type invariant that the steps change.
LEMMA ChoicesType ==
    TypeOK <=>
    /\ step \in [Flows -> {"new"} \cup Forms \cup Calls \cup Over]
    /\ host \in [Flows -> DeviceOrNone] /\ mac \in [Flows -> DeviceOrNone]
    /\ uid \in [Flows -> DeviceOrNone] /\ device \in [Flows -> DeviceOrNone]
    /\ account \in [Flows -> Accounts \cup {None}]
    /\ offered \in [Flows -> SUBSET Devices]
    /\ try \in [Flows -> {1, 2}]
    /\ entry \in [Flows -> Entry \cup {None}]
    /\ version \in [Devices -> 0..MaxVersion] /\ failed \in BOOLEAN
  BY DEF TypeOK

\* The same of the step after.
LEMMA ChoicesTypeNext ==
    TypeOK' <=>
    /\ step' \in [Flows -> {"new"} \cup Forms \cup Calls \cup Over]
    /\ host' \in [Flows -> DeviceOrNone] /\ mac' \in [Flows -> DeviceOrNone]
    /\ uid' \in [Flows -> DeviceOrNone] /\ device' \in [Flows -> DeviceOrNone]
    /\ account' \in [Flows -> Accounts \cup {None}]
    /\ offered' \in [Flows -> SUBSET Devices]
    /\ try' \in [Flows -> {1, 2}]
    /\ entry' \in [Flows -> Entry \cup {None}]
    /\ version' \in [Devices -> 0..MaxVersion] /\ failed' \in BOOLEAN
  BY DEF TypeOK

\* An entry made of what a flow holds is an entry.
LEMMA EntryType ==
    ASSUME TypeOK, NEW f \in Flows, NEW key \in KeyOrNone, CreateEntry(f, key)
    PROVE  entry' \in [Flows -> Entry \cup {None}]
  <1>1. host[f] \in DeviceOrNone /\ mac[f] \in DeviceOrNone /\ device[f] \in DeviceOrNone
    BY ChoicesType
  <1>2. Preferred(f) \in {"tcp", "ble"}
    BY DEF Preferred
  <1>3. [host |-> host[f], mac |-> mac[f], key |-> key, preferred |-> Preferred(f),
         device |-> device[f]] \in Entry
    BY <1>1, <1>2 DEF Entry
  <1>4. entry \in [Flows -> Entry \cup {None}]
    BY ChoicesType
  <1> QED BY <1>3, <1>4 DEF CreateEntry

\* Regenerating a key keeps generations within their bound.
LEMMA VersionType ==
    ASSUME TypeOK, NEW d, Rotates(d) \/ UNCHANGED version
    PROVE  version' \in [Devices -> 0..MaxVersion]
  <1>1. version \in [Devices -> 0..MaxVersion]
    BY ChoicesType
  <1>2. CASE Rotates(d) /\ d \in Devices
    <2>1. version[d] + 1 \in 0..MaxVersion
      BY <1>1, <1>2 DEF Rotates
    <2> QED BY <1>1, <1>2, <2>1 DEF Rotates
  <1>3. CASE Rotates(d) /\ d \notin Devices
    BY <1>1, <1>3 DEF Rotates
  <1>4. CASE UNCHANGED version
    BY <1>1, <1>4
  <1> QED BY <1>2, <1>3, <1>4

\* A flow that walks from form to form keeps types.
LEMMA FormsType ==
    ASSUME TypeOK, NEW f \in Flows,
           UserStarts(f) \/ UserSelects(f) \/ ManualHost(f) \/ ManualMac(f) \/ Bluetooth(f)
           \/ AuthMethod(f) \/ Credentials(f) \/ Abandon(f)
    PROVE  TypeOK'
  <1> USE DEF Goes, Forms, Calls, Over, DeviceOrNone, choices, cloud
  <1>1. CASE UserStarts(f) \/ AuthMethod(f) \/ Credentials(f) \/ Abandon(f)
    BY <1>1, ChoicesType, ChoicesTypeNext DEF UserStarts, AuthMethod, Credentials, Abandon
  <1>2. CASE UserSelects(f)
    BY <1>2, ChoicesType, ChoicesTypeNext DEF UserSelects
  <1>3. CASE ManualHost(f)
    BY <1>3, ChoicesType, ChoicesTypeNext DEF ManualHost
  <1>4. CASE ManualMac(f)
    BY <1>4, ChoicesType, ChoicesTypeNext DEF ManualMac
  <1>5. CASE Bluetooth(f)
    BY <1>5, ChoicesType, ChoicesTypeNext DEF Bluetooth
  <1> QED BY <1>1, <1>2, <1>3, <1>4, <1>5

\* A round with an account, up to its device, keeps types.
LEMMA RoundType ==
    ASSUME TypeOK, LoggedIn, NEW f \in Flows,
           CloudLogin(f) \/ FetchDevices(f) \/ ListFails(f) \/ PickCloudDevice(f)
    PROVE  TypeOK'
  <1> USE DEF Goes, Forms, Calls, Over, DeviceOrNone, choices, cloud
  <1>1. CASE CloudLogin(f)
    BY <1>1, ChoicesType, ChoicesTypeNext DEF CloudLogin
  <1>2. CASE FetchDevices(f)
    <2>1. account[f] \in Accounts
      BY <1>2 DEF FetchDevices, LoggedIn
    <2>2. PICK devices \in SUBSET Devices :
            \/ devices = {} /\ Goes(f, "list", "credentials") /\ UNCHANGED <<offered, device, try>>
            \/ /\ Goes(f, "list", "key") /\ \E d \in devices : Selects(f, d)
               /\ try' = [try EXCEPT ![f] = 1] /\ UNCHANGED offered
            \/ /\ Goes(f, "list", "pick")
               /\ offered' = [offered EXCEPT ![f] = devices] /\ UNCHANGED <<device, try>>
      BY <1>2, <2>1 DEF FetchDevices
    <2> QED BY <1>2, <2>2, ChoicesType, ChoicesTypeNext DEF FetchDevices, Selects
  <1>3. CASE ListFails(f)
    BY <1>3, ChoicesType, ChoicesTypeNext DEF ListFails
  <1>4. CASE PickCloudDevice(f)
    BY <1>4, ChoicesType, ChoicesTypeNext DEF PickCloudDevice, Selects
  <1> QED BY <1>1, <1>2, <1>3, <1>4

\* The making of an entry, and the calls for its key, keep types.
LEMMA KeyType ==
    ASSUME TypeOK, LoggedIn, NEW f \in Flows, ManualKey(f) \/ FetchAuthKey(f) \/ FetchFails(f)
    PROVE  TypeOK'
  <1> USE DEF Goes, Forms, Calls, Over, choices, cloud
  <1>1. CASE ManualKey(f)
    <2>1. entry' \in [Flows -> Entry \cup {None}]
      BY <1>1, EntryType DEF ManualKey, KeyOrNone
    <2> QED BY <1>1, <2>1, ChoicesType, ChoicesTypeNext DEF ManualKey
  <1>2. CASE FetchAuthKey(f)
    <2>1. account[f] \in Accounts
      BY <1>2 DEF FetchAuthKey, LoggedIn
    <2>2. device[f] \in Devices
      BY <1>2, <2>1 DEF FetchAuthKey
    <2>3. version' \in [Devices -> 0..MaxVersion]
      BY <1>2, VersionType DEF FetchAuthKey
    <2>4. [device |-> device[f], version |-> version'[device[f]]] \in KeyOrNone
      BY <2>2, <2>3 DEF KeyOrNone
    <2>5. entry' \in [Flows -> Entry \cup {None}]
      BY <1>2, <2>4, EntryType DEF FetchAuthKey
    <2> QED BY <1>2, <2>3, <2>5, ChoicesType, ChoicesTypeNext DEF FetchAuthKey
  <1>3. CASE FetchFails(f)
    <2>1. version' \in [Devices -> 0..MaxVersion]
      BY <1>3, VersionType DEF FetchFails
    <2>2. try' \in [Flows -> {1, 2}]
      BY <1>3, ChoicesType DEF FetchFails, LastCall
    <2> QED BY <1>3, <2>1, <2>2, ChoicesType, ChoicesTypeNext DEF FetchFails
  <1> QED BY <1>1, <1>2, <1>3


\* A flow asks the account it is logged into, and offers what that has bound.
LEMMA LoggedInStep ==
    ASSUME TypeOK, LoggedIn, Next
    PROVE  LoggedIn'
  <1> USE DEF Goes, choices, cloud
  <1>1. PICK f \in Flows : FlowStep(f)
    BY DEF Next, FlowStep
  <1>2. /\ step \in [Flows -> {"new"} \cup Forms \cup Calls \cup Over]
        /\ account \in [Flows -> Accounts \cup {None}] /\ offered \in [Flows -> SUBSET Devices]
    BY ChoicesType
  <1>3. CASE UserStarts(f) \/ UserSelects(f) \/ ManualHost(f) \/ ManualMac(f) \/ Bluetooth(f)
    BY <1>2, <1>3 DEF UserStarts, UserSelects, ManualHost, ManualMac, Bluetooth, LoggedIn
  <1>4. CASE AuthMethod(f) \/ ManualKey(f) \/ Credentials(f) \/ ListFails(f) \/ Abandon(f)
    BY <1>2, <1>4 DEF AuthMethod, ManualKey, Credentials, ListFails, Abandon, Forms, LoggedIn
  <1>5. CASE CloudLogin(f)
    BY <1>2, <1>5 DEF CloudLogin, LoggedIn
  <1>6. CASE FetchDevices(f)
    BY <1>2, <1>6 DEF FetchDevices, LoggedIn
  <1>7. CASE PickCloudDevice(f)
    BY <1>2, <1>7 DEF PickCloudDevice, LoggedIn
  <1>8. CASE FetchAuthKey(f) \/ FetchFails(f)
    BY <1>2, <1>8 DEF FetchAuthKey, FetchFails, LoggedIn
  <1> QED BY <1>1, <1>3, <1>4, <1>5, <1>6, <1>7, <1>8 DEF FlowStep

\* The types and the accounts are an inductive invariant.
LEMMA TypesAreSafe == Spec => [](TypeOK /\ LoggedIn)
  <1>1. Init => TypeOK /\ LoggedIn
    <2> SUFFICES ASSUME Init PROVE TypeOK /\ LoggedIn
      OBVIOUS
    <2>1. TypeOK
      <3>1. version \in [Devices -> 0..MaxVersion]
        BY DEF Init
      <3>2. failed \in BOOLEAN
        BY DEF Init
      <3>3. entry \in [Flows -> Entry \cup {None}] /\ offered \in [Flows -> SUBSET Devices]
        BY DEF Init
      <3>4. step \in [Flows -> {"new"} \cup Forms \cup Calls \cup Over] /\ try \in [Flows -> {1, 2}]
        BY DEF Init
      <3> QED BY <3>1, <3>2, <3>3, <3>4, ChoicesType DEF Init, DeviceOrNone
    <2>2. LoggedIn
      BY DEF Init, LoggedIn
    <2> QED BY <2>1, <2>2
  <1>2. TypeOK /\ LoggedIn /\ [Next]_vars => (TypeOK /\ LoggedIn)'
    <2> SUFFICES ASSUME TypeOK, LoggedIn, [Next]_vars PROVE (TypeOK /\ LoggedIn)'
      OBVIOUS
    <2>1. CASE Next
      BY <2>1, FormsType, RoundType, KeyType, LoggedInStep DEF Next
    <2>2. CASE UNCHANGED vars
      BY <2>2, ChoicesType, ChoicesTypeNext DEF LoggedIn, vars, choices, cloud
    <2> QED BY <2>1, <2>2
  <1> QED BY <1>1, <1>2, PTL DEF Spec

\* Flows, entries and cloud keep their types, for any number of flows.
THEOREM TypeCorrect == Spec => []TypeOK
  BY TypesAreSafe, PTL

-----------------------------------------------------------------------------
(* An entry has one transport.                                                *)

\* A flow has chosen at most one of host and address, and none before it chooses.
LEMMA ChoicesAgreeStep ==
    ASSUME TypeOK, ChoicesAgree, NEW f \in Flows, FlowStep(f)
    PROVE  ChoicesAgree'
  <1> USE DEF Goes, choices, cloud, Undecided
  <1>1. /\ step \in [Flows -> {"new"} \cup Forms \cup Calls \cup Over]
        /\ host \in [Flows -> DeviceOrNone] /\ mac \in [Flows -> DeviceOrNone]
    BY ChoicesType
  <1>2. CASE UserStarts(f) \/ UserSelects(f)
    BY <1>1, <1>2 DEF UserStarts, UserSelects, ChoicesAgree
  <1>3. CASE ManualHost(f)
    BY <1>1, <1>3 DEF ManualHost, ChoicesAgree
  <1>4. CASE ManualMac(f)
    BY <1>1, <1>4 DEF ManualMac, ChoicesAgree
  <1>5. CASE Bluetooth(f)
    BY <1>1, <1>5 DEF Bluetooth, ChoicesAgree
  <1>6. CASE AuthMethod(f) \/ ManualKey(f) \/ Credentials(f) \/ CloudLogin(f) \/ ListFails(f)
    BY <1>1, <1>6 DEF AuthMethod, ManualKey, Credentials, CloudLogin, ListFails, ChoicesAgree
  <1>7. CASE FetchDevices(f) \/ PickCloudDevice(f) \/ FetchAuthKey(f) \/ FetchFails(f) \/ Abandon(f)
    BY <1>1, <1>7 DEF FetchDevices, PickCloudDevice, FetchAuthKey, FetchFails, Abandon, ChoicesAgree
  <1> QED BY <1>2, <1>3, <1>4, <1>5, <1>6, <1>7 DEF FlowStep

\* So has the entry that a flow makes, and it prefers what it has.
LEMMA NoFallbackStep ==
    ASSUME TypeOK, ChoicesAgree, NoFallback, NEW f \in Flows,
           entry' = entry \/ \E key : CreateEntry(f, key)
    PROVE  NoFallback'
  <1>1. entry \in [Flows -> Entry \cup {None}]
    BY ChoicesType
  <1>2. CASE entry' = entry
    BY <1>2 DEF NoFallback, Entries
  <1>3. ASSUME NEW key, CreateEntry(f, key) PROVE NoFallback'
    <2>1. /\ entry'[f].host = host[f] /\ entry'[f].mac = mac[f] /\ entry'[f].preferred = Preferred(f)
          /\ \A g \in Flows \ {f} : entry'[g] = entry[g]
      BY <1>1, <1>3 DEF CreateEntry
    <2>2. host[f] = None \/ mac[f] = None
      BY DEF ChoicesAgree
    <2> QED BY <2>1, <2>2 DEF NoFallback, Entries, Preferred
  <1> QED BY <1>2, <1>3

\* However many flows are open, an entry that the wizard makes has at most one of
\* host and address, and prefers TCP exactly if it has a host: never both, so never
\* a transport to fall back to, and possibly neither.
THEOREM NoEntryHasFallback == Spec => []NoFallback
  <1>1. Init => ChoicesAgree /\ NoFallback
    BY DEF Init, ChoicesAgree, NoFallback, Entries
  <1>2. TypeOK /\ ChoicesAgree /\ NoFallback /\ [Next]_vars => (ChoicesAgree /\ NoFallback)'
    <2> SUFFICES ASSUME TypeOK, ChoicesAgree, NoFallback, [Next]_vars
                 PROVE  (ChoicesAgree /\ NoFallback)'
      OBVIOUS
    <2>1. CASE Next
      <3>1. ChoicesAgree'
        BY <2>1, ChoicesAgreeStep DEF Next, FlowStep
      <3>2. \E f \in Flows : entry' = entry \/ \E key : CreateEntry(f, key)
        BY <2>1 DEF Next, UserStarts, UserSelects, ManualHost, ManualMac, Bluetooth, AuthMethod,
                    ManualKey, Credentials, CloudLogin, FetchDevices, ListFails, PickCloudDevice,
                    FetchAuthKey, FetchFails, Abandon
      <3> QED BY <3>1, <3>2, NoFallbackStep
    <2>2. CASE UNCHANGED vars
      BY <2>2 DEF ChoicesAgree, NoFallback, Entries, vars, choices
    <2> QED BY <2>1, <2>2
  <1> QED BY <1>1, <1>2, TypeCorrect, PTL DEF Spec

-----------------------------------------------------------------------------
(* A key is asked of the account that has bound the device, and stays current. *)

\* With the account, a step keeps the device that the key is asked for.
LEMMA AsksStep ==
    ASSUME TypeOK, LoggedIn, AsksForOwnDevice, NEW f \in Flows, FlowStep(f)
    PROVE  AsksForOwnDevice'
  <1> USE DEF Goes, choices, cloud
  <1>1. /\ step \in [Flows -> {"new"} \cup Forms \cup Calls \cup Over]
        /\ device \in [Flows -> DeviceOrNone] /\ account \in [Flows -> Accounts \cup {None}]
    BY ChoicesType
  <1>2. CASE UserStarts(f) \/ UserSelects(f) \/ ManualHost(f) \/ ManualMac(f) \/ Bluetooth(f)
    BY <1>1, <1>2 DEF UserStarts, UserSelects, ManualHost, ManualMac, Bluetooth, AsksForOwnDevice
  <1>3. CASE AuthMethod(f) \/ ManualKey(f) \/ Credentials(f) \/ ListFails(f) \/ Abandon(f)
    BY <1>1, <1>3 DEF AuthMethod, ManualKey, Credentials, ListFails, Abandon, Forms, AsksForOwnDevice
  <1>4. CASE CloudLogin(f)
    BY <1>1, <1>4 DEF CloudLogin, AsksForOwnDevice
  <1>5. CASE FetchDevices(f)
    BY <1>1, <1>5 DEF FetchDevices, Selects, AsksForOwnDevice
  <1>6. CASE PickCloudDevice(f)
    <2>1. \A d \in offered[f] : d \in Owned[account[f]]
      BY <1>6 DEF PickCloudDevice, LoggedIn
    <2> QED BY <1>1, <1>6, <2>1 DEF PickCloudDevice, Selects, AsksForOwnDevice
  <1>7. CASE FetchAuthKey(f) \/ FetchFails(f)
    BY <1>1, <1>7 DEF FetchAuthKey, FetchFails, AsksForOwnDevice
  <1> QED BY <1>2, <1>3, <1>4, <1>5, <1>6, <1>7 DEF FlowStep

\* Through any number of failed rounds with any accounts, the key is asked of the
\* account logged into, for a device that it has bound.
THEOREM AsksOwner == Spec => []AsksForOwnDevice
  <1>1. Init => AsksForOwnDevice
    BY DEF Init, AsksForOwnDevice
  <1>2. TypeOK /\ LoggedIn /\ AsksForOwnDevice /\ [Next]_vars => AsksForOwnDevice'
    <2>1. TypeOK /\ LoggedIn /\ AsksForOwnDevice /\ Next => AsksForOwnDevice'
      BY AsksStep DEF Next, FlowStep
    <2>2. AsksForOwnDevice /\ UNCHANGED vars => AsksForOwnDevice'
      BY DEF AsksForOwnDevice, vars, choices, cloud
    <2> QED BY <2>1, <2>2
  <1> QED BY <1>1, <1>2, TypesAreSafe, PTL DEF Spec

\* As long as no call has failed, flows are in their first, and it changes no key.
LEMMA CurrentStep ==
    ASSUME TypeOK, LoggedIn, FirstCalls, KeysStayCurrent, NEW f \in Flows, FlowStep(f)
    PROVE  FirstCalls' /\ KeysStayCurrent'
  <1> USE DEF Goes, choices, cloud
  <1>1. /\ step \in [Flows -> {"new"} \cup Forms \cup Calls \cup Over]
        /\ try \in [Flows -> {1, 2}] /\ entry \in [Flows -> Entry \cup {None}]
    BY ChoicesType
  <1>2. CASE UserStarts(f) \/ UserSelects(f) \/ ManualHost(f) \/ ManualMac(f) \/ Bluetooth(f)
    BY <1>1, <1>2 DEF UserStarts, UserSelects, ManualHost, ManualMac, Bluetooth, FirstCalls,
                      KeysStayCurrent, Entries
  <1>3. CASE AuthMethod(f) \/ Credentials(f) \/ CloudLogin(f) \/ ListFails(f) \/ Abandon(f)
    BY <1>1, <1>3 DEF AuthMethod, Credentials, CloudLogin, ListFails, Abandon, Forms, FirstCalls,
                      KeysStayCurrent, Entries
  <1>4. CASE FetchDevices(f) \/ PickCloudDevice(f)
    BY <1>1, <1>4 DEF FetchDevices, PickCloudDevice, FirstCalls, KeysStayCurrent, Entries
  <1>5. CASE ManualKey(f)
    <2>1. entry'[f].key = None /\ \A g \in Flows \ {f} : entry'[g] = entry[g]
      BY <1>1, <1>5 DEF ManualKey, CreateEntry
    <2> QED BY <1>1, <1>5, <2>1 DEF ManualKey, FirstCalls, KeysStayCurrent, Entries
  <1>6. CASE FetchAuthKey(f)
    <2>1. entry'[f].key = [device |-> device[f], version |-> version'[device[f]]]
          /\ \A g \in Flows \ {f} : entry'[g] = entry[g]
      BY <1>1, <1>6 DEF FetchAuthKey, CreateEntry
    <2>2. ~failed => version' = version
      BY <1>6 DEF FetchAuthKey, Regenerates, FirstCalls
    <2> QED BY <1>1, <1>6, <2>1, <2>2 DEF FetchAuthKey, FirstCalls, KeysStayCurrent, Entries
  <1>7. CASE FetchFails(f)
    BY <1>7 DEF FetchFails, FirstCalls, KeysStayCurrent
  <1> QED BY <1>2, <1>3, <1>4, <1>5, <1>6, <1>7 DEF FlowStep

\* Unless a call has failed, setting devices up cuts none off that was set up before.
THEOREM KeysCurrent == Spec => []KeysStayCurrent
  <1>1. Init => FirstCalls /\ KeysStayCurrent
    BY DEF Init, FirstCalls, KeysStayCurrent, Entries
  <1>2. TypeOK /\ LoggedIn /\ FirstCalls /\ KeysStayCurrent /\ [Next]_vars
        => (FirstCalls /\ KeysStayCurrent)'
    <2>1. TypeOK /\ LoggedIn /\ FirstCalls /\ KeysStayCurrent /\ Next
          => (FirstCalls /\ KeysStayCurrent)'
      BY CurrentStep DEF Next, FlowStep
    <2>2. FirstCalls /\ KeysStayCurrent /\ UNCHANGED vars => (FirstCalls /\ KeysStayCurrent)'
      BY DEF FirstCalls, KeysStayCurrent, Entries, vars
    <2> QED BY <2>1, <2>2
  <1> QED BY <1>1, <1>2, TypesAreSafe, PTL DEF Spec

-----------------------------------------------------------------------------
(* Discovery.                                                                 *)

\* A step brings a flow with a unique id to life only when none has that id.
LEMMA OneLivesStep ==
    ASSUME TypeOK, OneLives, NEW f \in Flows, FlowStep(f)
    PROVE  OneLives'
  <1> USE DEF Goes, choices, cloud
  <1>1. /\ step \in [Flows -> {"new"} \cup Forms \cup Calls \cup Over]
        /\ uid \in [Flows -> DeviceOrNone] /\ entry \in [Flows -> Entry \cup {None}]
    BY ChoicesType
  <1>2. CASE Bluetooth(f)
    <2>1. PICK d \in Devices :
            \/ Known(d) /\ Goes(f, "new", "aborted") /\ UNCHANGED <<mac, uid>>
            \/ ~Known(d) /\ Goes(f, "new", "auth_method") /\ uid' = [uid EXCEPT ![f] = d]
      BY <1>2 DEF Bluetooth
    <2>2. entry' = entry
      BY <1>2 DEF Bluetooth
    <2>3. CASE Known(d) /\ Goes(f, "new", "aborted") /\ UNCHANGED <<mac, uid>>
      BY <1>1, <2>2, <2>3 DEF OneLives, Lives, Over
    <2>4. CASE ~Known(d) /\ Goes(f, "new", "auth_method") /\ uid' = [uid EXCEPT ![f] = d]
      <3>1. \A g \in Flows : uid[g] = d => ~Lives(g)
        BY <2>4 DEF Known, Lives
      <3>2. \A g \in Flows \ {f} : uid'[g] = uid[g] /\ (Lives(g)' <=> Lives(g))
        BY <1>1, <2>2, <2>4 DEF Lives
      <3>3. uid'[f] = d
        BY <1>1, <2>4
      <3> QED BY <3>1, <3>2, <3>3 DEF OneLives
    <2> QED BY <2>1, <2>3, <2>4
  <1>3. ASSUME ~Bluetooth(f) PROVE OneLives'
    <2>1. /\ uid' = uid /\ step[f] \notin Over
          /\ \A g \in Flows \ {f} : step'[g] = step[g] /\ entry'[g] = entry[g]
      <3>1. CASE UserStarts(f) \/ UserSelects(f) \/ ManualHost(f) \/ ManualMac(f) \/ AuthMethod(f)
        BY <1>1, <3>1 DEF UserStarts, UserSelects, ManualHost, ManualMac, AuthMethod, Over
      <3>2. CASE ManualKey(f) \/ FetchAuthKey(f) \/ FetchFails(f)
        BY <1>1, <3>2 DEF ManualKey, FetchAuthKey, FetchFails, CreateEntry, Over
      <3>3. CASE Credentials(f) \/ CloudLogin(f) \/ FetchDevices(f) \/ ListFails(f)
        BY <1>1, <3>3 DEF Credentials, CloudLogin, FetchDevices, ListFails, Over
      <3>4. CASE PickCloudDevice(f) \/ Abandon(f)
        BY <1>1, <3>4 DEF PickCloudDevice, Abandon, Over, Forms
      <3> QED BY <1>3, <3>1, <3>2, <3>3, <3>4 DEF FlowStep
    <2>2. \A g \in Flows : Lives(g)' => Lives(g)
      BY <2>1 DEF Lives
    <2> QED BY <2>1, <2>2 DEF OneLives
  <1> QED BY <1>2, <1>3

\* Discoveries of one device make one entry, however many there are and however
\* they interleave.
THEOREM OneEntryPerDiscovery == Spec => []DiscoveredOnce
  <1>1. Init => OneLives
    BY DEF Init, OneLives
  <1>2. TypeOK /\ OneLives /\ [Next]_vars => OneLives'
    <2>1. TypeOK /\ OneLives /\ Next => OneLives'
      BY OneLivesStep DEF Next, FlowStep
    <2>2. OneLives /\ UNCHANGED vars => OneLives'
      BY DEF OneLives, Lives, vars, choices
    <2> QED BY <2>1, <2>2
  <1>3. OneLives => DiscoveredOnce
    BY DEF OneLives, Lives, DiscoveredOnce, Entries
  <1> QED BY <1>1, <1>2, <1>3, TypeCorrect, PTL DEF Spec
=============================================================================
