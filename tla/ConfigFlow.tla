----------------------------- MODULE ConfigFlow -----------------------------
(* The wizard that creates entries (config_flow.py) and the cloud it fetches  *)
(* keys from (cloud_auth.py).  Several flows may be open at once: a flow waits *)
(* at a form or for a call to the cloud, and others go on meanwhile.  A key is *)
(* the device it opens and its generation, which the cloud may change.         *)
EXTENDS Naturals, FiniteSets

CONSTANTS
    Flows,      \* the flows that are ever opened; each creates at most one entry
    Devices,    \* devices, standing for their hosts, addresses and device keys
    Accounts,   \* accounts of the cloud
    Owned,      \* the devices that each account has bound
    None,       \* an empty string
    MaxVersion  \* bound: generations of a device's key

ASSUME ConfigAssumption ==
    /\ None \notin Devices \cup Accounts
    /\ Owned \in [Accounts -> SUBSET Devices]
    /\ MaxVersion \in Nat

VARIABLES
    step,       \* where each flow is
    host, mac,  \* _host and _mac, as the device they belong to
    uid,        \* the unique id of a flow, and of its entry
    account,    \* _token, as the account it is of
    offered,    \* _cloud_devices
    device,     \* _device_key and _product_key
    try,        \* which of its two calls fetch_auth_key awaits
    entry,      \* the entry each flow has created, or None
    version,    \* the generation of each device's key in the cloud
    failed      \* has a call for a key ever failed?

choices == <<host, mac, uid>>
cloud == <<account, offered, device>>
vars == <<step, choices, cloud, try, entry, version, failed>>

Forms == {"user", "manual_host", "manual_mac", "auth_method", "manual_key", "credentials", "pick"}
Calls == {"login", "list", "key"}
Over  == {"created", "aborted"}

Init ==
    /\ step = [f \in Flows |-> "new"]
    /\ host = [f \in Flows |-> None] /\ mac = [f \in Flows |-> None] /\ uid = [f \in Flows |-> None]
    /\ account = [f \in Flows |-> None] /\ offered = [f \in Flows |-> {}]
    /\ device = [f \in Flows |-> None]
    /\ try = [f \in Flows |-> 1] /\ entry = [f \in Flows |-> None]
    /\ version = [d \in Devices |-> 0] /\ failed = FALSE

Goes(f, from, to) == step[f] = from /\ step' = [step EXCEPT ![f] = to]

-----------------------------------------------------------------------------
(* What the device is: found on the network, typed in, or discovered.         *)
(* A definition that only PROJECT.json uses (NoCheck...) is a faulty variant   *)
(* of the one that follows it.                                                *)

UserStarts(f) ==
    /\ Goes(f, "new", "user")
    /\ UNCHANGED <<choices, cloud, try, entry, version, failed>>

UserSelects(f) ==
    /\ \/ Goes(f, "user", "manual_host") /\ UNCHANGED host
       \/ Goes(f, "user", "manual_mac") /\ UNCHANGED host
       \/ Goes(f, "user", "auth_method") /\ \E d \in Devices : host' = [host EXCEPT ![f] = d]
    /\ UNCHANGED <<mac, uid, cloud, try, entry, version, failed>>

\* A blank host is accepted.
ManualHost(f) ==
    /\ Goes(f, "manual_host", "auth_method")
    /\ \E h \in Devices \cup {None} : host' = [host EXCEPT ![f] = h]
    /\ UNCHANGED <<mac, uid, cloud, try, entry, version, failed>>

ManualMac(f) ==
    /\ Goes(f, "manual_mac", "auth_method")
    /\ \E d \in Devices : mac' = [mac EXCEPT ![f] = d]
    /\ UNCHANGED <<host, uid, cloud, try, entry, version, failed>>

\* async_set_unique_id and _abort_if_unique_id_configured.
NoCheck(d) == \E g \in Flows : uid[g] = d /\ step[g] \notin Over
Known(d) == \E g \in Flows : uid[g] = d /\ (step[g] \notin Over \/ entry[g] # None)

Bluetooth(f) ==
    /\ \E d \in Devices :
        \/ Known(d) /\ Goes(f, "new", "aborted") /\ UNCHANGED <<mac, uid>>
        \/ /\ ~Known(d) /\ Goes(f, "new", "auth_method")
           /\ uid' = [uid EXCEPT ![f] = d] /\ mac' = [mac EXCEPT ![f] = d]
    /\ UNCHANGED <<host, cloud, try, entry, version, failed>>

-----------------------------------------------------------------------------
(* Its key: typed in, or fetched.                                             *)

BleIfAddress(f) == IF mac[f] # None THEN "ble" ELSE "tcp"
Preferred(f) == IF host[f] # None THEN "tcp" ELSE "ble"

CreateEntry(f, key) ==
    entry' = [entry EXCEPT ![f] = [host |-> host[f], mac |-> mac[f], key |-> key,
                                   preferred |-> Preferred(f), device |-> device[f]]]

AuthMethod(f) ==
    /\ Goes(f, "auth_method", "manual_key") \/ Goes(f, "auth_method", "credentials")
    /\ UNCHANGED <<choices, cloud, try, entry, version, failed>>

\* Whatever can be decoded is a key.
ManualKey(f) ==
    /\ Goes(f, "manual_key", "created") /\ CreateEntry(f, None)
    /\ UNCHANGED <<choices, cloud, try, version, failed>>

Credentials(f) ==
    /\ Goes(f, "credentials", "login")
    /\ UNCHANGED <<choices, cloud, try, entry, version, failed>>

\* A failure shows the form again, with all that earlier rounds have left.
CloudLogin(f) ==
    /\ \/ Goes(f, "login", "credentials") /\ UNCHANGED account
       \/ Goes(f, "login", "list") /\ \E a \in Accounts : account' = [account EXCEPT ![f] = a]
    /\ UNCHANGED <<choices, offered, device, try, entry, version, failed>>

\* _device_key is set anew each round.
KeepsFirst(f, d) == device' = [device EXCEPT ![f] = IF @ = None THEN d ELSE @]
Selects(f, d) == device' = [device EXCEPT ![f] = d]

FetchDevices(f) ==
    /\ step[f] = "list"
    /\ \E devices \in {{}, Owned[account[f]]} :
        \/ devices = {} /\ Goes(f, "list", "credentials") /\ UNCHANGED <<offered, device, try>>
        \/ /\ Cardinality(devices) = 1 /\ Goes(f, "list", "key")
           /\ \E d \in devices : Selects(f, d)
           /\ try' = [try EXCEPT ![f] = 1] /\ UNCHANGED offered
        \/ /\ Cardinality(devices) > 1 /\ Goes(f, "list", "pick")
           /\ offered' = [offered EXCEPT ![f] = devices] /\ UNCHANGED <<device, try>>
    /\ UNCHANGED <<choices, account, entry, version, failed>>

\* fetch_user_devices (or cloud_login) has raised.
ListFails(f) ==
    /\ Goes(f, "list", "credentials")
    /\ UNCHANGED <<choices, cloud, try, entry, version, failed>>

PickCloudDevice(f) ==
    /\ Goes(f, "pick", "key")
    /\ \E d \in offered[f] : Selects(f, d)
    /\ try' = [try EXCEPT ![f] = 1]
    /\ UNCHANGED <<choices, account, offered, entry, version, failed>>

OneTooMany(f) == try[f] = 3
LastCall(f) == try[f] = 2

RegeneratesFirst(n) == n = 1
Regenerates(n) == n = 2

\* regenerateAuthKey changes the key, in the cloud and of the device.
Rotates(d) == version[d] < MaxVersion /\ version' = [version EXCEPT ![d] = @ + 1]

\* A call of fetch_auth_key that answers with the key.
FetchAuthKey(f) ==
    /\ step[f] = "key" /\ device[f] \in Owned[account[f]]
    /\ IF Regenerates(try[f]) THEN Rotates(device[f]) ELSE UNCHANGED version
    /\ Goes(f, "key", "created")
    /\ CreateEntry(f, [device |-> device[f], version |-> version'[device[f]]])
    /\ UNCHANGED <<choices, cloud, try, failed>>

\* A call that does not, even if the cloud has done what it was asked to: the
\* other call, or nobody left.  Only a device that was picked ends the flow.
FetchFails(f) ==
    /\ step[f] = "key"
    /\ UNCHANGED version \/ (Regenerates(try[f]) /\ Rotates(device[f]))
    /\ failed' = TRUE
    /\ \/ ~LastCall(f) /\ Goes(f, "key", "key") /\ try' = [try EXCEPT ![f] = @ + 1]
       \/ /\ LastCall(f) /\ UNCHANGED try
          /\ Goes(f, "key", IF offered[f] # {} THEN "aborted" ELSE "credentials")
    /\ UNCHANGED <<choices, cloud, entry>>

\* The user closes the dialogue at a form.  (One closed during a call is left
\* when the call is over: its flow then ends at the next form.)
Abandon(f) ==
    /\ \E form \in Forms : Goes(f, form, "aborted")
    /\ UNCHANGED <<choices, cloud, try, entry, version, failed>>

Next == \E f \in Flows :
    \/ UserStarts(f) \/ UserSelects(f) \/ ManualHost(f) \/ ManualMac(f) \/ Bluetooth(f)
    \/ AuthMethod(f) \/ ManualKey(f) \/ Credentials(f) \/ CloudLogin(f)
    \/ FetchDevices(f) \/ ListFails(f) \/ PickCloudDevice(f)
    \/ FetchAuthKey(f) \/ FetchFails(f) \/ Abandon(f)

Spec == Init /\ [][Next]_vars

-----------------------------------------------------------------------------
(* Properties.                                                               *)

KeyOrNone == [device : Devices, version : 0..MaxVersion] \cup {None}
DeviceOrNone == Devices \cup {None}
Entry == [host : DeviceOrNone, mac : DeviceOrNone, key : KeyOrNone,
          preferred : {"tcp", "ble"}, device : DeviceOrNone]

\* The state of the flows, of the entries and of the cloud keeps its type.
TypeOK ==
    /\ step \in [Flows -> {"new"} \cup Forms \cup Calls \cup Over]
    /\ {host, mac, uid, device} \subseteq [Flows -> DeviceOrNone]
    /\ account \in [Flows -> Accounts \cup {None}]
    /\ offered \in [Flows -> SUBSET Devices]
    /\ try \in [Flows -> {1, 2}]
    /\ entry \in [Flows -> Entry \cup {None}]
    /\ version \in [Devices -> 0..MaxVersion] /\ failed \in BOOLEAN

Entries == {f \in Flows : entry[f] # None}

\* However the wizard is walked, an entry has at most one of host and address, so
\* that the coordinator is given at most one transport and has none to fall back to;
\* it prefers TCP exactly if it has a host.  An entry made with a blank host has
\* neither, and prefers BLE.
NoFallback ==
    \A f \in Entries : LET e == entry[f] IN
        /\ e.host = None \/ e.mac = None
        /\ e.preferred = "tcp" <=> e.host # None

\* After any number of failed rounds with several accounts, the key is asked of
\* the account now logged into, for a device that it has bound.
AsksForOwnDevice == \A f \in Flows : step[f] = "key" => device[f] \in Owned[account[f]]

\* fetch_auth_key reads before it regenerates, so that setting a device up does
\* not cut off those set up before: unless a call has failed, every key works.
KeysStayCurrent ==
    ~failed => \A f \in Entries : entry[f].key # None =>
        entry[f].key.version = version[entry[f].key.device]

\* Two discoveries of one device, however they interleave, make one entry.
DiscoveredOnce ==
    \A f, g \in Entries : uid[f] # None /\ uid[f] = uid[g] => f = g
=============================================================================
