------------------------------- MODULE DeviceAccess -------------------------------
(* Who may use the API: devices, their pairing codes and keys (tables           *)
(* device_tokens and device_keys), the cache of resolved credentials in front   *)
(* of them (auth.rs), and the counters of wrong attempts (ratelimit.rs).        *)
(*                                                                             *)
(* A request of an app waits at each await of `gate` or `pair`; removing a     *)
(* device or giving it a new code is the console's part (ConsoleAccess).       *)
EXTENDS Integers, FiniteSets

CONSTANTS
  Devices,    \* ids of rows of device_tokens; an id is never used again
  Codes,      \* six-digit codes
  Keys,       \* long device keys
  Apps,       \* requests of apps
  AuthLimit, CredentialLimit,   \* wrong attempts until an address is blocked (30, 10)
  None

ASSUME DeviceAssumption ==
  /\ Keys \cap Codes = {} /\ None \notin Devices \cup Keys \cup Codes
  /\ Devices # {} /\ Codes # {}
  /\ {AuthLimit, CredentialLimit} \subseteq Nat \ {0}

Credentials == Keys \cup Codes

VARIABLES
  device,   \* rows of device_tokens
  owner,    \* device each key was given to: device_keys, whose rows go with the device
  signed,   \* the session cache: credential -> session
  app,      \* requests of apps
  failed    \* wrong attempts in the present window, from the one address modelled

deviceVars == <<device, owner, signed, app>>

\* `live`: the code can be traded for a key; `legacy`: it is accepted as a credential itself.
DeviceRows == [state : {"new", "here", "gone"}, code : Codes \cup {None}, live : BOOLEAN, legacy : BOOLEAN]
NoDevice == [state |-> "new", code |-> None, live |-> FALSE, legacy |-> FALSE]

\* `missed` (history): the cache was emptied between this session's lookup and its insertion.
CachedSessions == [device : Devices, missed : BOOLEAN]

AppRequests ==
  [pc : {"idle", "find", "insert", "serve", "trade", "issue"}, with : Credentials \cup {None},
   device : Devices \cup {None}, missed : BOOLEAN]
NoRequest == [pc |-> "idle", with |-> None, device |-> None, missed |-> FALSE]

DeviceTypes ==
  /\ device \in [Devices -> DeviceRows]
  /\ owner \in [Keys -> Devices \cup {None}]
  /\ signed \in [Credentials -> CachedSessions \cup {None}]
  /\ app \in [Apps -> AppRequests]
  /\ failed \in [auth : Nat, credential : Nat]

Admin == CHOOSE d \in Devices : TRUE
AdminCode == CHOOSE c \in Codes : TRUE

\* A new installation has its admin device and a live code; one from before the keys has a
\* code that is a credential as well.
DeviceInit ==
  /\ \E legacy \in BOOLEAN :
       device = [d \in Devices |-> IF d = Admin
                   THEN [state |-> "here", code |-> AdminCode, live |-> TRUE, legacy |-> legacy]
                   ELSE NoDevice]
  /\ owner = [k \in Keys |-> None]
  /\ signed = [c \in Credentials |-> None]
  /\ app = [a \in Apps |-> NoRequest]
  /\ failed = [auth |-> 0, credential |-> 0]

Here(d) == device[d].state = "here"

\* A code that no device has.
Free(c) == \A d \in Devices : Here(d) => device[d].code # c

\* What the tables make of a credential: the device it stands for.
Resolves(c, d) ==
  /\ Here(d)
  /\ \/ c \in Keys /\ owner[c] = d
     \/ c \in Codes /\ device[d].code = c /\ device[d].legacy

----------------------------------------------------------------------------
(* Wrong attempts *)

\* As if the limit were the last allowed count.
BlockedLate(bucket) == failed[bucket] > (IF bucket = "auth" THEN AuthLimit ELSE CredentialLimit)

Blocked(bucket) == failed[bucket] >= (IF bucket = "auth" THEN AuthLimit ELSE CredentialLimit)

RecordFailure(bucket) == failed' = [failed EXCEPT ![bucket] = @ + 1]

WindowEnds(bucket) ==
  /\ failed[bucket] > 0
  /\ failed' = [failed EXCEPT ![bucket] = 0]
  /\ UNCHANGED deviceVars

----------------------------------------------------------------------------
(* An app's request *)

SetApp(a, r) == app' = [app EXCEPT ![a] = r]

\* A blocked address is turned away; a cached session is taken as it is.
Present(a, c) ==
  /\ app[a].pc = "idle" /\ ~Blocked("auth")
  /\ c \in Keys => owner[c] # None
  /\ SetApp(a, IF signed[c] # None
               THEN [NoRequest EXCEPT !.pc = "serve", !.device = signed[c].device]
               ELSE [NoRequest EXCEPT !.pc = "find", !.with = c])
  /\ UNCHANGED <<device, owner, signed, failed>>

\* As if nobody looked whether the database had found a row.
FindUnchecked(a) ==
  /\ app[a].pc = "find"
  /\ SetApp(a, [app[a] EXCEPT !.pc = "insert", !.device =
       IF \E d \in Devices : Resolves(app[a].with, d)
       THEN CHOOSE d \in Devices : Resolves(app[a].with, d) ELSE None])
  /\ UNCHANGED <<device, owner, signed, failed>>

Find(a) ==
  LET c == app[a].with IN
  /\ app[a].pc = "find"
  /\ \/ \E d \in Devices :
          /\ Resolves(c, d)
          /\ SetApp(a, [app[a] EXCEPT !.pc = "insert", !.device = d])
          /\ UNCHANGED failed
     \/ /\ ~\E d \in Devices : Resolves(c, d)
        /\ SetApp(a, NoRequest) /\ RecordFailure("auth")
  /\ UNCHANGED <<device, owner, signed>>

Insert(a) ==
  /\ app[a].pc = "insert"
  /\ signed' = [signed EXCEPT ![app[a].with] = [device |-> app[a].device, missed |-> app[a].missed]]
  /\ SetApp(a, [NoRequest EXCEPT !.pc = "serve", !.device = app[a].device])
  /\ UNCHANGED <<device, owner, failed>>

\* The request runs as the device it was resolved to.
Serve(a) ==
  /\ app[a].pc = "serve"
  /\ SetApp(a, NoRequest)
  /\ UNCHANGED <<device, owner, signed, failed>>

\* `POST /pair`: the code stays good for the rest of its time.
Pair(a, c) ==
  /\ app[a].pc = "idle" /\ c \in Codes /\ ~Blocked("credential")
  /\ SetApp(a, [NoRequest EXCEPT !.pc = "trade", !.with = c])
  /\ UNCHANGED <<device, owner, signed, failed>>

Trade(a) ==
  LET c == app[a].with IN
  /\ app[a].pc = "trade"
  /\ \/ \E d \in Devices :
          /\ Here(d) /\ device[d].code = c /\ device[d].live
          /\ SetApp(a, [NoRequest EXCEPT !.pc = "issue", !.device = d])
          /\ UNCHANGED failed
     \/ /\ ~\E d \in Devices : Here(d) /\ device[d].code = c /\ device[d].live
        /\ SetApp(a, NoRequest) /\ RecordFailure("credential")
  /\ UNCHANGED <<device, owner, signed>>

\* The row of the key needs its device's: the insertion fails if that is gone by now.
Issue(a) ==
  /\ app[a].pc = "issue"
  /\ \/ /\ Here(app[a].device)
        /\ \E k \in Keys : owner[k] = None /\ owner' = [owner EXCEPT ![k] = app[a].device]
     \/ ~Here(app[a].device) /\ UNCHANGED owner
  /\ SetApp(a, NoRequest)
  /\ UNCHANGED <<device, signed, failed>>

\* The app hangs up, or the database fails it.
AppEnds(a) ==
  /\ app[a].pc # "idle"
  /\ SetApp(a, NoRequest)
  /\ UNCHANGED <<device, owner, signed, failed>>

AppStep(a) == Find(a) \/ Insert(a) \/ Serve(a) \/ Trade(a) \/ Issue(a)

----------------------------------------------------------------------------
(* Time *)

CodeExpires(d) ==
  /\ Here(d) /\ (device[d].live \/ device[d].legacy)
  /\ \/ device' = [device EXCEPT ![d].live = FALSE]
     \/ device' = [device EXCEPT ![d].live = FALSE, ![d].legacy = FALSE]
  /\ UNCHANGED <<owner, signed, app, failed>>

\* As if sessions went away when they are not used (time to idle).
SessionIdles(c) ==
  /\ signed[c] # None /\ \A a \in Apps : app[a].pc = "idle"
  /\ signed' = [signed EXCEPT ![c] = None]
  /\ UNCHANGED <<device, owner, app, failed>>

SessionExpires(c) ==
  /\ signed[c] # None
  /\ signed' = [signed EXCEPT ![c] = None]
  /\ UNCHANGED <<device, owner, app, failed>>

----------------------------------------------------------------------------
(* The console's hold on all this *)

RemoveDevice(d) ==
  /\ Here(d)
  /\ device' = [device EXCEPT ![d] = [NoDevice EXCEPT !.state = "gone"]]

\* The device keeps its keys; its old code is worth nothing in any role.
RenewCode(d) ==
  /\ Here(d)
  /\ \E c \in Codes : Free(c) /\ device' =
       [device EXCEPT ![d] = [state |-> "here", code |-> c, live |-> TRUE, legacy |-> FALSE]]

CreateDevice ==
  \E d \in Devices, c \in Codes :
    /\ device[d].state = "new" /\ Free(c)
    /\ device' = [device EXCEPT ![d] = [state |-> "here", code |-> c, live |-> TRUE, legacy |-> FALSE]]

\* As if only the sessions of devices that have gone were dropped.
ForgetGone ==
  /\ signed' = [c \in Credentials |->
       IF signed[c] # None /\ ~Here(signed[c].device) THEN None ELSE signed[c]]
  /\ app' = [a \in Apps |->
       IF app[a].pc = "insert" THEN [app[a] EXCEPT !.missed = TRUE] ELSE app[a]]

ForgetSessions ==
  /\ signed' = [c \in Credentials |-> None]
  /\ app' = [a \in Apps |->
       IF app[a].pc = "insert" THEN [app[a] EXCEPT !.missed = TRUE] ELSE app[a]]

\* The process starts again: sessions, counters and requests are gone. Without any device
\* the admin device is made again; a code fixed in the environment is opened again.
Boot ==
  /\ signed' = [c \in Credentials |-> None]
  /\ app' = [a \in Apps |-> NoRequest]
  /\ failed' = [auth |-> 0, credential |-> 0]
  /\ IF \E d \in Devices : Here(d)
     THEN \/ UNCHANGED device
          \/ \E d \in Devices, c \in Codes :
               /\ Here(d) /\ (Free(c) \/ device[d].code = c)
               /\ device' = [device EXCEPT ![d].code = c, ![d].live = TRUE]
     ELSE CreateDevice
  /\ UNCHANGED owner
=============================================================================
