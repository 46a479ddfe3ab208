----------------------------- MODULE ConsoleProofs -----------------------------
(* Proofs about devices, sessions and the password, for any number of them and  *)
(* any interleaving of the requests of apps and browsers, which the run of      *)
(* MCConsole only explores in parts; and about the add-ons and their lists,     *)
(* which it explores beside them.                                               *)
EXTENDS MCConsole, FiniteSetTheorems, TLAPS

\* What a request that waits has in hand.
AppsInHand ==
  \A a \in Apps : /\ app[a].pc \in {"find", "insert"} => app[a].with \in Credentials
                  /\ app[a].pc \in {"insert", "serve", "issue"} => app[a].device \in Devices
BrowsersInHand ==
  \A b \in Browsers :
    browser[b].pc \in {"know", "check", "remember", "unknow"} => browser[b].token \in Tokens
InHand == AppsInHand /\ BrowsersInHand

\* A credential stands for a device, or whoever says so was or will be overtaken.
Vouched(c, d, late) ==
  \/ Here(d) /\ (c \in Keys \/ device[d].code = c)
  \/ late
  \/ "devices" \in cut \/ \E b \in Browsers : At(b, "forget")

DevicesInv ==
  /\ RevokedOnlyIfMissed
  /\ \A a \in Apps : app[a].pc = "insert" => Vouched(app[a].with, app[a].device, app[a].missed)

\* Tokens are new when they are made, and given to one browser.
TokensFresh ==
  /\ \A t \in cookies : opened[t].state # "new"
  /\ \A b \in Browsers : At(b, "know") =>
       /\ opened[browser[b].token].state # "new" /\ browser[b].token \notin cookies
       /\ \A c \in Browsers \ {b} : At(c, "know") => browser[c].token # browser[b].token

\* Who is about to put a token into the cache found it in the table, or was overtaken.
SessionsInv ==
  /\ SignedOutOnlyIfMissed
  /\ TokensFresh
  /\ \A b \in Browsers : browser[b].pc \in {"know", "remember"} =>
       opened[browser[b].token].state = "here" \/ browser[b].overtaken

\* A hash of the old scheme is that of the first password, and so is what replaces it.
OldHash ==
  /\ password.of <= latest
  /\ password.old => latest = 0 /\ upgraded
  /\ \A b \in Browsers : At(b, "rehash") => browser[b].with = 0 /\ upgraded

\* A session that a request may yet open is one with the latest password, or excused.
Entering == {"rehash", "open", "signout", "flush"}
Excused(b) ==
  \/ browser[b].with = latest \/ browser[b].overtaken
  \/ "sessions" \in cut \/ \E c \in Browsers \ {b} : At(c, "signout")
  \/ password.of # latest
PasswordInv ==
  /\ OldPasswordOnlyIfOvertaken /\ LastPasswordStands
  /\ OldHash
  /\ \A b \in Browsers : browser[b].pc \in Entering => Excused(b)

\* A wrong attempt that is under way is counted as if it had failed.
Finding == {a \in Apps : app[a].pc = "find"}
Trading == {a \in Apps : app[a].pc = "trade"}
Hashing == {b \in Browsers : At(b, "hash")}
AuthInv == failed.auth + Cardinality(Finding) < AuthLimit + Cardinality(Apps)
CredentialInv ==
  failed.credential + Cardinality(Trading) + Cardinality(Hashing)
    < CredentialLimit + Cardinality(Apps) + Cardinality(Browsers)
AttemptsInv == AuthInv /\ CredentialInv

AccessInv ==
  /\ TypeOK /\ InHand
  /\ DevicesInv /\ SessionsInv /\ PasswordInv /\ AttemptsInv

-----------------------------------------------------------------------------
(* Types *)

\* The requests that steps make.
LEMMA NewRequests ==
  /\ NoRequest \in AppRequests /\ NoRequest.pc = "idle"
  /\ \A d \in Devices, pc \in {"serve", "issue"} :
       LET r == [NoRequest EXCEPT !.pc = pc, !.device = d]
       IN r \in AppRequests /\ r.pc = pc /\ r.device = d
  /\ \A c \in Credentials, pc \in {"find", "trade"} :
       LET r == [NoRequest EXCEPT !.pc = pc, !.with = c]
       IN r \in AppRequests /\ r.pc = pc /\ r.with = c
BY DEF NoRequest, AppRequests

LEMMA FoundRequest ==
  ASSUME NEW r \in AppRequests, NEW d \in Devices
  PROVE  LET q == [r EXCEPT !.pc = "insert", !.device = d]
         IN  q \in AppRequests /\ q.pc = "insert" /\ q.device = d /\ q.with = r.with /\ q.missed = r.missed
BY DEF AppRequests

LEMMA LateRequest ==
  ASSUME NEW r \in AppRequests
  PROVE  LET q == [r EXCEPT !.missed = TRUE]
         IN  q \in AppRequests /\ q.missed /\ q.pc = r.pc /\ q.device = r.device /\ q.with = r.with
BY DEF AppRequests

\* An app's request goes on.
LEMMA AppTypes ==
  ASSUME DeviceTypes, AppsInHand, NEW a \in Apps, NEW r \in AppRequests,
         app' = [app EXCEPT ![a] = r],
         r.pc \in {"find", "insert"} => r.with \in Credentials,
         r.pc \in {"insert", "serve", "issue"} => r.device \in Devices
  PROVE  app' \in [Apps -> AppRequests] /\ AppsInHand'
BY DEF DeviceTypes, AppsInHand

LEMMA AppStepTypes ==
  ASSUME DeviceTypes, AppsInHand, NEW a \in Apps,
         \/ \E c \in Credentials : Present(a, c) \/ Pair(a, c)
         \/ AppStep(a) \/ AppEnds(a)
  PROVE  DeviceTypes' /\ AppsInHand'
<1> USE DEF DeviceTypes, SetApp
<1>1. NoRequest \in AppRequests /\ NoRequest.pc = "idle"
  BY NewRequests
<1>2. app[a] \in AppRequests  OBVIOUS
<1>3. ASSUME NEW c \in Credentials, Present(a, c) PROVE DeviceTypes' /\ AppsInHand'
  <2>1. UNCHANGED <<device, owner, signed, failed>>  BY <1>3 DEF Present
  <2>2. CASE signed[c] # None
    <3>1. signed[c].device \in Devices  BY <2>2 DEF CachedSessions
    <3> DEFINE r == [NoRequest EXCEPT !.pc = "serve", !.device = signed[c].device]
    <3>2. r \in AppRequests /\ r.pc = "serve" /\ r.device \in Devices  BY <3>1, NewRequests
    <3>3. app' = [app EXCEPT ![a] = r]  BY <1>3, <2>2 DEF Present
    <3> HIDE DEF r
    <3> QED BY <2>1, <3>2, <3>3, AppTypes
  <2>3. CASE signed[c] = None
    <3> DEFINE r == [NoRequest EXCEPT !.pc = "find", !.with = c]
    <3>1. r \in AppRequests /\ r.pc = "find" /\ r.with = c  BY NewRequests
    <3>2. app' = [app EXCEPT ![a] = r]  BY <1>3, <2>3 DEF Present
    <3> HIDE DEF r
    <3> QED BY <2>1, <3>1, <3>2, AppTypes
  <2> QED BY <2>2, <2>3
<1>4. ASSUME NEW c \in Credentials, Pair(a, c) PROVE DeviceTypes' /\ AppsInHand'
  <2> DEFINE r == [NoRequest EXCEPT !.pc = "trade", !.with = c]
  <2>1. r \in AppRequests /\ r.pc = "trade"  BY NewRequests
  <2>2. app' = [app EXCEPT ![a] = r] /\ UNCHANGED <<device, owner, signed, failed>>  BY <1>4 DEF Pair
  <2> HIDE DEF r
  <2> QED BY <2>1, <2>2, AppTypes
<1>5. RecordFailure("auth") \/ RecordFailure("credential") => failed' \in [auth : Nat, credential : Nat]
  BY DEF RecordFailure
<1>6. CASE Find(a)
  <2>1. app[a].with \in Credentials  BY <1>6 DEF Find, AppsInHand
  <2>2. failed' \in [auth : Nat, credential : Nat] /\ UNCHANGED <<device, owner, signed>>
    BY <1>5, <1>6 DEF Find
  <2>3. CASE SetApp(a, NoRequest)  BY <1>1, <2>2, <2>3, AppTypes
  <2>4. ASSUME NEW d \in Devices, SetApp(a, [app[a] EXCEPT !.pc = "insert", !.device = d])
        PROVE DeviceTypes' /\ AppsInHand'
    <3> DEFINE r == [app[a] EXCEPT !.pc = "insert", !.device = d]
    <3>1. r \in AppRequests /\ r.pc = "insert" /\ r.device = d /\ r.with = app[a].with
      BY <1>2, FoundRequest
    <3>2. app' = [app EXCEPT ![a] = r]  BY <2>4
    <3> HIDE DEF r
    <3> QED BY <2>1, <2>2, <3>1, <3>2, AppTypes
  <2> QED BY <1>6, <2>3, <2>4 DEF Find
<1>7. CASE Insert(a)
  <2>1. app[a].with \in Credentials /\ app[a].device \in Devices  BY <1>7 DEF Insert, AppsInHand
  <2>2. [device |-> app[a].device, missed |-> app[a].missed] \in CachedSessions
    BY <1>2, <2>1 DEF AppRequests, CachedSessions
  <2>3. signed' \in [Credentials -> CachedSessions \cup {None}] /\ UNCHANGED <<device, owner, failed>>
    BY <1>7, <2>2 DEF Insert
  <2> DEFINE r == [NoRequest EXCEPT !.pc = "serve", !.device = app[a].device]
  <2>4. r \in AppRequests /\ r.pc = "serve" /\ r.device \in Devices  BY <2>1, NewRequests
  <2>5. app' = [app EXCEPT ![a] = r]  BY <1>7 DEF Insert
  <2> HIDE DEF r
  <2> QED BY <2>3, <2>4, <2>5, AppTypes
<1>8. CASE Trade(a)
  <2>1. failed' \in [auth : Nat, credential : Nat] /\ UNCHANGED <<device, owner, signed>>
    BY <1>5, <1>8 DEF Trade
  <2>2. CASE SetApp(a, NoRequest)  BY <1>1, <2>1, <2>2, AppTypes
  <2>3. ASSUME NEW d \in Devices, SetApp(a, [NoRequest EXCEPT !.pc = "issue", !.device = d])
        PROVE DeviceTypes' /\ AppsInHand'
    <3> DEFINE r == [NoRequest EXCEPT !.pc = "issue", !.device = d]
    <3>1. r \in AppRequests /\ r.pc = "issue" /\ r.device = d  BY NewRequests
    <3>2. app' = [app EXCEPT ![a] = r]  BY <2>3
    <3> HIDE DEF r
    <3> QED BY <2>1, <3>1, <3>2, AppTypes
  <2> QED BY <1>8, <2>2, <2>3 DEF Trade
<1>9. CASE Issue(a)
  <2>1. owner' \in [Keys -> Devices \cup {None}]  BY <1>9 DEF Issue, AppsInHand
  <2> QED BY <1>1, <1>9, <2>1, AppTypes DEF Issue
<1>10. CASE Serve(a) \/ AppEnds(a)
  BY <1>1, <1>10, AppTypes DEF Serve, AppEnds
<1> QED BY <1>3, <1>4, <1>6, <1>7, <1>8, <1>9, <1>10 DEF AppStep

\* What the console and time do to devices.
LEMMA DeviceStepTypes ==
  ASSUME DeviceTypes, AppsInHand
  PROVE  /\ \A d \in Devices : CodeExpires(d) => DeviceTypes' /\ AppsInHand'
         /\ \A c \in Credentials : SessionExpires(c) => DeviceTypes' /\ AppsInHand'
         /\ \A d \in Devices : RemoveDevice(d) \/ RenewCode(d) => device' \in [Devices -> DeviceRows]
         /\ CreateDevice => device' \in [Devices -> DeviceRows]
         /\ ForgetSessions /\ UNCHANGED <<device, owner, failed>> => DeviceTypes' /\ AppsInHand'
         /\ Boot => DeviceTypes' /\ AppsInHand'
<1> USE DEF DeviceTypes
<1>1. \A d \in Devices, r \in DeviceRows : [device EXCEPT ![d] = r] \in [Devices -> DeviceRows]
  OBVIOUS
<1>2. ASSUME NEW d \in Devices, CodeExpires(d) PROVE DeviceTypes' /\ AppsInHand'
  <2>1. device' = [device EXCEPT ![d] = [device[d] EXCEPT !.live = FALSE]] \/
        device' = [device EXCEPT ![d] = [device[d] EXCEPT !.live = FALSE, !.legacy = FALSE]]
    BY <1>2 DEF CodeExpires
  <2>2. [device[d] EXCEPT !.live = FALSE] \in DeviceRows
        /\ [device[d] EXCEPT !.live = FALSE, !.legacy = FALSE] \in DeviceRows
    BY DEF DeviceRows
  <2>3. device' \in [Devices -> DeviceRows]  BY <1>1, <2>1, <2>2
  <2> QED BY <1>2, <2>3 DEF CodeExpires, AppsInHand
<1>3. ASSUME NEW c \in Credentials, SessionExpires(c) PROVE DeviceTypes' /\ AppsInHand'
  BY <1>3 DEF SessionExpires, AppsInHand
<1>4. \A d \in Devices : RemoveDevice(d) \/ RenewCode(d) => device' \in [Devices -> DeviceRows]
  <2>1. [NoDevice EXCEPT !.state = "gone"] \in DeviceRows  BY DEF NoDevice, DeviceRows
  <2>2. \A c \in Codes : [state |-> "here", code |-> c, live |-> TRUE, legacy |-> FALSE] \in DeviceRows
    BY DEF DeviceRows
  <2> QED BY <1>1, <2>1, <2>2 DEF RemoveDevice, RenewCode
<1>5. CreateDevice => device' \in [Devices -> DeviceRows]
  BY <1>1 DEF CreateDevice, DeviceRows
<1>6. ASSUME ForgetSessions, UNCHANGED <<device, owner, failed>> PROVE DeviceTypes' /\ AppsInHand'
  <2>1. \A a \in Apps : app[a] \in AppRequests  OBVIOUS
  <2>2. app' \in [Apps -> AppRequests]  BY <1>6, <2>1, LateRequest DEF ForgetSessions
  <2>3. AppsInHand'
    <3> SUFFICES ASSUME NEW a \in Apps
                 PROVE  app'[a].pc = app[a].pc /\ app'[a].with = app[a].with /\ app'[a].device = app[a].device
      BY DEF AppsInHand
    <3>1. app'[a] = app[a] \/ app'[a] = [app[a] EXCEPT !.missed = TRUE]
      BY <1>6 DEF ForgetSessions
    <3> QED BY <2>1, <3>1, LateRequest
  <2> QED BY <1>6, <2>2, <2>3 DEF ForgetSessions
<1>7. ASSUME Boot PROVE DeviceTypes' /\ AppsInHand'
  <2>1. NoRequest \in AppRequests /\ NoRequest.pc = "idle"  BY NewRequests
  <2>2. device' \in [Devices -> DeviceRows]
    <3>1. ASSUME NEW d \in Devices, NEW c \in Codes, device' = [device EXCEPT ![d].code = c, ![d].live = TRUE]
          PROVE  device' \in [Devices -> DeviceRows]
      <4>1. device' = [device EXCEPT ![d] = [device[d] EXCEPT !.code = c, !.live = TRUE]]
        BY <3>1
      <4>2. [device[d] EXCEPT !.code = c, !.live = TRUE] \in DeviceRows
        BY DEF DeviceRows
      <4> QED BY <1>1, <4>1, <4>2
    <3> QED BY <1>5, <1>7, <3>1 DEF Boot
  <2> QED BY <1>7, <2>1, <2>2 DEF Boot, AppsInHand
<1> QED BY <1>2, <1>3, <1>4, <1>5, <1>6, <1>7

ConsolePc == {"idle", "hash", "rehash", "open", "know", "check", "remember", "do", "forget",
              "signout", "flush", "unknow"}

LEMMA Zeros ==
  /\ MaxPasswords \in Nat /\ MaxRestarts \in Nat /\ 0 \in Passwords
  /\ [NotOpened EXCEPT !.state = "gone"] \in Opened
  /\ [NotOpened EXCEPT !.state = "gone"].state = "gone"
<1>1. MaxPasswords \in Nat /\ MaxRestarts \in Nat  BY ConsoleAssumption
<1>2. 0 \in Passwords  BY <1>1 DEF Passwords
<1> QED BY <1>1, <1>2 DEF NotOpened, Opened

LEMMA IdleBrowser == NoBrowser \in BrowserRequests /\ NoBrowser.pc = "idle"
BY Zeros DEF NoBrowser, BrowserRequests

LEMMA BrowserWith ==
  ASSUME NEW p \in Passwords, NEW pc \in {"hash", "signout"}
  PROVE  LET r == [NoBrowser EXCEPT !.pc = pc, !.with = p]
         IN r \in BrowserRequests /\ r.pc = pc /\ r.with = p /\ ~r.overtaken
BY DEF NoBrowser, BrowserRequests

LEMMA BrowserOf ==
  ASSUME NEW t \in Tokens, NEW pc \in {"know", "do", "check", "unknow"}
  PROVE  LET r == [NoBrowser EXCEPT !.pc = pc, !.token = t]
         IN r \in BrowserRequests /\ r.pc = pc /\ r.token = t
BY Zeros DEF NoBrowser, BrowserRequests

LEMMA BrowserAt ==
  ASSUME NEW r \in BrowserRequests, NEW pc \in ConsolePc
  PROVE  LET q == [r EXCEPT !.pc = pc]
         IN /\ q \in BrowserRequests /\ q.pc = pc
            /\ q.token = r.token /\ q.with = r.with /\ q.overtaken = r.overtaken
BY DEF BrowserRequests, ConsolePc

LEMMA Overtaken ==
  ASSUME NEW r \in BrowserRequests
  PROVE  /\ Overtake(r) \in BrowserRequests /\ Overtake(r).pc = r.pc
         /\ Overtake(r).token = r.token /\ Overtake(r).with = r.with
         /\ r.overtaken => Overtake(r).overtaken
         /\ r.pc \in {"rehash", "open", "know", "remember", "signout", "flush"} => Overtake(r).overtaken
BY DEF BrowserRequests, Overtake

\* A browser's request goes on, and so do others, with what they have in hand.
LEMMA BrowserTypes ==
  ASSUME TypeOK, BrowsersInHand, NEW b \in Browsers, NEW r \in BrowserRequests,
         \/ browser' = [browser EXCEPT ![b] = r]
         \/ \E S \in SUBSET Browsers : browser' = [c \in Browsers |->
              IF c = b THEN r ELSE IF c \in S THEN Overtake(browser[c]) ELSE browser[c]],
         r.pc \in {"know", "check", "remember", "unknow"} => r.token \in Tokens
  PROVE  browser' \in [Browsers -> BrowserRequests] /\ BrowsersInHand'
<1>1. \A c \in Browsers : /\ browser[c] \in BrowserRequests
                          /\ Overtake(browser[c]) \in BrowserRequests
                          /\ Overtake(browser[c]).pc = browser[c].pc
                          /\ Overtake(browser[c]).token = browser[c].token
  BY Overtaken DEF TypeOK
<1>2. CASE browser' = [browser EXCEPT ![b] = r]
  BY <1>2 DEF TypeOK, BrowsersInHand
<1>3. CASE \E S \in SUBSET Browsers : browser' = [c \in Browsers |->
              IF c = b THEN r ELSE IF c \in S THEN Overtake(browser[c]) ELSE browser[c]]
  <2>1. browser'[b] = r
        /\ \A c \in Browsers \ {b} : browser'[c] = browser[c] \/ browser'[c] = Overtake(browser[c])
    BY <1>3
  <2>2. browser' \in [Browsers -> BrowserRequests]  BY <1>1, <1>3
  <2>3. \A c \in Browsers : browser'[c].pc \in {"know", "check", "remember", "unknow"} => browser'[c].token \in Tokens
    BY <1>1, <2>1 DEF BrowsersInHand
  <2> QED BY <2>2, <2>3 DEF BrowsersInHand
<1> QED BY <1>2, <1>3

LEMMA MoveTypes ==
  ASSUME TypeOK, BrowsersInHand, NEW b \in Browsers,
         \/ SetBrowser(b, NoBrowser)
         \/ \E p \in Passwords, pc \in {"hash", "signout"} :
              SetBrowser(b, [NoBrowser EXCEPT !.pc = pc, !.with = p])
         \/ \E t \in Tokens, pc \in {"know", "do", "check", "unknow"} :
              SetBrowser(b, [NoBrowser EXCEPT !.pc = pc, !.token = t])
         \/ \E pc \in ConsolePc :
              /\ Goto(b, pc)
              /\ pc \in {"know", "check", "remember", "unknow"} => browser[b].token \in Tokens
  PROVE  browser' \in [Browsers -> BrowserRequests] /\ BrowsersInHand'
<1>1. ASSUME NEW r \in BrowserRequests, SetBrowser(b, r),
             r.pc \in {"know", "check", "remember", "unknow"} => r.token \in Tokens
      PROVE  browser' \in [Browsers -> BrowserRequests] /\ BrowsersInHand'
  BY <1>1, BrowserTypes DEF SetBrowser
<1>2. CASE SetBrowser(b, NoBrowser)
  BY <1>1, <1>2, IdleBrowser
<1>3. ASSUME NEW p \in Passwords, NEW pc \in {"hash", "signout"},
             SetBrowser(b, [NoBrowser EXCEPT !.pc = pc, !.with = p])
      PROVE  browser' \in [Browsers -> BrowserRequests] /\ BrowsersInHand'
  <2> DEFINE r == [NoBrowser EXCEPT !.pc = pc, !.with = p]
  <2>1. r \in BrowserRequests /\ r.pc = pc /\ SetBrowser(b, r)  BY <1>3, BrowserWith
  <2> HIDE DEF r
  <2> QED BY <1>1, <2>1
<1>4. ASSUME NEW t \in Tokens, NEW pc \in {"know", "do", "check", "unknow"},
             SetBrowser(b, [NoBrowser EXCEPT !.pc = pc, !.token = t])
      PROVE  browser' \in [Browsers -> BrowserRequests] /\ BrowsersInHand'
  <2> DEFINE r == [NoBrowser EXCEPT !.pc = pc, !.token = t]
  <2>1. r \in BrowserRequests /\ r.pc = pc /\ r.token = t  BY <1>4, BrowserOf
  <2>2. SetBrowser(b, r)  BY <1>4
  <2> HIDE DEF r
  <2> QED BY <1>1, <2>1, <2>2
<1>5. ASSUME NEW pc \in ConsolePc, Goto(b, pc),
             pc \in {"know", "check", "remember", "unknow"} => browser[b].token \in Tokens
      PROVE  browser' \in [Browsers -> BrowserRequests] /\ BrowsersInHand'
  <2> DEFINE r == [browser[b] EXCEPT !.pc = pc]
  <2>1. browser[b] \in BrowserRequests  BY DEF TypeOK
  <2>2. r \in BrowserRequests /\ r.pc = pc /\ r.token = browser[b].token  BY <2>1, BrowserAt
  <2>3. SetBrowser(b, r)  BY <1>5 DEF Goto
  <2> HIDE DEF r
  <2> QED BY <1>1, <1>5, <2>2, <2>3
<1> QED BY <1>2, <1>3, <1>4, <1>5

\* Signing in and out, looking around.
LEMMA SignInTypes ==
  ASSUME TypeOK, InHand, NEW b \in Browsers,
         \/ \E p \in Passwords : Login(b, p)
         \/ \E t \in Tokens : Enter(b, t) \/ Logout(b, t)
         \/ SignInStep(b) \/ SessionStep(b) \/ PasswordStep(b) \/ BrowserEnds(b)
  PROVE  TypeOK' /\ InHand'
<1> USE DEF InHand
<1>1. browser[b] \in BrowserRequests /\ browser[b].with \in Passwords /\ browser[b].overtaken \in BOOLEAN
  BY DEF TypeOK, BrowserRequests
<1>2. ASSUME UNCHANGED deviceVars PROVE AppsInHand' /\ (failed' \in [auth : Nat, credential : Nat] => DeviceTypes')
  BY <1>2 DEF TypeOK, deviceVars, AppsInHand, DeviceTypes
<1>3. failed \in [auth : Nat, credential : Nat]  BY DEF TypeOK, DeviceTypes
<1>4. ASSUME NEW p \in Passwords, Login(b, p) PROVE TypeOK' /\ InHand'
  BY <1>2, <1>3, <1>4, MoveTypes DEF TypeOK, Login
<1>5. ASSUME NEW t \in Tokens, Enter(b, t) PROVE TypeOK' /\ InHand'
  BY <1>2, <1>3, <1>5, MoveTypes DEF TypeOK, Enter
<1>6. CASE CheckHash(b)
  <2>1. failed' \in [auth : Nat, credential : Nat]
    BY <1>3, <1>6 DEF CheckHash, RecordFailure
  <2>2. browser' \in [Browsers -> BrowserRequests] /\ BrowsersInHand'
    BY <1>6, MoveTypes DEF CheckHash, ConsolePc
  <2> QED BY <1>2, <1>6, <2>1, <2>2 DEF TypeOK, CheckHash
<1>7. CASE Rehash(b)
  <2>1. password' \in [of : Passwords, old : BOOLEAN]  BY <1>1, <1>7 DEF Rehash
  <2>2. browser' \in [Browsers -> BrowserRequests] /\ BrowsersInHand'
    BY <1>7, MoveTypes DEF Rehash, ConsolePc
  <2> QED BY <1>2, <1>3, <1>7, <2>1, <2>2 DEF TypeOK, Rehash
<1>8. CASE OpenSession(b)
  <2>1. PICK t \in Tokens :
          /\ opened' = [opened EXCEPT ![t] =
               [state |-> "here", with |-> browser[b].with, overtaken |-> browser[b].overtaken]]
          /\ SetBrowser(b, [NoBrowser EXCEPT !.pc = "know", !.token = t])
    BY <1>8 DEF OpenSession
  <2>2. [state |-> "here", with |-> browser[b].with, overtaken |-> browser[b].overtaken] \in Opened
    BY <1>1 DEF Opened
  <2>3. browser' \in [Browsers -> BrowserRequests] /\ BrowsersInHand'
    BY <2>1, MoveTypes
  <2> QED BY <1>2, <1>3, <1>8, <2>1, <2>2, <2>3 DEF TypeOK, OpenSession
<1>9. CASE KnowSession(b)
  <2>1. browser[b].token \in Tokens  BY <1>9 DEF KnowSession, At, BrowsersInHand
  <2>2. browser' \in [Browsers -> BrowserRequests] /\ BrowsersInHand'
    BY <1>9, MoveTypes DEF KnowSession
  <2> QED BY <1>2, <1>3, <1>9, <2>1, <2>2 DEF TypeOK, KnowSession
<1>10. CASE CheckSession(b)
  <2>1. browser[b].token \in Tokens  BY <1>10 DEF CheckSession, At, BrowsersInHand
  <2>2. browser' \in [Browsers -> BrowserRequests] /\ BrowsersInHand'
    BY <1>10, <2>1, MoveTypes DEF CheckSession, ConsolePc
  <2> QED BY <1>2, <1>3, <1>10, <2>2 DEF TypeOK, CheckSession
<1>11. CASE RememberSession(b)
  <2>1. browser[b].token \in Tokens  BY <1>11 DEF RememberSession, At, BrowsersInHand
  <2>2. browser' \in [Browsers -> BrowserRequests] /\ BrowsersInHand'
    BY <1>11, <2>1, MoveTypes DEF RememberSession
  <2> QED BY <1>2, <1>3, <1>11, <2>1, <2>2 DEF TypeOK, RememberSession
<1>12. CASE Look(b) \/ Unknow(b) \/ BrowserEnds(b)
  <2>1. browser' \in [Browsers -> BrowserRequests] /\ BrowsersInHand'
    BY <1>12, MoveTypes DEF Look, Unknow, BrowserEnds
  <2>2. cut' \subseteq {"devices", "sessions"}  BY <1>12 DEF TypeOK, Look, Unknow, BrowserEnds
  <2>3. known' \in [Tokens -> {"no", "yes", "missed"}]  BY <1>12 DEF TypeOK, Look, Unknow, BrowserEnds
  <2> QED BY <1>2, <1>3, <1>12, <2>1, <2>2, <2>3 DEF TypeOK, Look, Unknow, BrowserEnds
<1>13. CASE SetPassword(b)
  <2>1. latest' \in Passwords  BY <1>13, Zeros DEF TypeOK, SetPassword, Passwords
  <2>2. browser' \in [Browsers -> BrowserRequests] /\ BrowsersInHand'
    BY <1>13, <2>1, MoveTypes DEF SetPassword
  <2>3. password' \in [of : Passwords, old : BOOLEAN]  BY <1>13, <2>1 DEF SetPassword
  <2> QED BY <1>2, <1>3, <1>13, <2>1, <2>2, <2>3 DEF TypeOK, SetPassword
<1>14. DeleteSessions => opened' \in [Tokens -> Opened]
  <2>1. [NotOpened EXCEPT !.state = "gone"] \in Opened  BY Zeros
  <2> QED BY <2>1 DEF TypeOK, DeleteSessions
<1>15. CASE SignOutAll(b)
  <2> DEFINE r == [browser[b] EXCEPT !.pc = "flush"]
  <2>1. r \in BrowserRequests /\ r.pc = "flush"  BY <1>1, BrowserAt DEF ConsolePc
  <2>2. browser' = [c \in Browsers |->
              IF c = b THEN r ELSE IF c \in Browsers THEN Overtake(browser[c]) ELSE browser[c]]
    BY <1>15 DEF SignOutAll
  <2> HIDE DEF r
  <2>3. browser' \in [Browsers -> BrowserRequests] /\ BrowsersInHand'
    BY <2>1, <2>2, BrowserTypes
  <2> QED BY <1>2, <1>3, <1>14, <1>15, <2>3 DEF TypeOK, SignOutAll
<1>16. CASE FlushSessions(b)
  <2>1. Goto(b, "open")
    BY <1>16 DEF TypeOK, FlushSessions, Goto, SetBrowser
  <2>2. browser' \in [Browsers -> BrowserRequests] /\ BrowsersInHand'
    BY <2>1, MoveTypes DEF ConsolePc
  <2> QED BY <1>2, <1>3, <1>16, <2>2 DEF TypeOK, FlushSessions
<1>17. ASSUME NEW t \in Tokens, Logout(b, t) PROVE TypeOK' /\ InHand'
  <2> DEFINE r == [NoBrowser EXCEPT !.pc = "unknow", !.token = t]
             S == {c \in Browsers : At(c, "remember") /\ browser[c].token = t}
  <2>1. r \in BrowserRequests /\ r.token \in Tokens  BY BrowserOf
  <2>2. browser' = [c \in Browsers |->
              IF c = b THEN r ELSE IF c \in S THEN Overtake(browser[c]) ELSE browser[c]]
    BY <1>17 DEF Logout
  <2>3. [NotOpened EXCEPT !.state = "gone"] \in Opened  BY Zeros
  <2>4. opened' \in [Tokens -> Opened]  BY <1>17, <2>3 DEF TypeOK, Logout
  <2>5. S \in SUBSET Browsers  OBVIOUS
  <2> HIDE DEF r, S
  <2>6. browser' \in [Browsers -> BrowserRequests] /\ BrowsersInHand'
    BY <2>1, <2>2, <2>5, BrowserTypes
  <2> QED BY <1>2, <1>3, <1>17, <2>4, <2>6 DEF TypeOK, Logout
<1> QED BY <1>4, <1>5, <1>6, <1>7, <1>8, <1>9, <1>10, <1>11, <1>12, <1>13, <1>15, <1>16, <1>17
        DEF SignInStep, SessionStep, PasswordStep

LEMMA OtherAccessTypes ==
  ASSUME TypeOK, InHand,
         \/ AppNext \/ Restart \/ UNCHANGED vars
         \/ \E b \in Browsers : DeviceStep(b)
         \/ \E t \in Tokens : TokenExpires(t)
         \/ \E bucket \in {"auth", "credential"} : WindowEnds(bucket) /\ UNCHANGED consoleVars
  PROVE  TypeOK' /\ InHand'
<1> USE DEF InHand
<1>1. UNCHANGED consoleVars /\ DeviceTypes' /\ AppsInHand' => TypeOK' /\ InHand'
  BY DEF TypeOK, consoleVars, BrowsersInHand
<1>2. CASE AppNext
  <2>1. DeviceTypes' /\ AppsInHand'
    BY <1>2, AppStepTypes, DeviceStepTypes DEF TypeOK, AppNext
  <2> QED BY <1>1, <1>2, <2>1 DEF AppNext
<1>3. ASSUME NEW bucket \in {"auth", "credential"}, WindowEnds(bucket), UNCHANGED consoleVars
      PROVE TypeOK' /\ InHand'
  <2>1. failed' \in [auth : Nat, credential : Nat]
    BY <1>3 DEF TypeOK, DeviceTypes, WindowEnds
  <2>2. DeviceTypes' /\ AppsInHand'
    BY <1>3, <2>1 DEF TypeOK, DeviceTypes, AppsInHand, WindowEnds, deviceVars
  <2> QED BY <1>1, <1>3, <2>2
<1>4. ASSUME NEW t \in Tokens, TokenExpires(t) PROVE TypeOK' /\ InHand'
  BY <1>4 DEF TypeOK, DeviceTypes, AppsInHand, BrowsersInHand, TokenExpires, deviceVars
<1>5. CASE UNCHANGED vars
  BY <1>5 DEF vars, deviceVars, consoleVars, TypeOK, DeviceTypes, AppsInHand, BrowsersInHand
<1>6. ASSUME NEW b \in Browsers, DeviceStep(b) PROVE TypeOK' /\ InHand'
  <2>1. browser' \in [Browsers -> BrowserRequests] /\ BrowsersInHand'
    BY <1>6, MoveTypes DEF DeviceStep, Revoke, NewCode, Create, Forget, ConsolePc
  <2>2. CASE Forget(b)
    BY <2>1, <2>2, DeviceStepTypes DEF TypeOK, Forget
  <2>3. CASE (\E d \in Devices : Revoke(b, d) \/ NewCode(b, d)) \/ Create(b)
    <3>1. device' \in [Devices -> DeviceRows]
      BY <2>3, DeviceStepTypes DEF TypeOK, Revoke, NewCode, Create
    <3>2. UNCHANGED <<owner, signed, app, failed, password, latest, opened, cookies, known, cut, upgraded, restarts>>
      BY <2>3 DEF Revoke, NewCode, Create
    <3> QED BY <2>1, <3>1, <3>2 DEF TypeOK, DeviceTypes, AppsInHand
  <2> QED BY <1>6, <2>2, <2>3 DEF DeviceStep
<1>7. CASE Restart
  <2>1. DeviceTypes' /\ AppsInHand'  BY <1>7, DeviceStepTypes DEF TypeOK, Restart
  <2>2. browser' \in [Browsers -> BrowserRequests] /\ BrowsersInHand'
    BY <1>7, IdleBrowser DEF Restart, BrowsersInHand
  <2>3. latest' \in Passwords /\ password' \in [of : Passwords, old : BOOLEAN]
    <3>1. latest < MaxPasswords => latest + 1 \in Passwords
      BY Zeros DEF TypeOK, Passwords
    <3>2. \A p \in Passwords : [of |-> p, old |-> FALSE] \in [of : Passwords, old : BOOLEAN]
      OBVIOUS
    <3>3. \/ latest < MaxPasswords /\ latest' = latest + 1 /\ password' = [of |-> latest', old |-> FALSE]
          \/ UNCHANGED <<password, latest>>
      BY <1>7 DEF Restart
    <3> QED BY <3>1, <3>2, <3>3 DEF TypeOK
  <2>4. opened' \in [Tokens -> Opened]
    <3>1. [NotOpened EXCEPT !.state = "gone"] \in Opened  BY Zeros
    <3> QED BY <1>7, <3>1 DEF TypeOK, Restart, DeleteSessions
  <2>5. restarts' \in 0..MaxRestarts  BY <1>7, Zeros DEF TypeOK, Restart
  <2>6. known' \in [Tokens -> {"no", "yes", "missed"}] /\ cut' \subseteq {"devices", "sessions"}
    BY <1>7 DEF TypeOK, Restart
  <2> QED BY <1>7, <2>1, <2>2, <2>3, <2>4, <2>5, <2>6 DEF TypeOK, Restart
<1> QED BY <1>2, <1>3, <1>4, <1>5, <1>6, <1>7

-----------------------------------------------------------------------------
(* Who moves *)

\* A step of one browser's request leaves the others where they are; of what they
\* carry, it may only note that they were overtaken.
BrowserStep(b) ==
  \/ \E p \in Passwords : Login(b, p)
  \/ \E t \in Tokens : Enter(b, t) \/ Logout(b, t)
  \/ SignInStep(b) \/ SessionStep(b) \/ PasswordStep(b) \/ BrowserEnds(b) \/ DeviceStep(b)

LEMMA OthersStay ==
  ASSUME TypeOK, NEW b \in Browsers, BrowserStep(b), NEW c \in Browsers \ {b}
  PROVE  /\ browser'[c].pc = browser[c].pc /\ browser'[c].token = browser[c].token
         /\ browser'[c].with = browser[c].with
         /\ browser[c].overtaken => browser'[c].overtaken
<1>1. browser'[c] = browser[c] \/ browser'[c] = Overtake(browser[c])
  <2>1. CASE SignOutAll(b)  BY <2>1 DEF SignOutAll
  <2>2. CASE \E t \in Tokens : Logout(b, t)  BY <2>2 DEF Logout
  <2>3. CASE FlushSessions(b)  BY <2>3 DEF FlushSessions
  <2>4. CASE \E r : SetBrowser(b, r)  BY <2>4 DEF TypeOK, SetBrowser
  <2>5. CASE \E pc : Goto(b, pc)  BY <2>4, <2>5 DEF Goto
  <2> QED BY <2>1, <2>2, <2>3, <2>4, <2>5
          DEF BrowserStep, SignInStep, SessionStep, PasswordStep, DeviceStep, Login, Enter, CheckHash, Rehash,
              OpenSession, KnowSession, CheckSession, RememberSession, Look, SetPassword, Unknow,
              BrowserEnds, Revoke, NewCode, Create, Forget
<1>2. browser[c] \in BrowserRequests  BY DEF TypeOK
<1> QED BY <1>1, <1>2, Overtaken

\* Where the request itself goes.
LEMMA StepMoves ==
  ASSUME TypeOK, InHand, NEW b \in Browsers
  PROVE  /\ \A p \in Passwords : Login(b, p) => At(b, "idle") /\ browser'[b].pc = "hash"
         /\ \A t \in Tokens : Enter(b, t) =>
              At(b, "idle") /\ browser'[b].pc \in {"do", "check"} /\ browser'[b].token = t
         /\ \A t \in Tokens : Logout(b, t) =>
              At(b, "idle") /\ browser'[b].pc = "unknow" /\ browser'[b].token = t
         /\ CheckHash(b) =>
              /\ At(b, "hash") /\ browser'[b].pc \in {"rehash", "open", "idle"}
              /\ (browser'[b].pc # "idle" => browser'[b].with = password.of)
              /\ (browser'[b].pc = "rehash" => password.old)
         /\ Rehash(b) => At(b, "rehash") /\ browser'[b].pc = "open"
              /\ browser'[b].with = browser[b].with /\ browser'[b].overtaken = browser[b].overtaken
         /\ CheckSession(b) =>
              /\ At(b, "check") /\ browser'[b].pc \in {"remember", "idle"}
              /\ (browser'[b].pc = "remember" => /\ browser'[b].token = browser[b].token
                                                 /\ opened[browser[b].token].state = "here")
         /\ RememberSession(b) => At(b, "remember") /\ browser'[b].pc = "do"
         /\ SetPassword(b) => At(b, "do") /\ browser'[b].pc = "signout"
         /\ SignOutAll(b) => At(b, "signout") /\ browser'[b].pc = "flush"
              /\ browser'[b].with = browser[b].with /\ browser'[b].overtaken = browser[b].overtaken
         /\ FlushSessions(b) => At(b, "flush") /\ browser'[b].pc = "open"
              /\ browser'[b].with = browser[b].with /\ browser'[b].overtaken = browser[b].overtaken
         /\ Look(b) => At(b, "do") /\ browser'[b].pc = "idle"
         /\ Unknow(b) => At(b, "unknow") /\ browser'[b].pc = "idle"
         /\ KnowSession(b) => At(b, "know") /\ browser'[b].pc = "idle"
         /\ BrowserEnds(b) => browser'[b].pc = "idle"
         /\ Create(b) => At(b, "do") /\ browser'[b].pc = "idle"
         /\ Forget(b) => At(b, "forget") /\ browser'[b].pc = "idle"
         /\ \A d \in Devices : Revoke(b, d) \/ NewCode(b, d) => At(b, "do") /\ browser'[b].pc = "forget"
<1>1. browser \in [Browsers -> BrowserRequests] /\ browser[b] \in BrowserRequests
  BY DEF TypeOK
<1>2. \A r : SetBrowser(b, r) => browser'[b] = r
  BY <1>1 DEF SetBrowser
<1>3. \A pc \in ConsolePc : Goto(b, pc) =>
        /\ browser'[b].pc = pc /\ browser'[b].token = browser[b].token
        /\ browser'[b].with = browser[b].with /\ browser'[b].overtaken = browser[b].overtaken
  <2> SUFFICES ASSUME NEW pc \in ConsolePc, Goto(b, pc)
               PROVE  /\ browser'[b].pc = pc /\ browser'[b].token = browser[b].token
                      /\ browser'[b].with = browser[b].with /\ browser'[b].overtaken = browser[b].overtaken
    OBVIOUS
  <2>1. browser'[b] = [browser[b] EXCEPT !.pc = pc]  BY <1>1 DEF Goto, SetBrowser
  <2> QED BY <1>1, <2>1 DEF BrowserRequests
<1>4. \A p \in Passwords : Login(b, p) => At(b, "idle") /\ browser'[b].pc = "hash"
  <2> SUFFICES ASSUME NEW p \in Passwords, Login(b, p) PROVE At(b, "idle") /\ browser'[b].pc = "hash"
    OBVIOUS
  <2>1. SetBrowser(b, [NoBrowser EXCEPT !.pc = "hash", !.with = p]) /\ At(b, "idle")  BY DEF Login
  <2>2. browser'[b] = [NoBrowser EXCEPT !.pc = "hash", !.with = p]  BY <1>1, <2>1 DEF SetBrowser
  <2> QED BY <2>1, <2>2 DEF NoBrowser
<1>5. \A t \in Tokens : Enter(b, t) =>
         At(b, "idle") /\ browser'[b].pc \in {"do", "check"} /\ browser'[b].token = t
  BY <1>2 DEF Enter, NoBrowser
<1>6. \A t \in Tokens : Logout(b, t) =>
         At(b, "idle") /\ browser'[b].pc = "unknow" /\ browser'[b].token = t
  BY DEF Logout, NoBrowser
<1>7. CheckHash(b) => /\ At(b, "hash") /\ browser'[b].pc \in {"rehash", "open", "idle"}
                      /\ (browser'[b].pc # "idle" => browser'[b].with = password.of)
                      /\ (browser'[b].pc = "rehash" => password.old)
  <2>1. ASSUME CheckHash(b), browser[b].with # password.of PROVE At(b, "hash") /\ browser'[b].pc = "idle"
    BY <1>2, <2>1, IdleBrowser DEF CheckHash
  <2>2. ASSUME CheckHash(b), browser[b].with = password.of
        PROVE  /\ At(b, "hash") /\ browser'[b].pc \in {"rehash", "open"}
               /\ browser'[b].with = password.of
               /\ browser'[b].pc = "rehash" => password.old
    <3>1. CASE Goto(b, "rehash") /\ password.old  BY <1>3, <2>2, <3>1 DEF CheckHash, ConsolePc
    <3>2. CASE Goto(b, "open")  BY <1>3, <2>2, <3>2 DEF CheckHash, ConsolePc
    <3> QED BY <2>2, <3>1, <3>2 DEF CheckHash
  <2> QED BY <2>1, <2>2
<1>8. Rehash(b) => At(b, "rehash") /\ browser'[b].pc = "open"
        /\ browser'[b].with = browser[b].with /\ browser'[b].overtaken = browser[b].overtaken
  BY <1>3 DEF Rehash, ConsolePc
<1>9. CheckSession(b) =>
        /\ At(b, "check") /\ browser'[b].pc \in {"remember", "idle"}
        /\ (browser'[b].pc = "remember" => /\ browser'[b].token = browser[b].token
                                           /\ opened[browser[b].token].state = "here")
  <2>1. ASSUME CheckSession(b), opened[browser[b].token].state # "here"
        PROVE  At(b, "check") /\ browser'[b].pc = "idle"
    BY <1>2, <2>1, IdleBrowser DEF CheckSession
  <2>2. ASSUME CheckSession(b), opened[browser[b].token].state = "here"
        PROVE  At(b, "check") /\ browser'[b].pc = "remember" /\ browser'[b].token = browser[b].token
    <3>1. Goto(b, "remember") /\ At(b, "check")  BY <2>2 DEF CheckSession
    <3> QED BY <1>3, <3>1 DEF ConsolePc
  <2> QED BY <2>1, <2>2
<1>10. RememberSession(b) => At(b, "remember") /\ browser'[b].pc = "do"
  <2> SUFFICES ASSUME RememberSession(b) PROVE At(b, "remember") /\ browser'[b].pc = "do"
    OBVIOUS
  <2>1. At(b, "remember") /\ browser[b].token \in Tokens
    BY DEF RememberSession, At, InHand, BrowsersInHand
  <2> QED BY <1>2, <2>1 DEF RememberSession, NoBrowser
<1>11. SetPassword(b) => At(b, "do") /\ browser'[b].pc = "signout"
  <2> SUFFICES ASSUME SetPassword(b) PROVE At(b, "do") /\ browser'[b].pc = "signout"
    OBVIOUS
  <2>1. latest' \in Passwords  BY Zeros DEF TypeOK, SetPassword, Passwords
  <2> QED BY <1>2, <2>1 DEF SetPassword, NoBrowser
<1>12. SignOutAll(b) => At(b, "signout") /\ browser'[b].pc = "flush"
        /\ browser'[b].with = browser[b].with /\ browser'[b].overtaken = browser[b].overtaken
  BY <1>1 DEF SignOutAll, BrowserRequests
<1>13. FlushSessions(b) => At(b, "flush") /\ browser'[b].pc = "open"
        /\ browser'[b].with = browser[b].with /\ browser'[b].overtaken = browser[b].overtaken
  BY <1>1 DEF FlushSessions, BrowserRequests
<1>14. /\ Look(b) => At(b, "do") /\ browser'[b].pc = "idle"
       /\ Unknow(b) => At(b, "unknow") /\ browser'[b].pc = "idle"
       /\ KnowSession(b) => At(b, "know") /\ browser'[b].pc = "idle"
       /\ BrowserEnds(b) => browser'[b].pc = "idle"
       /\ Create(b) => At(b, "do") /\ browser'[b].pc = "idle"
       /\ Forget(b) => At(b, "forget") /\ browser'[b].pc = "idle"
  BY <1>2, IdleBrowser DEF Look, Unknow, KnowSession, BrowserEnds, Create, Forget
<1>15. \A d \in Devices : Revoke(b, d) \/ NewCode(b, d) => At(b, "do") /\ browser'[b].pc = "forget"
  BY <1>3 DEF Revoke, NewCode, ConsolePc
<1> QED BY <1>4, <1>5, <1>6, <1>7, <1>8, <1>9, <1>10, <1>11, <1>12, <1>13, <1>14, <1>15

-----------------------------------------------------------------------------
(* Devices and their sessions *)

Forgetting == \E b \in Browsers : At(b, "forget")

\* Requests that are not about devices leave the promise to forget as it is.
LEMMA ForgettingStays ==
  ASSUME TypeOK, InHand, Forgetting,
         \/ UNCHANGED browser \/ \E b \in Browsers : BrowserStep(b) /\ ~Forget(b),
         cut \subseteq cut'
  PROVE  Forgetting' \/ "devices" \in cut'
<1>1. PICK c \in Browsers : At(c, "forget")  BY DEF Forgetting
<1>2. CASE UNCHANGED browser  BY <1>1, <1>2 DEF Forgetting, At
<1>3. ASSUME NEW b \in Browsers, BrowserStep(b), ~Forget(b) PROVE Forgetting' \/ "devices" \in cut'
  <2>1. CASE b # c  BY <1>1, <1>3, <2>1, OthersStay DEF Forgetting, At
  <2>2. CASE b = c /\ BrowserEnds(b)  BY <1>1, <2>2 DEF BrowserEnds, At
  <2>3. CASE b = c /\ ~BrowserEnds(b)
    BY <1>1, <1>3, <2>3 DEF BrowserStep, SignInStep, SessionStep, PasswordStep, DeviceStep, At, Login, Enter,
       Logout, CheckHash, Rehash, OpenSession, KnowSession, CheckSession, RememberSession, Look, SetPassword,
       SignOutAll, FlushSessions, Unknow, Revoke, NewCode, Create
  <2> QED BY <2>1, <2>2, <2>3
<1> QED BY <1>2, <1>3

LEMMA DevicesStarts == Init => DevicesInv
BY DEF Init, DeviceInit, DevicesInv, RevokedOnlyIfMissed, NoRequest

\* The tables and the cache as they are, and whoever has to forget not lost.
LEMMA DevicesKept ==
  ASSUME TypeOK, InHand, DevicesInv, UNCHANGED <<device, signed, app>>, cut \subseteq cut',
         \/ UNCHANGED browser \/ \E b \in Browsers : BrowserStep(b) /\ ~Forget(b)
  PROVE  DevicesInv'
<1>1. Forgetting => Forgetting' \/ "devices" \in cut'  BY ForgettingStays
<1>2. \A c \in Credentials, d \in Devices, late \in BOOLEAN : Vouched(c, d, late) => Vouched(c, d, late)'
  BY <1>1 DEF Vouched, Here, Forgetting
<1>3. \A a \in Apps : app[a].pc = "insert" =>
        /\ app[a].with \in Credentials /\ app[a].device \in Devices /\ app[a].missed \in BOOLEAN
  BY DEF InHand, AppsInHand, TypeOK, DeviceTypes, AppRequests
<1>4. RevokedOnlyIfMissed'
  BY <1>1 DEF DevicesInv, RevokedOnlyIfMissed, Here, Forgetting
<1>5. \A a \in Apps : app[a].pc = "insert" => Vouched(app[a].with, app[a].device, app[a].missed)'
  BY <1>1 DEF DevicesInv, Vouched, Here, Forgetting
<1> QED BY <1>4, <1>5 DEF DevicesInv

\* An app's request only puts into the cache what it found, or what it found before
\* the cache was emptied.
LEMMA DevicesServed ==
  ASSUME TypeOK, InHand, DevicesInv, AppNext
  PROVE  DevicesInv'
<1> USE DEF AppNext, consoleVars
<1>1. UNCHANGED <<browser, cut>>  OBVIOUS
<1> NoRequest.pc = "idle"  BY NewRequests
<1>2. CASE \E d \in Devices : CodeExpires(d)
  <2>1. PICK d \in Devices : CodeExpires(d)  BY <1>2
  <2>2. \A e \in Devices : device'[e].state = device[e].state /\ device'[e].code = device[e].code
    <3>1. device' = [device EXCEPT ![d] = [device[d] EXCEPT !.live = FALSE]] \/
          device' = [device EXCEPT ![d] = [device[d] EXCEPT !.live = FALSE, !.legacy = FALSE]]
      BY <2>1 DEF CodeExpires, TypeOK, DeviceTypes
    <3>2. device[d] \in DeviceRows /\ \A e \in Devices \ {d} : device'[e] = device[e]
      BY <3>1 DEF TypeOK, DeviceTypes
    <3>3. /\ [device[d] EXCEPT !.live = FALSE].state = device[d].state
          /\ [device[d] EXCEPT !.live = FALSE].code = device[d].code
          /\ [device[d] EXCEPT !.live = FALSE, !.legacy = FALSE].state = device[d].state
          /\ [device[d] EXCEPT !.live = FALSE, !.legacy = FALSE].code = device[d].code
      BY <3>2 DEF DeviceRows
    <3>4. device'[d] = [device[d] EXCEPT !.live = FALSE] \/
          device'[d] = [device[d] EXCEPT !.live = FALSE, !.legacy = FALSE]
      BY <3>1 DEF TypeOK, DeviceTypes
    <3> QED BY <3>2, <3>3, <3>4
  <2>3. UNCHANGED <<signed, app>>  BY <2>1 DEF CodeExpires
  <2>4. \A c \in Credentials : signed[c] # None => signed[c].device \in Devices
    BY DEF TypeOK, DeviceTypes, CachedSessions
  <2>5. RevokedOnlyIfMissed'
    BY <1>1, <2>2, <2>3, <2>4 DEF DevicesInv, RevokedOnlyIfMissed, Here, At
  <2>6. \A a \in Apps : app[a].pc = "insert" => Vouched(app[a].with, app[a].device, app[a].missed)'
    BY <1>1, <2>2, <2>3 DEF DevicesInv, InHand, AppsInHand, Vouched, Here, At
  <2> QED BY <2>3, <2>5, <2>6 DEF DevicesInv
<1>3. CASE \E c \in Credentials : SessionExpires(c)
  <2>1. UNCHANGED <<device, app>> /\ \A c \in Credentials : signed'[c] # None => signed'[c] = signed[c]
    BY <1>3 DEF SessionExpires, TypeOK, DeviceTypes
  <2> QED BY <1>1, <2>1 DEF DevicesInv, RevokedOnlyIfMissed, Vouched, Here, At
<1>4. ASSUME NEW a \in Apps,
             \/ \E c \in Credentials : Present(a, c) \/ Pair(a, c)
             \/ AppStep(a) \/ AppEnds(a)
      PROVE  DevicesInv'
  <2>1. device' = device  BY <1>4 DEF Present, Pair, AppStep, AppEnds, Find, Insert, Serve, Trade, Issue
  <2>2. \A e \in Apps \ {a} : app'[e] = app[e]
    BY <1>4 DEF Present, Pair, AppStep, AppEnds, Find, Insert, Serve, Trade, Issue, SetApp, TypeOK, DeviceTypes
  <2>3. CASE Find(a)
    <3>1. signed' = signed  BY <2>3 DEF Find
    <3>2. app'[a].pc = "insert" => Vouched(app[a].with, app[a].device, app[a].missed)'
      <4>1. CASE SetApp(a, NoRequest)
        BY <4>1 DEF SetApp, TypeOK, DeviceTypes
      <4>2. ASSUME NEW d \in Devices, Resolves(app[a].with, d),
                   SetApp(a, [app[a] EXCEPT !.pc = "insert", !.device = d])
            PROVE  Vouched(app[a].with, app[a].device, app[a].missed)'
        <5>1. app'[a].with = app[a].with /\ app'[a].device = d
          BY <4>2 DEF SetApp, TypeOK, DeviceTypes, AppRequests
        <5>2. Here(d) /\ (app[a].with \in Keys \/ device[d].code = app[a].with)
          BY <4>2 DEF Resolves
        <5> QED BY <2>1, <5>1, <5>2 DEF Vouched, Here
      <4> QED BY <2>3, <4>1, <4>2 DEF Find
    <3>3. RevokedOnlyIfMissed'
      BY <1>1, <2>1, <3>1 DEF DevicesInv, RevokedOnlyIfMissed, Here, At
    <3>4. \A e \in Apps \ {a} : app'[e].pc = "insert" => Vouched(app[e].with, app[e].device, app[e].missed)'
      BY <1>1, <2>1, <2>2 DEF DevicesInv, Vouched, Here, At
    <3> QED BY <3>2, <3>3, <3>4 DEF DevicesInv
  <2>4. CASE ~Find(a)
    <3>1. app'[a].pc # "insert"
      <4>1. CASE SetApp(a, NoRequest)
        BY <4>1 DEF SetApp, TypeOK, DeviceTypes
      <4>2. ASSUME NEW c \in Credentials, Present(a, c) \/ Pair(a, c) PROVE app'[a].pc # "insert"
        <5>1. \E r : SetApp(a, r) /\ r.pc \in {"serve", "find", "trade"}
          <6>1. CASE SetApp(a, [NoRequest EXCEPT !.pc = "serve", !.device = signed[c].device])
            <7>1. [NoRequest EXCEPT !.pc = "serve", !.device = signed[c].device].pc = "serve"  BY DEF NoRequest
            <7> QED BY <6>1, <7>1
          <6>2. CASE \E pc \in {"find", "trade"} : SetApp(a, [NoRequest EXCEPT !.pc = pc, !.with = c])
            <7>1. \A pc \in {"find", "trade"} : [NoRequest EXCEPT !.pc = pc, !.with = c].pc = pc  BY DEF NoRequest
            <7> QED BY <6>2, <7>1
          <6>3. CASE signed[c] # None /\ Present(a, c)  BY <6>1, <6>3 DEF Present
          <6>4. CASE signed[c] = None /\ Present(a, c)  BY <6>2, <6>4 DEF Present
          <6> QED BY <4>2, <6>2, <6>3, <6>4 DEF Pair
        <5> QED BY <5>1 DEF SetApp, TypeOK, DeviceTypes
      <4>3. CASE Insert(a)  BY <4>3 DEF Insert, SetApp, NoRequest, TypeOK, DeviceTypes
      <4>4. CASE Trade(a)
        <5>1. ASSUME NEW d \in Devices, SetApp(a, [NoRequest EXCEPT !.pc = "issue", !.device = d])
              PROVE  app'[a].pc # "insert"
          BY <5>1 DEF SetApp, NoRequest, TypeOK, DeviceTypes
        <5> QED BY <4>1, <4>4, <5>1 DEF Trade
      <4> QED BY <1>4, <2>4, <4>1, <4>2, <4>3, <4>4 DEF AppStep, AppEnds, Serve, Issue
    <3>2. \A e \in Apps \ {a} : app'[e].pc = "insert" => Vouched(app[e].with, app[e].device, app[e].missed)'
      BY <1>1, <2>1, <2>2 DEF DevicesInv, Vouched, Here, At
    <3>3. RevokedOnlyIfMissed'
      <4>1. CASE Insert(a)
        <5>1. Vouched(app[a].with, app[a].device, app[a].missed) /\ app[a].with \in Credentials
          BY <4>1 DEF Insert, DevicesInv, InHand, AppsInHand
        <5>2. signed' = [signed EXCEPT ![app[a].with] = [device |-> app[a].device, missed |-> app[a].missed]]
          BY <4>1 DEF Insert
        <5> QED BY <1>1, <2>1, <5>1, <5>2
                DEF DevicesInv, RevokedOnlyIfMissed, Vouched, Here, At, TypeOK, DeviceTypes
      <4>2. CASE ~Insert(a)
        <5>1. signed' = signed
          BY <1>4, <2>4, <4>2 DEF Present, Pair, AppStep, AppEnds, Serve, Trade, Issue
        <5> QED BY <1>1, <2>1, <5>1 DEF DevicesInv, RevokedOnlyIfMissed, Here, At
      <4> QED BY <4>1, <4>2
    <3> QED BY <3>1, <3>2, <3>3 DEF DevicesInv
  <2> QED BY <2>3, <2>4
<1> QED BY <1>2, <1>3, <1>4

\* The console's own steps promise to forget, forget, or concern a new device.
LEMMA DevicesManaged ==
  ASSUME TypeOK, InHand, DevicesInv, NEW b \in Browsers, DeviceStep(b)
  PROVE  DevicesInv'
<1>1. CASE \E d \in Devices : Revoke(b, d) \/ NewCode(b, d)
  <2>1. browser'[b].pc = "forget"  BY <1>1, StepMoves
  <2> QED BY <2>1 DEF DevicesInv, RevokedOnlyIfMissed, Vouched, At
<1>2. CASE Create(b)
  <2>1. \A d \in Devices : device[d].state = "here" => device'[d] = device[d]
    BY <1>2 DEF Create, CreateDevice, TypeOK, DeviceTypes
  <2>2. UNCHANGED <<signed, app, cut>>  BY <1>2 DEF Create
  <2>3. Forgetting => Forgetting' \/ "devices" \in cut'
    BY <1>2, ForgettingStays DEF BrowserStep, DeviceStep, Create, Forget, At
  <2>4. \A c \in Credentials : signed[c] # None => signed[c].device \in Devices
    BY DEF TypeOK, DeviceTypes, CachedSessions
  <2>5. RevokedOnlyIfMissed'
    BY <2>1, <2>2, <2>3, <2>4 DEF DevicesInv, RevokedOnlyIfMissed, Here, Forgetting
  <2>6. \A a \in Apps : app[a].pc = "insert" => Vouched(app[a].with, app[a].device, app[a].missed)'
    BY <2>1, <2>2, <2>3 DEF DevicesInv, InHand, AppsInHand, Vouched, Here, Forgetting
  <2> QED BY <2>2, <2>5, <2>6 DEF DevicesInv
<1>3. CASE Forget(b)
  <2>1. \A c \in Credentials : signed'[c] = None  BY <1>3 DEF Forget, ForgetSessions
  <2>2. \A a \in Apps : app'[a].pc = "insert" => app'[a].missed
    <3> SUFFICES ASSUME NEW a \in Apps, app'[a].pc = "insert" PROVE app'[a].missed
      OBVIOUS
    <3>1. app[a] \in AppRequests  BY DEF TypeOK, DeviceTypes
    <3>2. app'[a] = IF app[a].pc = "insert" THEN [app[a] EXCEPT !.missed = TRUE] ELSE app[a]
      BY <1>3 DEF Forget, ForgetSessions
    <3> QED BY <3>1, <3>2, LateRequest
  <2> QED BY <2>1, <2>2 DEF DevicesInv, RevokedOnlyIfMissed, Vouched
<1> QED BY <1>1, <1>2, <1>3 DEF DeviceStep

LEMMA DevicesSteps ==
  ASSUME TypeOK, InHand, DevicesInv, [Next]_vars
  PROVE  DevicesInv'
<1>1. CASE AppNext  BY <1>1, DevicesServed
<1>2. CASE \E b \in Browsers : DeviceStep(b)  BY <1>2, DevicesManaged
<1>3. CASE Restart
  BY <1>3, NewRequests DEF Restart, Boot, DevicesInv, RevokedOnlyIfMissed
<1>4. CASE \/ UNCHANGED vars \/ \E t \in Tokens : TokenExpires(t)
           \/ \E bucket \in {"auth", "credential"} : WindowEnds(bucket) /\ UNCHANGED consoleVars
  <2>1. UNCHANGED <<device, signed, app, browser, cut>>
    BY <1>4 DEF vars, deviceVars, consoleVars, TokenExpires, WindowEnds
  <2> QED BY <2>1, DevicesKept
<1>5. ASSUME NEW b \in Browsers,
             \/ \E p \in Passwords : Login(b, p)
             \/ \E t \in Tokens : Enter(b, t) \/ Logout(b, t)
             \/ SignInStep(b) \/ SessionStep(b) \/ PasswordStep(b) \/ BrowserEnds(b)
      PROVE  DevicesInv'
  <2> USE DEF Login, Enter, Logout, SignInStep, SessionStep, PasswordStep, BrowserEnds, CheckHash, Rehash,
              OpenSession, KnowSession, CheckSession, RememberSession, Look, SetPassword, SignOutAll,
              FlushSessions, Unknow
  <2>1. UNCHANGED <<device, signed, app>> /\ cut \subseteq cut'  BY <1>5 DEF deviceVars
  <2>2. CASE Forget(b)
    <3>1. browser'[b].pc = "idle" /\ At(b, "forget") /\ cut' = cut  BY <2>2, StepMoves DEF Forget
    <3>2. BrowserEnds(b)  BY <1>5, <3>1 DEF At
    <3> QED BY <3>1, <3>2, DevicesManaged, <2>2 DEF DeviceStep
  <2>3. CASE ~Forget(b)  BY <1>5, <2>1, <2>3, DevicesKept DEF BrowserStep
  <2> QED BY <2>2, <2>3
<1> QED BY <1>1, <1>2, <1>3, <1>4, <1>5 DEF Next, SessionNext, ConsoleNext

-----------------------------------------------------------------------------
(* Signed-in browsers *)

SigningOut(t) == \E b \in Browsers : At(b, "flush") \/ (At(b, "unknow") /\ browser[b].token = t)

\* Whoever has to take a token from the cache does, or is cut off before.
LEMMA SigningOutStays ==
  ASSUME TypeOK, NEW b \in Browsers, BrowserStep(b), ~FlushSessions(b), ~Unknow(b),
         NEW t \in Tokens, SigningOut(t), cut \subseteq cut'
  PROVE  SigningOut(t)' \/ "sessions" \in cut'
<1>1. PICK c \in Browsers : At(c, "flush") \/ (At(c, "unknow") /\ browser[c].token = t)
  BY DEF SigningOut
<1>2. CASE b # c  BY <1>1, <1>2, OthersStay DEF SigningOut, At
<1>3. CASE b = c /\ BrowserEnds(b)  BY <1>1, <1>3 DEF BrowserEnds, At
<1>4. CASE b = c /\ ~BrowserEnds(b)
  BY <1>1, <1>4 DEF BrowserStep, SignInStep, SessionStep, PasswordStep, DeviceStep, At, Login, Enter,
     Logout, CheckHash, Rehash, OpenSession, KnowSession, CheckSession, RememberSession, Look, SetPassword,
     SignOutAll, Revoke, NewCode, Create, Forget
<1> QED BY <1>2, <1>3, <1>4

LEMMA SessionsStarts == Init => SessionsInv
BY IdleBrowser DEF Init, SessionsInv, SignedOutOnlyIfMissed, TokensFresh, At

\* A step that leaves table, cache and cookies, and lets nobody in.
LEMMA SessionsKept ==
  ASSUME TypeOK, SessionsInv, NEW b \in Browsers, BrowserStep(b), ~FlushSessions(b), ~Unknow(b),
         UNCHANGED <<opened, cookies, known>>, cut \subseteq cut',
         \/ browser'[b].pc \notin {"know", "remember"}
         \/ /\ browser'[b].pc = "remember"
            /\ browser'[b].token = browser[b].token /\ opened[browser[b].token].state = "here"
  PROVE  SessionsInv'
<1>1. SignedOutOnlyIfMissed'
  BY SigningOutStays DEF SessionsInv, SignedOutOnlyIfMissed, SigningOut
<1>2. TokensFresh'
  BY OthersStay DEF SessionsInv, TokensFresh, At
<1>3. \A c \in Browsers : browser'[c].pc \in {"know", "remember"} =>
        opened'[browser'[c].token].state = "here" \/ browser'[c].overtaken
  BY OthersStay DEF SessionsInv
<1> QED BY <1>1, <1>2, <1>3 DEF SessionsInv

\* A new session, for a token nobody has.
LEMMA SessionOpens ==
  ASSUME TypeOK, SessionsInv, NEW b \in Browsers, OpenSession(b)
  PROVE  SessionsInv'
<1>1. PICK t \in Tokens :
        /\ opened[t].state = "new"
        /\ opened' = [opened EXCEPT ![t] =
             [state |-> "here", with |-> browser[b].with, overtaken |-> browser[b].overtaken]]
        /\ SetBrowser(b, [NoBrowser EXCEPT !.pc = "know", !.token = t])
  BY DEF OpenSession
<1>2. browser'[b].pc = "know" /\ browser'[b].token = t
  BY <1>1 DEF SetBrowser, NoBrowser, TypeOK
<1>3. opened'[t].state = "here" /\ \A u \in Tokens \ {t} : opened'[u] = opened[u]
  BY <1>1 DEF TypeOK
<1>4. UNCHANGED <<cookies, known, cut>> /\ At(b, "open")  BY DEF OpenSession
<1>5. BrowserStep(b) /\ ~FlushSessions(b) /\ ~Unknow(b)
  BY <1>4 DEF BrowserStep, SignInStep, FlushSessions, Unknow, At
<1>6. SignedOutOnlyIfMissed'
  BY <1>3, <1>4, <1>5, SigningOutStays DEF SessionsInv, SignedOutOnlyIfMissed, SigningOut
<1>7. cookies \subseteq Tokens /\ t \notin cookies /\ \A u \in cookies : opened'[u].state # "new"
  BY <1>1, <1>3 DEF TypeOK, SessionsInv, TokensFresh
<1>8. \A c \in Browsers \ {b} : /\ browser'[c].pc = browser[c].pc /\ browser'[c].token = browser[c].token
                                /\ browser'[c].overtaken = browser[c].overtaken
  BY <1>1 DEF SetBrowser, TypeOK
<1>9. \A c \in Browsers \ {b} : browser[c].pc = "know" =>
        browser[c].token # t /\ opened'[browser[c].token].state # "new"
  BY <1>1 DEF SessionsInv, TokensFresh, At, TypeOK
<1>10. TokensFresh'
  BY <1>2, <1>3, <1>4, <1>7, <1>8, <1>9 DEF SessionsInv, TokensFresh, At
<1>11. \A c \in Browsers : browser'[c].pc \in {"know", "remember"} =>
         opened'[browser'[c].token].state = "here" \/ browser'[c].overtaken
  BY <1>1, <1>2, <1>3, <1>8 DEF SessionsInv, TypeOK
<1> QED BY <1>6, <1>10, <1>11 DEF SessionsInv

\* A browser is let in, or told its token.
LEMMA SessionKnown ==
  ASSUME TypeOK, InHand, SessionsInv, NEW b \in Browsers, KnowSession(b) \/ RememberSession(b)
  PROVE  SessionsInv'
<1> DEFINE t == browser[b].token
<1>1. t \in Tokens /\ browser[b].pc \in {"know", "remember"}
  BY DEF KnowSession, RememberSession, At, InHand, BrowsersInHand
<1>2. /\ known' = [known EXCEPT ![t] = IF browser[b].overtaken THEN "missed" ELSE "yes"]
      /\ UNCHANGED <<opened, cut>>
  BY DEF KnowSession, RememberSession
<1>3. browser'[b].pc \in {"idle", "do"}  BY StepMoves
<1>4. BrowserStep(b) /\ ~FlushSessions(b) /\ ~Unknow(b)
  BY <1>1 DEF BrowserStep, SignInStep, SessionStep, FlushSessions, Unknow, At
<1>5. opened[t].state = "here" \/ browser[b].overtaken
  BY <1>1 DEF SessionsInv
<1>6. known'[t] = "missed" \/ opened[t].state = "here"
  BY <1>1, <1>2, <1>5 DEF TypeOK
<1>7. \A u \in Tokens \ {t} : known'[u] = known[u]  BY <1>2 DEF TypeOK
<1>8. SignedOutOnlyIfMissed'
  BY <1>2, <1>4, <1>6, <1>7, SigningOutStays DEF SessionsInv, SignedOutOnlyIfMissed, SigningOut
<1>9. TokensFresh'
  <2>1. CASE RememberSession(b)
    <3>1. cookies' = cookies  BY <2>1 DEF RememberSession
    <3> QED BY <1>2, <1>3, <1>4, <3>1, OthersStay DEF SessionsInv, TokensFresh, At
  <2>2. CASE KnowSession(b)
    <3>1. cookies' = cookies \cup {t} /\ At(b, "know")  BY <2>2 DEF KnowSession
    <3>2. opened[t].state # "new"  BY <3>1 DEF SessionsInv, TokensFresh
    <3>3. \A c \in Browsers \ {b} : At(c, "know") => browser[c].token # t
      BY <3>1 DEF SessionsInv, TokensFresh
    <3> QED BY <1>2, <1>3, <1>4, <3>1, <3>2, <3>3, OthersStay DEF SessionsInv, TokensFresh, At
  <2> QED BY <2>1, <2>2
<1>10. \A c \in Browsers : browser'[c].pc \in {"know", "remember"} =>
         opened'[browser'[c].token].state = "here" \/ browser'[c].overtaken
  BY <1>2, <1>3, <1>4, OthersStay DEF SessionsInv
<1> QED BY <1>8, <1>9, <1>10 DEF SessionsInv

\* Everyone is signed out; who was about to be let in is noted.
LEMMA SessionsEnd ==
  ASSUME TypeOK, InHand, SessionsInv, NEW b \in Browsers, SignOutAll(b)
  PROVE  SessionsInv'
<1>1. UNCHANGED <<cookies, known, cut>> /\ At(b, "signout") /\ browser'[b].pc = "flush"
  BY StepMoves DEF SignOutAll
<1>2. \A t \in Tokens : (opened'[t].state = "new") <=> (opened[t].state = "new")
  <2>1. [NotOpened EXCEPT !.state = "gone"].state = "gone"  BY Zeros
  <2> QED BY <2>1 DEF SignOutAll, DeleteSessions
<1>3. \A c \in Browsers \ {b} : browser'[c] = Overtake(browser[c]) /\ browser[c] \in BrowserRequests
  BY DEF SignOutAll, TypeOK
<1>4. \A c \in Browsers \ {b} :
        /\ browser'[c].pc = browser[c].pc /\ browser'[c].token = browser[c].token
        /\ browser[c].pc \in {"know", "remember"} => browser'[c].overtaken
  BY <1>3, Overtaken
<1>5. SignedOutOnlyIfMissed'
  BY <1>1 DEF SignedOutOnlyIfMissed, At
<1>6. \A c \in Browsers : At(c, "know") => browser[c].token \in Tokens
  BY DEF InHand, BrowsersInHand, At
<1>7. cookies \subseteq Tokens  BY DEF TypeOK
<1>8. TokensFresh'
  BY <1>1, <1>2, <1>4, <1>6, <1>7 DEF SessionsInv, TokensFresh, At
<1>9. \A c \in Browsers : browser'[c].pc \in {"know", "remember"} =>
        opened'[browser'[c].token].state = "here" \/ browser'[c].overtaken
  BY <1>1, <1>4
<1> QED BY <1>5, <1>8, <1>9 DEF SessionsInv

\* One browser signs out.
LEMMA SessionEnds ==
  ASSUME TypeOK, InHand, SessionsInv, NEW b \in Browsers, NEW t \in Tokens, Logout(b, t)
  PROVE  SessionsInv'
<1>1. /\ UNCHANGED <<cookies, known, cut>> /\ At(b, "idle") /\ t \in cookies
      /\ browser'[b].pc = "unknow" /\ browser'[b].token = t
  BY StepMoves DEF Logout
<1>2. opened'[t].state = "gone" /\ \A u \in Tokens \ {t} : opened'[u] = opened[u]
  BY Zeros DEF Logout, TypeOK
<1>3. \A c \in Browsers \ {b} :
        browser'[c] = (IF At(c, "remember") /\ browser[c].token = t THEN Overtake(browser[c]) ELSE browser[c])
  BY DEF Logout
<1>4. \A c \in Browsers \ {b} : /\ browser'[c].pc = browser[c].pc /\ browser'[c].token = browser[c].token
                                /\ browser[c].overtaken => browser'[c].overtaken
  BY OthersStay DEF BrowserStep
<1>5. \A c \in Browsers \ {b} : At(c, "remember") /\ browser[c].token = t => browser'[c].overtaken
  BY <1>3, Overtaken DEF TypeOK, At
<1>6. BrowserStep(b) /\ ~FlushSessions(b) /\ ~Unknow(b)
  BY <1>1 DEF BrowserStep, FlushSessions, Unknow, At
<1>7. SignedOutOnlyIfMissed'
  <2>1. SigningOut(t)'  BY <1>1 DEF SigningOut, At
  <2>2. \A u \in Tokens : SigningOut(u) => SigningOut(u)' \/ "sessions" \in cut'
    BY <1>1, <1>6, SigningOutStays
  <2> QED BY <1>1, <1>2, <2>1, <2>2 DEF SessionsInv, SignedOutOnlyIfMissed, SigningOut
<1>8. \A c \in Browsers : browser[c].pc \in {"know", "remember"} => browser[c].token \in Tokens
  BY DEF InHand, BrowsersInHand
<1>9. \A c \in Browsers : browser[c].pc = "know" => browser[c].token # t
  BY <1>1 DEF SessionsInv, TokensFresh, At
<1>10. cookies \subseteq Tokens  BY DEF TypeOK
<1>11. TokensFresh'
  <2>1. \A u \in cookies : opened'[u].state # "new"
    BY <1>2, <1>10 DEF SessionsInv, TokensFresh
  <2>2. \A c \in Browsers : browser'[c].pc = "know" => c \in Browsers \ {b} /\ browser[c].pc = "know"
    BY <1>1, <1>4
  <2>3. \A c \in Browsers : browser'[c].pc = "know" =>
          opened'[browser'[c].token].state # "new" /\ browser'[c].token \notin cookies
    BY <1>2, <1>4, <1>8, <1>9, <2>2 DEF SessionsInv, TokensFresh, At
  <2>4. \A c, d \in Browsers : browser'[c].pc = "know" /\ browser'[d].pc = "know" /\ c # d =>
          browser'[c].token # browser'[d].token
    BY <1>4, <2>2 DEF SessionsInv, TokensFresh, At
  <2> QED BY <1>1, <2>1, <2>3, <2>4 DEF TokensFresh, At
<1>12. ASSUME NEW c \in Browsers, browser'[c].pc \in {"know", "remember"}
       PROVE  opened'[browser'[c].token].state = "here" \/ browser'[c].overtaken
  <2>1. c # b /\ browser[c].pc = browser'[c].pc /\ browser[c].token = browser'[c].token
    BY <1>1, <1>4, <1>12
  <2>2. CASE browser[c].token = t  BY <1>5, <1>9, <1>12, <2>1, <2>2 DEF At
  <2>3. CASE browser[c].token # t  BY <1>2, <1>4, <1>8, <1>12, <2>1, <2>3 DEF SessionsInv
  <2> QED BY <2>2, <2>3
<1> QED BY <1>7, <1>11, <1>12 DEF SessionsInv

\* The cache is emptied, or loses one token.
LEMMA SessionsForgotten ==
  ASSUME TypeOK, InHand, SessionsInv, NEW b \in Browsers, FlushSessions(b) \/ Unknow(b)
  PROVE  SessionsInv'
<1>1. UNCHANGED <<opened, cookies, cut>> /\ browser'[b].pc \in {"open", "idle"}
  BY StepMoves DEF FlushSessions, Unknow
<1>2. BrowserStep(b)  BY DEF BrowserStep, PasswordStep
<1>3. TokensFresh' /\ \A c \in Browsers : browser'[c].pc \in {"know", "remember"} =>
        opened'[browser'[c].token].state = "here" \/ browser'[c].overtaken
  BY <1>1, <1>2, OthersStay DEF SessionsInv, TokensFresh, At
<1>4. SignedOutOnlyIfMissed'
  <2>1. CASE FlushSessions(b)  BY <2>1 DEF FlushSessions, SignedOutOnlyIfMissed
  <2>2. CASE Unknow(b)
    <3> DEFINE t == browser[b].token
    <3>1. t \in Tokens /\ At(b, "unknow")  BY <2>2 DEF Unknow, At, InHand, BrowsersInHand
    <3>2. known' = [known EXCEPT ![t] = "no"]  BY <2>2 DEF Unknow
    <3>3. \A u \in Tokens \ {t} : SigningOut(u) => SigningOut(u)'
      BY <1>2, <3>1, OthersStay DEF SigningOut, At
    <3> QED BY <1>1, <3>1, <3>2, <3>3 DEF SessionsInv, SignedOutOnlyIfMissed, SigningOut, TypeOK
  <2> QED BY <2>1, <2>2
<1> QED BY <1>3, <1>4 DEF SessionsInv

LEMMA SessionsSteps ==
  ASSUME TypeOK, InHand, SessionsInv, [Next]_vars
  PROVE  SessionsInv'
<1>1. CASE UNCHANGED <<opened, cookies, known, browser, cut>>
  BY <1>1 DEF SessionsInv, SignedOutOnlyIfMissed, TokensFresh, At
<1>2. CASE \E t \in Tokens : TokenExpires(t)
  <2>1. UNCHANGED <<opened, cookies, browser, cut>> /\ \A t \in Tokens : known'[t] \in {known[t], "no"}
    BY <1>2 DEF TokenExpires, TypeOK
  <2> QED BY <2>1 DEF SessionsInv, SignedOutOnlyIfMissed, TokensFresh, At
<1>3. CASE Restart
  <2>1. /\ cookies' = cookies /\ \A t \in Tokens : known'[t] = "no"
        /\ \A b \in Browsers : browser'[b].pc = "idle"
    BY <1>3, IdleBrowser DEF Restart
  <2>2. \A t \in Tokens : opened'[t].state = "new" => opened[t].state = "new"
    BY <1>3, Zeros DEF Restart, DeleteSessions
  <2>3. cookies \subseteq Tokens  BY DEF TypeOK
  <2> QED BY <2>1, <2>2, <2>3 DEF SessionsInv, SignedOutOnlyIfMissed, TokensFresh, At
<1>4. ASSUME NEW b \in Browsers, BrowserStep(b) PROVE SessionsInv'
  <2>1. CASE OpenSession(b)  BY <2>1, SessionOpens
  <2>2. CASE KnowSession(b) \/ RememberSession(b)  BY <2>2, SessionKnown
  <2>3. CASE SignOutAll(b)  BY <2>3, SessionsEnd
  <2>4. CASE FlushSessions(b) \/ Unknow(b)  BY <2>4, SessionsForgotten
  <2>5. CASE \E t \in Tokens : Logout(b, t)  BY <2>5, SessionEnds
  <2>6. CASE CheckSession(b)
    <3>1. UNCHANGED <<opened, cookies, known, cut>> /\ At(b, "check")  BY <2>6 DEF CheckSession
    <3>2. /\ browser'[b].pc \in {"remember", "idle"}
          /\ browser'[b].pc = "remember" => /\ browser'[b].token = browser[b].token
                                            /\ opened[browser[b].token].state = "here"
      BY <2>6, StepMoves
    <3>3. ~FlushSessions(b) /\ ~Unknow(b)  BY <3>1 DEF FlushSessions, Unknow, At
    <3> QED BY <1>4, <3>1, <3>2, <3>3, SessionsKept
  <2>7. ASSUME \/ \E p \in Passwords : Login(b, p)
               \/ \E t \in Tokens : Enter(b, t)
               \/ CheckHash(b) \/ Rehash(b) \/ Look(b) \/ SetPassword(b) \/ BrowserEnds(b) \/ DeviceStep(b)
        PROVE  SessionsInv'
    <3>1. UNCHANGED <<opened, cookies, known>> /\ cut \subseteq cut'
      BY <2>7 DEF Login, Enter, CheckHash, Rehash, Look, SetPassword, BrowserEnds, DeviceStep, Revoke,
                  NewCode, Create, Forget
    <3>2. browser'[b].pc \notin {"know", "remember"}
      <4>1. CASE \E p \in Passwords : Login(b, p)  BY <4>1, StepMoves
      <4>2. CASE \E t \in Tokens : Enter(b, t)  BY <4>2, StepMoves
      <4>3. CASE CheckHash(b)  BY <4>3, StepMoves
      <4>4. CASE Rehash(b) \/ Look(b) \/ SetPassword(b) \/ BrowserEnds(b)  BY <4>4, StepMoves
      <4>5. CASE DeviceStep(b)  BY <4>5, StepMoves DEF DeviceStep
      <4> QED BY <2>7, <4>1, <4>2, <4>3, <4>4, <4>5
    <3>3. CASE FlushSessions(b) \/ Unknow(b)  BY <3>3, SessionsForgotten
    <3>4. CASE ~FlushSessions(b) /\ ~Unknow(b)  BY <1>4, <3>1, <3>2, <3>4, SessionsKept
    <3> QED BY <3>3, <3>4
  <2> QED BY <1>4, <2>1, <2>2, <2>3, <2>4, <2>5, <2>6, <2>7
          DEF BrowserStep, SignInStep, SessionStep, PasswordStep
<1>5. CASE \/ AppNext \/ UNCHANGED vars
           \/ \E bucket \in {"auth", "credential"} : WindowEnds(bucket) /\ UNCHANGED consoleVars
  BY <1>1, <1>5 DEF AppNext, vars, consoleVars
<1> QED BY <1>2, <1>3, <1>4, <1>5 DEF Next, SessionNext, ConsoleNext, BrowserStep

-----------------------------------------------------------------------------
(* The password *)

\* Whoever is about to sign everyone out does, or is cut off before.
LEMMA SigningAllOutStays ==
  ASSUME TypeOK, NEW b \in Browsers, BrowserStep(b), ~SignOutAll(b), cut \subseteq cut',
         NEW c \in Browsers, At(c, "signout")
  PROVE  At(c, "signout")' \/ "sessions" \in cut'
<1>1. CASE b # c  BY <1>1, OthersStay DEF At
<1>2. CASE b = c /\ BrowserEnds(b)  BY <1>2 DEF BrowserEnds, At
<1>3. CASE b = c /\ ~BrowserEnds(b)
  BY <1>3 DEF BrowserStep, SignInStep, SessionStep, PasswordStep, DeviceStep, At, Login, Enter,
     Logout, CheckHash, Rehash, OpenSession, KnowSession, CheckSession, RememberSession, Look, SetPassword,
     FlushSessions, Unknow, Revoke, NewCode, Create, Forget
<1> QED BY <1>1, <1>2, <1>3

LEMMA PasswordStarts == Init => PasswordInv
<1> SUFFICES ASSUME Init PROVE PasswordInv
  OBVIOUS
<1>1. \A t \in Tokens : opened[t].state = "new"  BY DEF Init, NotOpened
<1>2. \A b \in Browsers : browser[b].pc = "idle"  BY IdleBrowser DEF Init
<1>3. password.of = 0 /\ latest = 0 /\ (password.old => upgraded)  BY DEF Init
<1> QED BY <1>1, <1>2, <1>3
        DEF PasswordInv, OldPasswordOnlyIfOvertaken, LastPasswordStands, OldHash, Entering, At

\* What excuses a session excuses it after a step that leaves the password.
LEMMA ExcuseStays ==
  ASSUME TypeOK, NEW b \in Browsers, BrowserStep(b), ~SignOutAll(b), UNCHANGED <<password, latest>>,
         cut \subseteq cut', NEW c \in Browsers, Excused(c),
         browser'[c].with = browser[c].with, browser[c].overtaken => browser'[c].overtaken
  PROVE  Excused(c)'
<1>1. ASSUME NEW d \in Browsers \ {c}, At(d, "signout") PROVE Excused(c)'
  <2>1. At(d, "signout")' \/ "sessions" \in cut'  BY <1>1, SigningAllOutStays
  <2> QED BY <2>1 DEF Excused
<1>2. CASE \/ browser[c].with = latest \/ browser[c].overtaken
           \/ "sessions" \in cut \/ password.of # latest
  BY <1>2 DEF Excused
<1> QED BY <1>1, <1>2 DEF Excused

\* A step that leaves the password, and the table but for sessions it takes out.
LEMMA PasswordKept ==
  ASSUME TypeOK, PasswordInv, NEW b \in Browsers, BrowserStep(b), ~SignOutAll(b),
         UNCHANGED <<password, latest, upgraded>>, cut \subseteq cut',
         \A t \in Tokens : opened'[t].state = "here" => opened'[t] = opened[t],
         browser'[b].pc \in Entering =>
           \/ browser'[b].with = password.of
           \/ /\ browser[b].pc \in Entering
              /\ browser'[b].with = browser[b].with /\ browser'[b].overtaken = browser[b].overtaken,
         browser'[b].pc = "rehash" => browser'[b].with = 0 /\ upgraded
  PROVE  PasswordInv'
<1>1. OldPasswordOnlyIfOvertaken'
  <2> SUFFICES ASSUME NEW t \in Tokens, opened'[t].state = "here", opened'[t].with # latest'
               PROVE  \/ opened'[t].overtaken \/ "sessions" \in cut'
                      \/ \E c \in Browsers : browser'[c].pc = "signout"
                      \/ password'.of # latest'
    BY DEF OldPasswordOnlyIfOvertaken, At
  <2>1. opened[t].state = "here" /\ opened[t].with # latest /\ opened'[t] = opened[t]  OBVIOUS
  <2>2. ASSUME NEW c \in Browsers, At(c, "signout")
        PROVE  "sessions" \in cut' \/ \E d \in Browsers : browser'[d].pc = "signout"
    BY <2>2, SigningAllOutStays DEF At
  <2> QED BY <2>1, <2>2 DEF PasswordInv, OldPasswordOnlyIfOvertaken
<1>2. LastPasswordStands'  BY DEF PasswordInv, LastPasswordStands
<1>3. OldHash'
  BY OthersStay DEF PasswordInv, OldHash, At
<1>4. ASSUME NEW c \in Browsers, browser'[c].pc \in Entering PROVE Excused(c)'
  <2>1. CASE c # b  BY <1>4, <2>1, OthersStay, ExcuseStays DEF PasswordInv
  <2>2. CASE c = b /\ browser'[b].with = password.of  BY <2>2 DEF Excused
  <2>3. CASE c = b /\ browser[b].pc \in Entering
             /\ browser'[b].with = browser[b].with /\ browser'[b].overtaken = browser[b].overtaken
    BY <2>3, ExcuseStays DEF PasswordInv
  <2> QED BY <1>4, <2>1, <2>2, <2>3
<1> QED BY <1>1, <1>2, <1>3, <1>4 DEF PasswordInv

\* A session is opened with what the request has in hand.
LEMMA PasswordOpens ==
  ASSUME TypeOK, PasswordInv, NEW b \in Browsers, OpenSession(b)
  PROVE  PasswordInv'
<1>1. PICK t \in Tokens :
        /\ opened' = [opened EXCEPT ![t] =
             [state |-> "here", with |-> browser[b].with, overtaken |-> browser[b].overtaken]]
        /\ SetBrowser(b, [NoBrowser EXCEPT !.pc = "know", !.token = t])
  BY DEF OpenSession
<1>2. UNCHANGED <<password, latest, upgraded, cut>> /\ browser[b].pc = "open"  BY DEF OpenSession, At
<1>3. browser'[b].pc = "know" /\ \A c \in Browsers \ {b} : browser'[c] = browser[c]
  BY <1>1 DEF SetBrowser, NoBrowser, TypeOK
<1>4. /\ opened'[t].with = browser[b].with /\ opened'[t].overtaken = browser[b].overtaken
      /\ \A u \in Tokens \ {t} : opened'[u] = opened[u]
  BY <1>1 DEF TypeOK
<1>5. Excused(b)  BY <1>2 DEF PasswordInv, Entering
<1>6. \A c \in Browsers : browser[c].pc = "signout" => c # b /\ browser'[c].pc = "signout"
  BY <1>2, <1>3
<1>7. OldPasswordOnlyIfOvertaken'
  <2> SUFFICES ASSUME NEW u \in Tokens, opened'[u].state = "here", opened'[u].with # latest
               PROVE  \/ opened'[u].overtaken \/ "sessions" \in cut
                      \/ \E c \in Browsers : browser'[c].pc = "signout"
                      \/ password.of # latest
    BY <1>2 DEF OldPasswordOnlyIfOvertaken, At
  <2>1. CASE u = t  BY <1>4, <1>5, <1>6, <2>1 DEF Excused, At
  <2>2. CASE u # t  BY <1>4, <1>6, <2>2 DEF PasswordInv, OldPasswordOnlyIfOvertaken, At
  <2> QED BY <2>1, <2>2
<1>8. LastPasswordStands' /\ OldHash'
  BY <1>2, <1>3 DEF PasswordInv, LastPasswordStands, OldHash, At
<1>9. \A c \in Browsers : browser'[c].pc \in Entering => Excused(c)'
  BY <1>2, <1>3, <1>6 DEF PasswordInv, Excused, Entering, At
<1> QED BY <1>7, <1>8, <1>9 DEF PasswordInv

\* A login writes the first password again, in the new scheme.
LEMMA PasswordRehashed ==
  ASSUME TypeOK, InHand, PasswordInv, NEW b \in Browsers, Rehash(b)
  PROVE  PasswordInv'
<1>1. /\ browser[b].pc = "rehash" /\ browser[b].with = 0 /\ upgraded
      /\ browser'[b].pc = "open" /\ browser'[b].with = 0 /\ browser'[b].overtaken = browser[b].overtaken
  BY StepMoves DEF PasswordInv, OldHash, Rehash, At
<1>2. password' = [of |-> 0, old |-> FALSE] /\ UNCHANGED <<latest, opened, cut, upgraded>>
  BY <1>1 DEF Rehash
<1>3. latest \in Nat /\ password.of \in Nat  BY Zeros DEF TypeOK, Passwords
<1>4. password.of <= latest  BY DEF PasswordInv, OldHash
<1>5. \A c \in Browsers \ {b} : browser'[c] = browser[c]
  BY DEF Rehash, Goto, SetBrowser, TypeOK
<1>6. LastPasswordStands' /\ OldHash'
  BY <1>1, <1>2, <1>3, <1>5 DEF PasswordInv, LastPasswordStands, OldHash, At
<1>7. CASE latest = 0
  <2>1. password.of = latest  BY <1>3, <1>4, <1>7
  <2>2. \A c \in Browsers : browser[c].pc = "signout" => browser'[c].pc = "signout"  BY <1>1, <1>5
  <2>3. OldPasswordOnlyIfOvertaken'
    BY <1>2, <1>7, <2>1, <2>2 DEF PasswordInv, OldPasswordOnlyIfOvertaken, At
  <2>4. ASSUME NEW c \in Browsers, browser'[c].pc \in Entering PROVE Excused(c)'
    <3>1. CASE c = b  BY <1>1, <1>2, <1>7, <3>1 DEF Excused
    <3>2. CASE c # b  BY <1>2, <1>5, <1>7, <2>1, <2>2, <2>4, <3>2 DEF PasswordInv, Excused, At
    <3> QED BY <3>1, <3>2
  <2> QED BY <1>6, <2>3, <2>4 DEF PasswordInv
<1>8. CASE latest # 0
  BY <1>2, <1>6, <1>8 DEF PasswordInv, OldPasswordOnlyIfOvertaken, Excused
<1> QED BY <1>7, <1>8

\* A new password; who sets it is going to sign everyone out.
LEMMA PasswordSet ==
  ASSUME TypeOK, InHand, PasswordInv, NEW b \in Browsers, SetPassword(b)
  PROVE  PasswordInv'
<1>1. latest \in Nat /\ latest' = latest + 1 /\ latest' \in Passwords
  BY Zeros DEF TypeOK, Passwords, SetPassword
<1>2. password' = [of |-> latest', old |-> FALSE] /\ UNCHANGED upgraded  BY DEF SetPassword
<1>3. browser' = [browser EXCEPT ![b] = [NoBrowser EXCEPT !.pc = "signout", !.with = latest']]
  BY DEF SetPassword, SetBrowser
<1>4. browser'[b].pc = "signout" /\ browser'[b].with = latest'
  <2>1. browser'[b] = [NoBrowser EXCEPT !.pc = "signout", !.with = latest']  BY <1>3 DEF TypeOK
  <2> QED BY <2>1 DEF NoBrowser
<1>5. \A c \in Browsers \ {b} : browser'[c] = browser[c]  BY <1>3 DEF TypeOK
<1>6. OldPasswordOnlyIfOvertaken'  BY <1>4 DEF OldPasswordOnlyIfOvertaken, At
<1>7. LastPasswordStands'  BY <1>2 DEF LastPasswordStands
<1>8. password'.of = latest' /\ ~password'.old  BY <1>2
<1>9. \A c \in Browsers : browser'[c].pc = "rehash" => browser'[c].with = 0 /\ upgraded'
  BY <1>2, <1>4, <1>5 DEF PasswordInv, OldHash, At
<1>10. OldHash'
  <2>1. password'.of <= latest'  BY <1>1, <1>8
  <2> QED BY <1>8, <1>9, <2>1 DEF OldHash, At
<1>11. \A c \in Browsers : Excused(c)'
  BY <1>4 DEF Excused, At
<1> QED BY <1>6, <1>7, <1>10, <1>11 DEF PasswordInv

\* Everyone is signed out, and who may yet come in is noted.
LEMMA PasswordSignsOut ==
  ASSUME TypeOK, InHand, PasswordInv, NEW b \in Browsers, SignOutAll(b)
  PROVE  PasswordInv'
<1>1. /\ browser[b].pc = "signout" /\ browser'[b].pc = "flush"
      /\ browser'[b].with = browser[b].with /\ browser'[b].overtaken = browser[b].overtaken
  BY StepMoves DEF At
<1>2. UNCHANGED <<password, latest, cut, upgraded>>  BY DEF SignOutAll
<1>3. \A c \in Browsers \ {b} : /\ browser'[c].pc = browser[c].pc /\ browser'[c].with = browser[c].with
                                /\ (browser[c].pc \in Entering => browser'[c].overtaken)
  <2>1. \A c \in Browsers \ {b} : browser'[c] = Overtake(browser[c]) /\ browser[c] \in BrowserRequests
    BY DEF SignOutAll, TypeOK
  <2> QED BY <2>1, Overtaken DEF Entering
<1>4. \A t \in Tokens : opened'[t].state # "here"
  BY Zeros DEF SignOutAll, DeleteSessions
<1>5. OldPasswordOnlyIfOvertaken'  BY <1>4 DEF OldPasswordOnlyIfOvertaken
<1>6. LastPasswordStands'  BY <1>2 DEF PasswordInv, LastPasswordStands
<1>7. OldHash'  BY <1>1, <1>2, <1>3 DEF PasswordInv, OldHash, At
<1>8. ASSUME NEW c \in Browsers, browser'[c].pc \in Entering PROVE Excused(c)'
  <2>1. CASE c # b  BY <1>3, <1>8, <2>1 DEF Excused
  <2>2. CASE c = b
    <3>1. Excused(b)  BY <1>1 DEF PasswordInv, Entering
    <3>2. \A d \in Browsers \ {b} : At(d, "signout") => At(d, "signout")'  BY <1>3 DEF At
    <3> QED BY <1>1, <1>2, <2>2, <3>1, <3>2 DEF Excused
  <2> QED BY <2>1, <2>2
<1> QED BY <1>5, <1>6, <1>7, <1>8 DEF PasswordInv

LEMMA PasswordSteps ==
  ASSUME TypeOK, InHand, PasswordInv, [Next]_vars
  PROVE  PasswordInv'
<1>1. CASE UNCHANGED <<password, latest, opened, browser, cut, upgraded>>
  BY <1>1 DEF PasswordInv, OldPasswordOnlyIfOvertaken, LastPasswordStands, OldHash, Excused, At
<1>2. CASE \/ AppNext \/ UNCHANGED vars \/ \E t \in Tokens : TokenExpires(t)
           \/ \E bucket \in {"auth", "credential"} : WindowEnds(bucket) /\ UNCHANGED consoleVars
  BY <1>1, <1>2 DEF AppNext, vars, consoleVars, TokenExpires
<1>3. CASE Restart
  <2>1. \A b \in Browsers : browser'[b].pc = "idle"  BY <1>3, IdleBrowser DEF Restart
  <2>2. CASE UNCHANGED <<password, latest, opened>>
    <3>1. OldPasswordOnlyIfOvertaken'
      <4>1. \A b \in Browsers : At(b, "signout") => "sessions" \in cut'  BY <1>3 DEF Restart
      <4>2. cut \subseteq cut'  BY <1>3 DEF Restart
      <4> QED BY <2>2, <4>1, <4>2 DEF PasswordInv, OldPasswordOnlyIfOvertaken
    <3>2. LastPasswordStands' /\ OldHash'
      BY <1>3, <2>1, <2>2 DEF Restart, PasswordInv, LastPasswordStands, OldHash, At
    <3> QED BY <2>1, <3>1, <3>2 DEF PasswordInv, Entering
  <2>3. CASE latest' = latest + 1 /\ password' = [of |-> latest', old |-> FALSE] /\ DeleteSessions
    <3>1. \A t \in Tokens : opened'[t].state # "here"  BY <2>3, Zeros DEF DeleteSessions
    <3>2. password'.of = latest' /\ ~password'.old  BY <2>3
    <3>3. latest' \in Nat  BY <2>3, Zeros DEF TypeOK, Passwords
    <3>4. OldPasswordOnlyIfOvertaken'  BY <3>1 DEF OldPasswordOnlyIfOvertaken
    <3>5. LastPasswordStands'  BY <3>2 DEF LastPasswordStands
    <3>6. OldHash'
      <4>1. password'.of <= latest'  BY <3>2, <3>3
      <4> QED BY <2>1, <3>2, <4>1 DEF OldHash, At
    <3> QED BY <2>1, <3>4, <3>5, <3>6 DEF PasswordInv, Entering
  <2> QED BY <1>3, <2>2, <2>3 DEF Restart
<1>4. ASSUME NEW b \in Browsers, BrowserStep(b) PROVE PasswordInv'
  <2>1. CASE OpenSession(b)  BY <2>1, PasswordOpens
  <2>2. CASE Rehash(b)  BY <2>2, PasswordRehashed
  <2>3. CASE SetPassword(b)  BY <2>3, PasswordSet
  <2>4. CASE SignOutAll(b)  BY <2>4, PasswordSignsOut
  <2>5. ASSUME ~OpenSession(b), ~Rehash(b), ~SetPassword(b), ~SignOutAll(b)
        PROVE  PasswordInv'
    <3>1. UNCHANGED <<password, latest, upgraded>> /\ cut \subseteq cut'
      BY <1>4, <2>5 DEF BrowserStep, SignInStep, SessionStep, PasswordStep, DeviceStep, Login, Enter, Logout,
         CheckHash, KnowSession, CheckSession, RememberSession, Look, FlushSessions, Unknow, BrowserEnds,
         Revoke, NewCode, Create, Forget
    <3>2. \A t \in Tokens : opened'[t].state = "here" => opened'[t] = opened[t]
      <4>1. ASSUME NEW t \in Tokens, Logout(b, t), NEW u \in Tokens, opened'[u].state = "here"
            PROVE  opened'[u] = opened[u]
        BY <4>1, Zeros DEF Logout, TypeOK
      <4>2. CASE UNCHANGED opened  BY <4>2
      <4> QED BY <1>4, <2>5, <4>1, <4>2
              DEF BrowserStep, SignInStep, SessionStep, PasswordStep, DeviceStep, Login, Enter,
                  CheckHash, KnowSession, CheckSession, RememberSession, Look, FlushSessions, Unknow, BrowserEnds,
                  Revoke, NewCode, Create, Forget
    <3>3. CASE CheckHash(b)
      <4>1. /\ browser[b].pc = "hash" /\ browser'[b].pc \in {"rehash", "open", "idle"}
            /\ (browser'[b].pc # "idle" => browser'[b].with = password.of)
            /\ (browser'[b].pc = "rehash" => password.old)
        BY <3>3, StepMoves DEF At
      <4>2. browser'[b].pc = "rehash" => browser'[b].with = 0 /\ upgraded
        <5> HAVE browser'[b].pc = "rehash"
        <5>1. password.of = browser'[b].with /\ password.old  BY <4>1
        <5>2. latest = 0 /\ upgraded /\ password.of <= 0  BY <5>1 DEF PasswordInv, OldHash
        <5>3. password.of \in Nat  BY Zeros DEF TypeOK, Passwords
        <5> QED BY <5>1, <5>2, <5>3
      <4>3. browser'[b].pc \in Entering => browser'[b].with = password.of  BY <4>1 DEF Entering
      <4> QED BY <1>4, <2>5, <3>1, <3>2, <4>2, <4>3, PasswordKept
    <3>4. CASE FlushSessions(b)
      <4>1. /\ browser[b].pc = "flush" /\ browser'[b].pc = "open"
            /\ browser'[b].with = browser[b].with /\ browser'[b].overtaken = browser[b].overtaken
        BY <3>4, StepMoves DEF At
      <4> QED BY <1>4, <2>5, <3>1, <3>2, <4>1, PasswordKept DEF Entering
    <3>5. ASSUME ~CheckHash(b), ~FlushSessions(b) PROVE browser'[b].pc \notin Entering
      <4>1. CASE \E p \in Passwords : Login(b, p)  BY <4>1, StepMoves DEF Entering
      <4>2. CASE \E t \in Tokens : Enter(b, t) \/ Logout(b, t)  BY <4>2, StepMoves DEF Entering
      <4>3. CASE KnowSession(b) \/ RememberSession(b)  BY <4>3, StepMoves DEF Entering
      <4>4. CASE CheckSession(b)  BY <4>4, StepMoves DEF Entering
      <4>5. CASE Look(b) \/ Unknow(b) \/ BrowserEnds(b)  BY <4>5, StepMoves DEF Entering
      <4>6. CASE DeviceStep(b)  BY <4>6, StepMoves DEF DeviceStep, Entering
      <4> QED BY <1>4, <2>5, <3>5, <4>1, <4>2, <4>3, <4>4, <4>5, <4>6
              DEF BrowserStep, SignInStep, SessionStep, PasswordStep
    <3>6. CASE ~CheckHash(b) /\ ~FlushSessions(b)
      BY <1>4, <2>5, <3>1, <3>2, <3>5, <3>6, PasswordKept DEF Entering
    <3> QED BY <3>3, <3>4, <3>6
  <2> QED BY <2>1, <2>2, <2>3, <2>4, <2>5
<1> QED BY <1>2, <1>3, <1>4 DEF Next, SessionNext, ConsoleNext, BrowserStep

-----------------------------------------------------------------------------
(* Wrong attempts *)

LEMMA Counting ==
  ASSUME NEW S, IsFiniteSet(S), NEW T \in SUBSET S
  PROVE  /\ Cardinality(S) \in Nat /\ Cardinality(T) \in Nat /\ Cardinality(T) <= Cardinality(S)
         /\ \A x \in T : Cardinality(T \ {x}) = Cardinality(T) - 1
<1>1. IsFiniteSet(T) /\ Cardinality(T) <= Cardinality(S)  BY FS_Subset
<1>2. Cardinality(S) \in Nat /\ Cardinality(T) \in Nat  BY <1>1, FS_CardinalityType
<1>3. \A x \in T : Cardinality(T \ {x}) = Cardinality(T) - 1  BY <1>1, FS_RemoveElement
<1> QED BY <1>1, <1>2, <1>3

\* How many attempts may be under way at all.
LEMMA UnderWay ==
  /\ Cardinality(Apps) \in Nat /\ Cardinality(Browsers) \in Nat
  /\ Cardinality(Finding) \in Nat /\ Cardinality(Finding) <= Cardinality(Apps)
  /\ Cardinality(Trading) \in Nat /\ Cardinality(Trading) <= Cardinality(Apps)
  /\ Cardinality(Hashing) \in Nat /\ Cardinality(Hashing) <= Cardinality(Browsers)
<1>1. Finding \in SUBSET Apps /\ Trading \in SUBSET Apps /\ Hashing \in SUBSET Browsers
  BY DEF Finding, Trading, Hashing
<1>2. IsFiniteSet(Apps) /\ IsFiniteSet(Browsers)  BY ConsoleAssumption
<1> QED BY <1>1, <1>2, Counting

\* The same after a step, and what becomes of the number when attempts end.
LEMMA StillUnderWay ==
  /\ Cardinality(Finding') \in Nat /\ Cardinality(Finding') <= Cardinality(Apps)
  /\ Cardinality(Trading') \in Nat /\ Cardinality(Trading') <= Cardinality(Apps)
  /\ Cardinality(Hashing') \in Nat /\ Cardinality(Hashing') <= Cardinality(Browsers)
  /\ (Finding' \subseteq Finding => Cardinality(Finding') <= Cardinality(Finding))
  /\ (Trading' \subseteq Trading => Cardinality(Trading') <= Cardinality(Trading))
  /\ (Hashing' \subseteq Hashing => Cardinality(Hashing') <= Cardinality(Hashing))
<1>1. /\ Finding \in SUBSET Apps /\ Trading \in SUBSET Apps /\ Hashing \in SUBSET Browsers
      /\ Finding' \in SUBSET Apps /\ Trading' \in SUBSET Apps /\ Hashing' \in SUBSET Browsers
  BY DEF Finding, Trading, Hashing
<1>2. IsFiniteSet(Apps) /\ IsFiniteSet(Browsers)  BY ConsoleAssumption
<1>3. IsFiniteSet(Finding) /\ IsFiniteSet(Trading) /\ IsFiniteSet(Hashing)  BY <1>1, <1>2, FS_Subset
<1> QED BY <1>1, <1>2, <1>3, Counting

LEMMA AttemptsStart == Init => AttemptsInv
<1> SUFFICES ASSUME Init PROVE AttemptsInv
  OBVIOUS
<1>1. Finding = {} /\ Trading = {} /\ Hashing = {}
  BY IdleBrowser, NewRequests DEF Init, DeviceInit, Finding, Trading, Hashing, At
<1>2. failed.auth = 0 /\ failed.credential = 0  BY DEF Init, DeviceInit
<1>3. AuthLimit \in Nat \ {0} /\ CredentialLimit \in Nat \ {0}  BY DeviceAssumption
<1> QED BY <1>1, <1>2, <1>3, UnderWay, FS_EmptySet DEF AttemptsInv, AuthInv, CredentialInv

\* Nobody begins an attempt, and the counters do not grow.
LEMMA AttemptsKept ==
  ASSUME TypeOK, TypeOK', AttemptsInv, Finding' \subseteq Finding, Trading' \subseteq Trading,
         Hashing' \subseteq Hashing,
         failed'.auth <= failed.auth, failed'.credential <= failed.credential
  PROVE  AttemptsInv'
<1>1. /\ failed.auth \in Nat /\ failed.credential \in Nat
      /\ failed'.auth \in Nat /\ failed'.credential \in Nat
  BY DEF TypeOK, DeviceTypes
<1>2. AuthLimit \in Nat /\ CredentialLimit \in Nat  BY DeviceAssumption
<1>3. AuthInv'
  <2>1. failed.auth + Cardinality(Finding) < AuthLimit + Cardinality(Apps)  BY DEF AttemptsInv, AuthInv
  <2> QED BY <1>1, <1>2, <2>1, UnderWay, StillUnderWay DEF AuthInv
<1>4. CredentialInv'
  <2>1. failed.credential + Cardinality(Trading) + Cardinality(Hashing)
          < CredentialLimit + Cardinality(Apps) + Cardinality(Browsers)
    BY DEF AttemptsInv, CredentialInv
  <2> QED BY <1>1, <1>2, <2>1, UnderWay, StillUnderWay DEF CredentialInv
<1> QED BY <1>3, <1>4 DEF AttemptsInv

\* An attempt begins only while its counter is below the limit.
LEMMA AuthAttemptBegins ==
  ASSUME TypeOK, AttemptsInv, failed' = failed, ~Blocked("auth"), Trading' \subseteq Trading,
         Hashing' \subseteq Hashing
  PROVE  AttemptsInv'
<1>1. failed.auth \in Nat /\ failed.credential \in Nat  BY DEF TypeOK, DeviceTypes
<1>2. AuthLimit \in Nat /\ CredentialLimit \in Nat  BY DeviceAssumption
<1>3. failed.auth < AuthLimit  BY <1>1, <1>2 DEF Blocked
<1>4. failed.credential + Cardinality(Trading) + Cardinality(Hashing)
        < CredentialLimit + Cardinality(Apps) + Cardinality(Browsers)
  BY DEF AttemptsInv, CredentialInv
<1>5. AuthInv'  BY <1>1, <1>2, <1>3, UnderWay, StillUnderWay DEF AuthInv
<1>6. CredentialInv'  BY <1>1, <1>2, <1>4, UnderWay, StillUnderWay DEF CredentialInv
<1> QED BY <1>5, <1>6 DEF AttemptsInv

LEMMA CredentialAttemptBegins ==
  ASSUME TypeOK, AttemptsInv, failed' = failed, ~Blocked("credential"), Finding' \subseteq Finding
  PROVE  AttemptsInv'
<1>1. failed.auth \in Nat /\ failed.credential \in Nat  BY DEF TypeOK, DeviceTypes
<1>2. AuthLimit \in Nat /\ CredentialLimit \in Nat  BY DeviceAssumption
<1>3. failed.credential < CredentialLimit  BY <1>1, <1>2 DEF Blocked
<1>4. failed.auth + Cardinality(Finding) < AuthLimit + Cardinality(Apps)  BY DEF AttemptsInv, AuthInv
<1>5. AuthInv'  BY <1>1, <1>2, <1>4, UnderWay, StillUnderWay DEF AuthInv
<1>6. CredentialInv'  BY <1>1, <1>2, <1>3, UnderWay, StillUnderWay DEF CredentialInv
<1> QED BY <1>5, <1>6 DEF AttemptsInv

\* One that fails passes from those under way to the counter.
LEMMA FindFails ==
  ASSUME TypeOK, AttemptsInv, NEW a \in Apps, a \in Finding, Finding' = Finding \ {a},
         RecordFailure("auth"), Trading' \subseteq Trading, Hashing' \subseteq Hashing
  PROVE  AttemptsInv'
<1>1. failed \in [auth : Nat, credential : Nat]  BY DEF TypeOK, DeviceTypes
<1>2. failed'.auth = failed.auth + 1 /\ failed'.credential = failed.credential
  BY <1>1 DEF RecordFailure
<1>3. AuthLimit \in Nat /\ CredentialLimit \in Nat  BY DeviceAssumption
<1>4. failed.auth + Cardinality(Finding) < AuthLimit + Cardinality(Apps)
      /\ failed.credential + Cardinality(Trading) + Cardinality(Hashing)
           < CredentialLimit + Cardinality(Apps) + Cardinality(Browsers)
  BY DEF AttemptsInv, AuthInv, CredentialInv
<1>5. Cardinality(Finding') = Cardinality(Finding) - 1
  <2>1. Finding \in SUBSET Apps /\ IsFiniteSet(Apps)  BY ConsoleAssumption DEF Finding
  <2> QED BY <2>1, Counting
<1>6. AuthInv'  BY <1>1, <1>2, <1>3, <1>4, <1>5, UnderWay DEF AuthInv
<1>7. CredentialInv'  BY <1>1, <1>2, <1>3, <1>4, UnderWay, StillUnderWay DEF CredentialInv
<1> QED BY <1>6, <1>7 DEF AttemptsInv

LEMMA CredentialFails ==
  ASSUME TypeOK, AttemptsInv, RecordFailure("credential"), Finding' \subseteq Finding,
         \/ \E a \in Trading : Trading' = Trading \ {a} /\ Hashing' = Hashing
         \/ \E b \in Hashing : Hashing' = Hashing \ {b} /\ Trading' = Trading
  PROVE  AttemptsInv'
<1>1. failed \in [auth : Nat, credential : Nat]  BY DEF TypeOK, DeviceTypes
<1>2. failed'.auth = failed.auth /\ failed'.credential = failed.credential + 1
  BY <1>1 DEF RecordFailure
<1>3. AuthLimit \in Nat /\ CredentialLimit \in Nat  BY DeviceAssumption
<1>4. failed.auth + Cardinality(Finding) < AuthLimit + Cardinality(Apps)
      /\ failed.credential + Cardinality(Trading) + Cardinality(Hashing)
           < CredentialLimit + Cardinality(Apps) + Cardinality(Browsers)
  BY DEF AttemptsInv, AuthInv, CredentialInv
<1>5. Cardinality(Trading') + Cardinality(Hashing') = Cardinality(Trading) + Cardinality(Hashing) - 1
  <2>1. /\ Trading \in SUBSET Apps /\ IsFiniteSet(Apps)
        /\ Hashing \in SUBSET Browsers /\ IsFiniteSet(Browsers)
    BY ConsoleAssumption DEF Trading, Hashing
  <2>2. ASSUME NEW a \in Trading, Trading' = Trading \ {a}, Hashing' = Hashing
        PROVE  Cardinality(Trading') + Cardinality(Hashing') = Cardinality(Trading) + Cardinality(Hashing) - 1
    <3>1. Cardinality(Trading') = Cardinality(Trading) - 1  BY <2>1, <2>2, Counting
    <3> QED BY <2>2, <3>1, UnderWay
  <2>3. ASSUME NEW b \in Hashing, Hashing' = Hashing \ {b}, Trading' = Trading
        PROVE  Cardinality(Trading') + Cardinality(Hashing') = Cardinality(Trading) + Cardinality(Hashing) - 1
    <3>1. Cardinality(Hashing') = Cardinality(Hashing) - 1  BY <2>1, <2>3, Counting
    <3> QED BY <2>3, <3>1, UnderWay
  <2> QED BY <2>2, <2>3
<1>6. AuthInv'  BY <1>1, <1>2, <1>3, <1>4, UnderWay, StillUnderWay DEF AuthInv
<1>7. CredentialInv'
  BY <1>1, <1>2, <1>3, <1>4, <1>5, UnderWay, StillUnderWay DEF CredentialInv
<1> QED BY <1>6, <1>7 DEF AttemptsInv

LEMMA AppAttempts ==
  ASSUME TypeOK, TypeOK', InHand, AttemptsInv, NEW a \in Apps, UNCHANGED browser,
         \/ \E c \in Credentials : Present(a, c) \/ Pair(a, c)
         \/ AppStep(a) \/ AppEnds(a)
  PROVE  AttemptsInv'
<1>1. Hashing' = Hashing  BY DEF Hashing, At
<1>2. \A e \in Apps \ {a} : app'[e] = app[e]
  BY DEF Present, Pair, AppStep, AppEnds, Find, Insert, Serve, Trade, Issue, SetApp, TypeOK, DeviceTypes
<1>3. Finding' \subseteq Finding \cup {a} /\ Trading' \subseteq Trading \cup {a}
  BY <1>2 DEF Finding, Trading
<1>4. SetApp(a, NoRequest) => app'[a].pc = "idle"
  <2> HAVE SetApp(a, NoRequest)
  <2>1. app \in [Apps -> AppRequests]  BY DEF TypeOK, DeviceTypes
  <2>2. app'[a] = NoRequest  BY <2>1 DEF SetApp
  <2> QED BY <2>2, NewRequests
<1>5. failed \in [auth : Nat, credential : Nat]  BY DEF TypeOK, DeviceTypes
<1>6. ASSUME NEW c \in Credentials, Present(a, c) PROVE AttemptsInv'
  <2>1. app'[a].pc \in {"serve", "find"}
    <3>1. CASE signed[c] # None
      <4>1. signed[c].device \in Devices  BY <3>1 DEF TypeOK, DeviceTypes, CachedSessions
      <4>2. SetApp(a, [NoRequest EXCEPT !.pc = "serve", !.device = signed[c].device])
        BY <1>6, <3>1 DEF Present
      <4>3. app'[a] = [NoRequest EXCEPT !.pc = "serve", !.device = signed[c].device]
        BY <4>2 DEF SetApp, TypeOK, DeviceTypes
      <4> QED BY <4>3 DEF NoRequest
    <3>2. CASE signed[c] = None
      <4>1. SetApp(a, [NoRequest EXCEPT !.pc = "find", !.with = c])  BY <1>6, <3>2 DEF Present
      <4>2. app'[a] = [NoRequest EXCEPT !.pc = "find", !.with = c]
        BY <4>1 DEF SetApp, TypeOK, DeviceTypes
      <4> QED BY <4>2 DEF NoRequest
    <3> QED BY <3>1, <3>2
  <2>2. Trading' \subseteq Trading  BY <1>3, <2>1 DEF Trading
  <2> QED BY <1>1, <1>6, <2>2, AuthAttemptBegins DEF Present
<1>7. ASSUME NEW c \in Credentials, Pair(a, c) PROVE AttemptsInv'
  <2>1. app'[a] = [NoRequest EXCEPT !.pc = "trade", !.with = c]
    BY <1>7 DEF Pair, SetApp, TypeOK, DeviceTypes
  <2>2. app'[a].pc = "trade"  BY <2>1 DEF NoRequest
  <2>3. Finding' \subseteq Finding  BY <1>3, <2>2 DEF Finding
  <2> QED BY <1>7, <2>3, CredentialAttemptBegins DEF Pair
<1>8. ASSUME Find(a), SetApp(a, NoRequest), RecordFailure("auth") PROVE AttemptsInv'
  <2>1. a \in Finding /\ a \notin Trading  BY <1>8 DEF Find, Finding, Trading
  <2>2. Finding' = Finding \ {a} /\ Trading' = Trading
    BY <1>2, <1>4, <1>8, <2>1 DEF Finding, Trading
  <2> QED BY <1>1, <1>8, <2>1, <2>2, FindFails
<1>9. ASSUME Trade(a), SetApp(a, NoRequest), RecordFailure("credential") PROVE AttemptsInv'
  <2>1. a \in Trading /\ a \notin Finding  BY <1>9 DEF Trade, Finding, Trading
  <2>2. Trading' = Trading \ {a} /\ Finding' = Finding
    BY <1>2, <1>4, <1>9, <2>1 DEF Finding, Trading
  <2> QED BY <1>1, <1>9, <2>1, <2>2, CredentialFails
<1>10. ASSUME failed' = failed, app'[a].pc \notin {"find", "trade"} PROVE AttemptsInv'
  <2>1. Finding' \subseteq Finding /\ Trading' \subseteq Trading
    BY <1>3, <1>10 DEF Finding, Trading
  <2>2. failed'.auth <= failed.auth /\ failed'.credential <= failed.credential  BY <1>5, <1>10
  <2> QED BY <1>1, <2>1, <2>2, AttemptsKept
<1>11. ASSUME NEW d \in Devices, Find(a), failed' = failed,
              SetApp(a, [app[a] EXCEPT !.pc = "insert", !.device = d])
       PROVE  AttemptsInv'
  <2>1. app'[a].pc = "insert"  BY <1>11 DEF SetApp, TypeOK, DeviceTypes, AppRequests
  <2> QED BY <1>10, <1>11, <2>1
<1>12. ASSUME NEW d \in Devices, failed' = failed, NEW pc \in {"serve", "issue"},
              SetApp(a, [NoRequest EXCEPT !.pc = pc, !.device = d])
       PROVE  AttemptsInv'
  <2>1. app'[a] = [NoRequest EXCEPT !.pc = pc, !.device = d]
    BY <1>12 DEF SetApp, TypeOK, DeviceTypes
  <2>2. app'[a].pc = pc  BY <2>1 DEF NoRequest
  <2> QED BY <1>10, <1>12, <2>2
<1>13. CASE Find(a)  BY <1>8, <1>11, <1>13 DEF Find
<1>14. CASE Trade(a)  BY <1>9, <1>12, <1>14 DEF Trade
<1>15. CASE Insert(a)
  <2>1. app[a].device \in Devices  BY <1>15 DEF Insert, InHand, AppsInHand
  <2> QED BY <1>12, <1>15, <2>1 DEF Insert
<1>16. CASE Serve(a) \/ Issue(a) \/ AppEnds(a)
  BY <1>4, <1>10, <1>16 DEF Serve, Issue, AppEnds
<1> QED BY <1>6, <1>7, <1>13, <1>14, <1>15, <1>16 DEF AppStep

LEMMA BrowserAttempts ==
  ASSUME TypeOK, TypeOK', InHand, AttemptsInv, NEW b \in Browsers, BrowserStep(b)
  PROVE  AttemptsInv'
<1>1. \A c \in Browsers \ {b} : browser'[c].pc = browser[c].pc  BY OthersStay
<1>2. Hashing' \subseteq Hashing \cup {b}  BY <1>1 DEF Hashing, At
<1>3. Finding' = Finding /\ Trading' = Trading
  <2>1. \A a \in Apps : app'[a].pc = app[a].pc
    <3>1. CASE UNCHANGED app  BY <3>1
    <3>2. CASE Forget(b)
      <4>1. \A a \in Apps : app[a] \in AppRequests /\ app'[a] \in {app[a], [app[a] EXCEPT !.missed = TRUE]}
        BY <3>2 DEF Forget, ForgetSessions, TypeOK, DeviceTypes
      <4> QED BY <4>1, LateRequest
    <3> QED BY <3>1, <3>2
            DEF BrowserStep, SignInStep, SessionStep, PasswordStep, DeviceStep, deviceVars, Login, Enter, Logout,
                CheckHash, Rehash, OpenSession, KnowSession, CheckSession, RememberSession, Look, SetPassword,
                SignOutAll, FlushSessions, Unknow, BrowserEnds, Revoke, NewCode, Create
  <2> QED BY <2>1 DEF Finding, Trading
<1>4. CASE \E p \in Passwords : Login(b, p)
  BY <1>3, <1>4, CredentialAttemptBegins DEF Login
<1>5. CASE CheckHash(b) /\ RecordFailure("credential") /\ SetBrowser(b, NoBrowser)
  <2>1. b \in Hashing  BY <1>5 DEF CheckHash, Hashing
  <2>2. browser'[b] = NoBrowser  BY <1>5 DEF SetBrowser, TypeOK
  <2>3. Hashing' = Hashing \ {b}  BY <1>1, <2>2, IdleBrowser DEF Hashing, At
  <2> QED BY <1>3, <1>5, <2>1, <2>3, CredentialFails
<1>6. ASSUME failed' = failed, browser'[b].pc # "hash" PROVE AttemptsInv'
  <2>1. Hashing' \subseteq Hashing  BY <1>2, <1>6 DEF Hashing, At
  <2>2. failed \in [auth : Nat, credential : Nat]  BY DEF TypeOK, DeviceTypes
  <2>3. failed'.auth <= failed.auth /\ failed'.credential <= failed.credential  BY <1>6, <2>2
  <2> QED BY <1>3, <2>1, <2>3, AttemptsKept
<1>7. CASE CheckHash(b) /\ ~(RecordFailure("credential") /\ SetBrowser(b, NoBrowser))
  <2>1. failed' = failed  BY <1>7 DEF CheckHash
  <2>2. browser'[b].pc # "hash"  BY <1>7, StepMoves
  <2> QED BY <1>6, <2>1, <2>2
<1>8. CASE OpenSession(b)
  <2>1. PICK t \in Tokens : SetBrowser(b, [NoBrowser EXCEPT !.pc = "know", !.token = t])
    BY <1>8 DEF OpenSession
  <2>2. browser'[b].pc = "know"  BY <2>1 DEF SetBrowser, NoBrowser, TypeOK
  <2> QED BY <1>6, <1>8, <2>2 DEF OpenSession
<1>9. ASSUME BrowserStep(b), ~CheckHash(b), ~OpenSession(b), ~\E p \in Passwords : Login(b, p)
      PROVE  AttemptsInv'
  <2>1. failed' = failed
    BY <1>9 DEF BrowserStep, SignInStep, SessionStep, PasswordStep, DeviceStep, Enter, Logout, Rehash,
       KnowSession, CheckSession, RememberSession, Look, SetPassword, SignOutAll, FlushSessions, Unknow,
       BrowserEnds, Revoke, NewCode, Create, Forget
  <2>2. browser'[b].pc # "hash"
    <3>1. CASE \E t \in Tokens : Enter(b, t) \/ Logout(b, t)  BY <3>1, StepMoves
    <3>2. CASE Rehash(b) \/ KnowSession(b)  BY <3>2, StepMoves
    <3>3. CASE CheckSession(b)  BY <3>3, StepMoves
    <3>4. CASE RememberSession(b) \/ Look(b)  BY <3>4, StepMoves
    <3>5. CASE SetPassword(b) \/ SignOutAll(b)  BY <3>5, StepMoves
    <3>6. CASE FlushSessions(b) \/ Unknow(b) \/ BrowserEnds(b)  BY <3>6, StepMoves
    <3>7. CASE DeviceStep(b)  BY <3>7, StepMoves DEF DeviceStep
    <3> QED BY <1>9, <3>1, <3>2, <3>3, <3>4, <3>5, <3>6, <3>7
            DEF BrowserStep, SignInStep, SessionStep, PasswordStep
  <2> QED BY <1>6, <2>1, <2>2
<1> QED BY <1>4, <1>5, <1>7, <1>8, <1>9

LEMMA AttemptsSteps ==
  ASSUME TypeOK, TypeOK', InHand, AttemptsInv, [Next]_vars
  PROVE  AttemptsInv'
<1>1. failed \in [auth : Nat, credential : Nat]  BY DEF TypeOK, DeviceTypes
<1>2. ASSUME UNCHANGED <<app, browser>>, failed'.auth <= failed.auth, failed'.credential <= failed.credential
      PROVE  AttemptsInv'
  BY <1>2, AttemptsKept DEF Finding, Trading, Hashing, At
<1>3. failed' = failed => failed'.auth <= failed.auth /\ failed'.credential <= failed.credential
  BY <1>1
<1>4. CASE UNCHANGED vars  BY <1>2, <1>3, <1>4 DEF vars, deviceVars, consoleVars
<1>5. CASE AppNext
  <2>1. CASE \/ \E d \in Devices : CodeExpires(d)
             \/ \E c \in Credentials : SessionExpires(c)
    BY <1>2, <1>3, <1>5, <2>1 DEF AppNext, CodeExpires, SessionExpires, consoleVars
  <2>2. ASSUME NEW a \in Apps,
               \/ \E c \in Credentials : Present(a, c) \/ Pair(a, c)
               \/ AppStep(a) \/ AppEnds(a)
        PROVE  AttemptsInv'
    BY <1>5, <2>2, AppAttempts DEF AppNext, consoleVars
  <2> QED BY <1>5, <2>1, <2>2 DEF AppNext
<1>6. ASSUME NEW bucket \in {"auth", "credential"}, WindowEnds(bucket), UNCHANGED consoleVars
      PROVE  AttemptsInv'
  <2>1. failed' = [failed EXCEPT ![bucket] = 0]  BY <1>6 DEF WindowEnds
  <2>2. failed'.auth <= failed.auth /\ failed'.credential <= failed.credential  BY <1>1, <2>1
  <2> QED BY <1>2, <1>6, <2>2 DEF WindowEnds, deviceVars, consoleVars
<1>7. CASE \E t \in Tokens : TokenExpires(t)
  BY <1>2, <1>3, <1>7 DEF TokenExpires, deviceVars
<1>8. CASE Restart
  <2>1. failed'.auth <= failed.auth /\ failed'.credential <= failed.credential
    BY <1>1, <1>8 DEF Restart, Boot
  <2>2. Finding' = {} /\ Trading' = {} /\ Hashing' = {}
    BY <1>8, IdleBrowser, NewRequests DEF Restart, Boot, Finding, Trading, Hashing, At
  <2> QED BY <2>1, <2>2, AttemptsKept
<1>9. ASSUME NEW b \in Browsers, BrowserStep(b) PROVE AttemptsInv'
  BY <1>9, BrowserAttempts
<1> QED BY <1>4, <1>5, <1>6, <1>7, <1>8, <1>9 DEF Next, SessionNext, ConsoleNext, BrowserStep

-----------------------------------------------------------------------------
(* All together *)

LEMMA AccessStarts == Init => AccessInv
<1> SUFFICES ASSUME Init PROVE AccessInv
  OBVIOUS
<1>1. DeviceTypes /\ InHand
  <2>1. device \in [Devices -> DeviceRows]
    <3>1. AdminCode \in Codes  BY DeviceAssumption DEF AdminCode
    <3> QED BY <3>1 DEF Init, DeviceInit, DeviceRows, NoDevice
  <2>2. failed \in [auth : Nat, credential : Nat]  BY DEF Init, DeviceInit
  <2> QED BY <2>1, <2>2, NewRequests, IdleBrowser
          DEF Init, DeviceInit, DeviceTypes, InHand, AppsInHand, BrowsersInHand
<1>2. opened \in [Tokens -> Opened]  BY Zeros DEF Init, NotOpened, Opened
<1>3. password \in [of : Passwords, old : BOOLEAN] /\ upgraded \in BOOLEAN  BY Zeros DEF Init
<1>4. restarts \in 0..MaxRestarts  BY Zeros DEF Init
<1>5. TypeOK  BY <1>1, <1>2, <1>3, <1>4, Zeros, IdleBrowser DEF Init, TypeOK
<1> QED BY <1>1, <1>5, DevicesStarts, SessionsStarts, PasswordStarts, AttemptsStart DEF AccessInv

LEMMA AccessSteps ==
  ASSUME AccessInv, [Next]_vars
  PROVE  AccessInv'
<1>1. TypeOK /\ InHand /\ DevicesInv /\ SessionsInv /\ PasswordInv /\ AttemptsInv
  BY DEF AccessInv
<1>2. TypeOK' /\ InHand'
  <2>1. ASSUME NEW b \in Browsers,
               \/ \E p \in Passwords : Login(b, p)
               \/ \E t \in Tokens : Enter(b, t) \/ Logout(b, t)
               \/ SignInStep(b) \/ SessionStep(b) \/ PasswordStep(b) \/ BrowserEnds(b)
        PROVE  TypeOK' /\ InHand'
    BY <1>1, <2>1, SignInTypes
  <2> QED BY <1>1, <2>1, OtherAccessTypes DEF Next, SessionNext, ConsoleNext
<1> QED BY <1>1, <1>2, DevicesSteps, SessionsSteps, PasswordSteps, AttemptsSteps DEF AccessInv

LEMMA AccessInvariant == Spec => []AccessInv
BY AccessStarts, AccessSteps, PTL DEF Spec

\* Every variable keeps its type: in particular a request that is being served has a device,
\* and a session in the cache names one (auth.rs).
THEOREM AccessTypeCorrect == Spec => []TypeOK
<1>1. AccessInv => TypeOK  BY DEF AccessInv
<1> QED BY <1>1, AccessInvariant, PTL

\* Revoking a device or giving it a new code (admin.rs, revoke_device and regenerate_code)
\* leaves nothing of it in the session cache (auth.rs) but what a lookup under way puts back
\* after the cache was emptied, or what a request that was cut off did not empty.
THEOREM RevocationReachesCache == Spec => []RevokedOnlyIfMissed
<1>1. AccessInv => RevokedOnlyIfMissed  BY DEF AccessInv, DevicesInv
<1> QED BY <1>1, AccessInvariant, PTL

\* A browser that was signed out, by its own logout or by a new password, is not let in by
\* the cache of tokens but under the same conditions (admin.rs).
THEOREM SignOutReachesCache == Spec => []SignedOutOnlyIfMissed
<1>1. AccessInv => SignedOutOnlyIfMissed  BY DEF AccessInv, SessionsInv
<1> QED BY <1>1, AccessInvariant, PTL

\* Both caches of sessions, the apps' and the console's, follow the tables in this sense at once
\* (auth.rs, admin.rs).
THEOREM CachesGoWithTables == Spec => []CachesFollowTables
<1> QED BY RevocationReachesCache, SignOutReachesCache, PTL DEF CachesFollowTables

\* No session that was opened with an earlier password outlives a change of it, except of a
\* login that was past its check, of a change that was cut off, or after a login put back a
\* hash of the old scheme (admin.rs, login and change_password).
THEOREM OldSessionsEnd == Spec => []OldPasswordOnlyIfOvertaken
<1>1. AccessInv => OldPasswordOnlyIfOvertaken  BY DEF AccessInv, PasswordInv
<1> QED BY <1>1, AccessInvariant, PTL

\* The last password that was set is the one that is asked for; only where the installation
\* had a hash of the old scheme can a login write an earlier one over it (admin.rs, login).
THEOREM NewPasswordStands == Spec => []LastPasswordStands
<1>1. AccessInv => LastPasswordStands  BY DEF AccessInv, PasswordInv
<1> QED BY <1>1, AccessInvariant, PTL

\* Together: the password that was set last is the only one that lets anybody in (admin.rs,
\* login and change_password).
THEOREM PasswordIsTheLast == Spec => []NewPasswordCounts
<1> QED BY OldSessionsEnd, NewPasswordStands, PTL DEF NewPasswordCounts

\* The limiter (ratelimit.rs) looks before an attempt and counts after it: however many
\* attempts run at once, only those that were under way when it closed come on top.
THEOREM LimiterHolds == Spec => []AttemptsBounded
<1>1. AccessInv => AttemptsBounded
  <2> SUFFICES ASSUME AccessInv PROVE AttemptsBounded
    OBVIOUS
  <2>1. /\ failed.auth + Cardinality(Finding) < AuthLimit + Cardinality(Apps)
        /\ failed.credential + Cardinality(Trading) + Cardinality(Hashing)
             < CredentialLimit + Cardinality(Apps) + Cardinality(Browsers)
    BY DEF AccessInv, AttemptsInv, AuthInv, CredentialInv
  <2>2. failed.auth \in Nat /\ failed.credential \in Nat /\ AuthLimit \in Nat /\ CredentialLimit \in Nat
    BY DeviceAssumption DEF AccessInv, TypeOK, DeviceTypes
  <2> QED BY <2>1, <2>2, UnderWay DEF AttemptsBounded
<1> QED BY <1>1, AccessInvariant, PTL

--------------------------------------------------------------------------------
(* The add-ons and their lists.                                                 *)

\* A request that waits for a manifest has its address.
HasAddress(r) == request[r].pc = "manifest" => request[r].op = "add" /\ request[r].url \in Urls

\* A change under way that no other one crossed is a change of the settings in use.
Meant(r) ==
  request[r].pc \in {"write", "publish"} /\ ~request[r].stale =>
    request[r].next = Addon!Changed(memory, request[r].op, request[r].id,
        request[r].next[request[r].id])

\* What a request that wrote last is about to publish is the table.
LastWritten(r) == request[r].pc = "publish" /\ ~request[r].over => table = request[r].next

SettingsInv ==
  /\ Addon!ChangesTakeHold /\ Addon!MemoryIsTable
  /\ \A r \in Requests : HasAddress(r) /\ Meant(r) /\ LastWritten(r)

\* The stored lists and those to be asked for, as the sync under way read them.
SyncInv ==
  /\ sync.pc # "off" /\ asked = 0 /\ ~missed => sync.read = memory
  /\ sync.pc \notin {"off", "drop"} => \A x \in lists : x[1] \in Addon!EnabledAddons(sync.read)
  /\ sync.pc # "off" => /\ sync.left \subseteq Addon!Enabled(sync.read)
                        /\ Addon!Enabled(sync.read) \subseteq sync.left \cup tried
  /\ sync.pc \in {"fetch", "store"} => sync.at \in Addon!Enabled(sync.read)
  /\ Addon!ListsMatchSettings

\* What a change makes of settings is settings.
LEMMA ChangedType ==
  ASSUME NEW s \in Addon!Settings, NEW i \in Addon!Ids
  PROVE  /\ \A a \in Addon!Addons : Addon!Changed(s, "add", i, a) \in Addon!Settings
         /\ Addon!Changed(s, "toggle", i, None) \in Addon!Settings
         /\ Addon!Changed(s, "remove", i, None) \in Addon!Settings
<1>1. \A a \in Addon!Addons : Addon!Changed(s, "add", i, a) \in Addon!Settings
  BY DEF Addon!Changed, Addon!Settings
<1>2. Addon!Changed(s, "remove", i, None) \in Addon!Settings BY DEF Addon!Changed, Addon!Settings
<1>3. Addon!Changed(s, "toggle", i, None) \in Addon!Settings
  <2>1. CASE s[i] = None BY <2>1 DEF Addon!Changed, Addon!Settings
  <2>2. CASE s[i] # None
    <3>1. s[i] \in Addon!Addons BY <2>2 DEF Addon!Settings
    <3>2. [s[i] EXCEPT !.enabled = ~@] \in Addon!Addons BY <3>1 DEF Addon!Addons
    <3>3. Addon!Changed(s, "toggle", i, None) = [s EXCEPT ![i] = [s[i] EXCEPT !.enabled = ~@]]
      BY <2>2 DEF Addon!Changed, Addon!Settings
    <3> QED BY <3>2, <3>3 DEF Addon!Settings
  <2> QED BY <2>1, <2>2
<1> QED BY <1>1, <1>2, <1>3

\* A change, done again with what it made of the add-on, is the same change.
LEMMA ChangedAgain ==
  ASSUME NEW s \in Addon!Settings, NEW i \in Addon!Ids, NEW a
  PROVE  /\ Addon!Changed(s, "add", i, a) =
              Addon!Changed(s, "add", i, Addon!Changed(s, "add", i, a)[i])
         /\ \A b : Addon!Changed(s, "toggle", i, a) = Addon!Changed(s, "toggle", i, b)
         /\ \A b : Addon!Changed(s, "remove", i, a) = Addon!Changed(s, "remove", i, b)
BY DEF Addon!Changed, Addon!Settings

\* The first state.
LEMMA AddonInit ==
  ASSUME Addon!AddonAssumption, Addon!ListAssumption, Addon!Init
  PROVE  Addon!TypeOK /\ SettingsInv /\ SyncInv
<1>1. Addon!Nothing \in Addon!Settings BY DEF Addon!Nothing, Addon!Settings
<1>2. Addon!NoChange \in Addon!RequestStates BY <1>1 DEF Addon!RequestStates, Addon!NoChange
<1>3. Addon!NoSync \in Addon!Syncs BY <1>1 DEF Addon!Syncs, Addon!NoSync
<1>4. Addon!SettingsTypes
  <2>1. request \in [Requests -> Addon!RequestStates] BY <1>2 DEF Addon!Init, Addon!SettingsInit
  <2>2. created \in 0..MaxAddons /\ reloads \in 0..MaxRestarts
    BY DEF Addon!AddonAssumption, Addon!Init, Addon!SettingsInit
  <2> QED BY <1>1, <2>1, <2>2 DEF Addon!SettingsTypes, Addon!Init, Addon!SettingsInit
<1>5. Addon!TypeOK
  <2>1. asked \in 0..MaxAsked /\ errors \in 0..MaxErrors BY DEF Addon!ListAssumption, Addon!Init
  <2> QED BY <1>3, <1>4, <2>1 DEF Addon!TypeOK, Addon!Init
<1>6. SettingsInv
  BY DEF SettingsInv, Addon!ChangesTakeHold, Addon!MemoryIsTable, HasAddress, Meant,
         LastWritten, Addon!NoChange, Addon!Init, Addon!SettingsInit
<1>7. SyncInv BY DEF SyncInv, Addon!ListsMatchSettings, Addon!Quiet, Addon!NoSync, Addon!Init
<1> QED BY <1>5, <1>6, <1>7

\* Every step but those of `sync` and of the schedule is one of the settings.
LEMMA SettingsMove ==
  ASSUME [Addon!Next]_(Addon!vars)
  PROVE  [Addon!SettingsNext]_(Addon!settingsVars)
<1>1. ASSUME NEW r \in Requests, Addon!ListStep(r) PROVE [Addon!SettingsNext]_(Addon!settingsVars)
  BY <1>1 DEF Addon!ListStep, Addon!Confirm, Addon!Refuse, Addon!ToggleGone, Addon!SettingsNext
<1> QED BY <1>1 DEF Addon!Next, Addon!TaskStep, Addon!Scheduled, Addon!Restart,
                    Addon!SettingsNext, Addon!vars

\* The settings keep their types.
LEMMA SettingsTypesKept ==
  ASSUME Addon!AddonAssumption, Addon!SettingsTypes, SettingsInv,
      [Addon!SettingsNext]_(Addon!settingsVars)
  PROVE  Addon!SettingsTypes'
<1> DEFINE Set(r, s) == request' = [request EXCEPT ![r] = s]
<1>1. Addon!Nothing \in Addon!Settings BY DEF Addon!Nothing, Addon!Settings
<1>2. Addon!NoChange \in Addon!RequestStates BY <1>1 DEF Addon!RequestStates, Addon!NoChange
<1>3. ASSUME NEW r \in Requests, NEW s \in Addon!RequestStates, Set(r, s)
      PROVE  request' \in [Requests -> Addon!RequestStates]
  BY <1>3 DEF Addon!SettingsTypes
<1>4. ASSUME NEW r \in Requests PROVE request[r] \in Addon!RequestStates
  BY DEF Addon!SettingsTypes
<1>5. ASSUME NEW r \in Requests, NEW op \in {"none", "add", "toggle", "remove"},
    NEW i \in Addon!Ids,
             NEW n \in Addon!Settings
      PROVE  [Addon!NoChange EXCEPT !.pc = "write", !.op = op, !.id = i,
          !.next = n] \in Addon!RequestStates
  BY <1>2 DEF Addon!RequestStates
<1>6. ASSUME NEW r \in Requests, Addon!SettingsStep(r) PROVE Addon!SettingsTypes'
  <2>1. ASSUME NEW u \in Urls, Addon!StartAdd(r, u) PROVE Addon!SettingsTypes'
    <3>1. [Addon!NoChange EXCEPT !.pc = "manifest", !.op = "add",
        !.url = u] \in Addon!RequestStates
      BY <1>2 DEF Addon!RequestStates
    <3>2. request' \in [Requests -> Addon!RequestStates] BY <1>3, <2>1, <3>1 DEF Addon!StartAdd
    <3> QED BY <2>1, <3>2 DEF Addon!StartAdd, Addon!SettingsTypes
  <2>2. ASSUME NEW l \in SUBSET Catalogs, Addon!Manifest(r, l) PROVE Addon!SettingsTypes'
    <3>1. created + 1 \in Addon!Ids /\ created + 1 \in 0..MaxAddons
      BY <2>2 DEF Addon!Manifest, Addon!SettingsTypes, Addon!AddonAssumption, Addon!Ids
    <3> DEFINE a == [url |-> request[r].url, enabled |-> TRUE, catalogs |-> l]
               n == Addon!Changed(memory, "add", created + 1, a)
    <3>2. n \in Addon!Settings
      <4>1. a \in Addon!Addons BY <2>2 DEF Addon!Addons, SettingsInv, HasAddress, Addon!Manifest
      <4> QED BY <3>1, <4>1, ChangedType DEF Addon!SettingsTypes
    <3> HIDE DEF n
    <3>3. [request[r] EXCEPT !.pc = "write", !.id = created + 1,
        !.next = n] \in Addon!RequestStates
      BY <1>4, <3>1, <3>2 DEF Addon!RequestStates
    <3>4. request' = [request EXCEPT ![r] = [request[r] EXCEPT !.pc = "write",
        !.id = created + 1, !.next = n]]
      BY <2>2 DEF Addon!Manifest, n, Addon!SettingsTypes
    <3>5. request' \in [Requests -> Addon!RequestStates] BY <1>3, <3>3, <3>4
    <3> QED BY <2>2, <3>1, <3>5 DEF Addon!Manifest, Addon!SettingsTypes
  <2>3. CASE Addon!NoManifest(r)
    <3>1. request' \in [Requests -> Addon!RequestStates] BY <1>2, <1>3, <2>3 DEF Addon!NoManifest
    <3> QED BY <2>3, <3>1 DEF Addon!NoManifest, Addon!SettingsTypes
  <2>4. ASSUME NEW i \in Addon!Ids, Addon!StartToggle(r, i) PROVE Addon!SettingsTypes'
    <3>1. Addon!Changed(memory, "toggle", i, None) \in Addon!Settings
      BY ChangedType DEF Addon!SettingsTypes
    <3>2. request' \in [Requests -> Addon!RequestStates]
      BY <1>3, <1>5, <2>4, <3>1 DEF Addon!StartToggle
    <3> QED BY <2>4, <3>2 DEF Addon!StartToggle, Addon!SettingsTypes
  <2>5. ASSUME NEW i \in Addon!Ids, Addon!StartRemove(r, i) PROVE Addon!SettingsTypes'
    <3>1. Addon!Changed(memory, "remove", i, None) \in Addon!Settings
      BY ChangedType DEF Addon!SettingsTypes
    <3>2. request' \in [Requests -> Addon!RequestStates]
      BY <1>3, <1>5, <2>5, <3>1 DEF Addon!StartRemove
    <3> QED BY <2>5, <3>2 DEF Addon!StartRemove, Addon!SettingsTypes
  <2>6. CASE Addon!WriteTable(r)
    <3>1. ASSUME NEW q \in Requests
          PROVE  /\ [request[q] EXCEPT !.pc = "publish"] \in Addon!RequestStates
                 /\ [request[q] EXCEPT !.over = @ \/ request[q].pc = "publish"]
                      \in Addon!RequestStates
      BY <1>4 DEF Addon!RequestStates
    <3>2. request' \in [Requests -> Addon!RequestStates] BY <2>6, <3>1 DEF Addon!WriteTable
    <3>3. request[r].next \in Addon!Settings BY <1>4 DEF Addon!RequestStates
    <3> QED BY <2>6, <3>2, <3>3 DEF Addon!WriteTable, Addon!SettingsTypes
  <2>7. CASE Addon!HangUp(r)
    <3>1. request' \in [Requests -> Addon!RequestStates] BY <1>2, <1>3, <2>7 DEF Addon!HangUp
    <3> QED BY <2>7, <3>1 DEF Addon!HangUp, Addon!SettingsTypes
  <2> QED BY <1>6, <2>1, <2>2, <2>3, <2>4, <2>5, <2>6, <2>7 DEF Addon!SettingsStep
<1>7. ASSUME NEW r \in Requests, Addon!Publish(r) PROVE Addon!SettingsTypes'
  <2>1. ASSUME NEW q \in Requests
        PROVE  [request[q] EXCEPT !.stale = @ \/ request[q].pc \in {"write",
            "publish"}] \in Addon!RequestStates
    BY <1>4 DEF Addon!RequestStates
  <2>2. request' \in [Requests -> Addon!RequestStates] BY <1>2, <1>7, <2>1 DEF Addon!Publish
  <2>3. request[r].next \in Addon!Settings /\ request[r].over \in BOOLEAN
    BY <1>4 DEF Addon!RequestStates
  <2>4. wanted' \in Addon!Settings BY <1>7, <2>3 DEF Addon!Publish, SettingsInv, Meant,
                                                     Addon!ChangesTakeHold
  <2>5. again' \subseteq Urls BY <1>7 DEF Addon!Publish, Addon!Returned, Addon!SettingsTypes
  <2> QED BY <1>7, <2>2, <2>3, <2>4, <2>5 DEF Addon!Publish, Addon!SettingsTypes
<1>8. ASSUME NEW r \in Requests, Addon!WriteFails(r) PROVE Addon!SettingsTypes'
  <2>1. request' \in [Requests -> Addon!RequestStates] BY <1>2, <1>3, <1>8 DEF Addon!WriteFails
  <2> QED BY <1>8, <2>1 DEF Addon!WriteFails, Addon!SettingsTypes
<1>9. CASE Addon!Load
  <2>1. request' \in [Requests -> Addon!RequestStates] BY <1>2, <1>9 DEF Addon!Load
  <2>2. reloads' \in 0..MaxRestarts BY <1>9 DEF Addon!Load, Addon!SettingsTypes,
                                                Addon!AddonAssumption
  <2>3. again' \subseteq Urls BY <1>9 DEF Addon!Load, Addon!Returned, Addon!SettingsTypes
  <2> QED BY <1>9, <2>1, <2>2, <2>3 DEF Addon!Load, Addon!SettingsTypes
<1>10. CASE UNCHANGED Addon!settingsVars BY <1>10 DEF Addon!settingsVars, Addon!SettingsTypes
<1> QED BY <1>6, <1>7, <1>8, <1>9, <1>10 DEF Addon!SettingsNext

\* Changes that meet no other one are what is in use and what a restart loads.
LEMMA SettingsInvKept ==
  ASSUME Addon!AddonAssumption, Addon!SettingsTypes, SettingsInv,
      [Addon!SettingsNext]_(Addon!settingsVars)
  PROVE  SettingsInv'
<1>1. memory \in Addon!Settings /\ table \in Addon!Settings BY DEF Addon!SettingsTypes
<1>2. ASSUME NEW r \in Requests
      PROVE  request[r] \in Addon!RequestStates /\ request[r].next \in Addon!Settings
  BY DEF Addon!SettingsTypes, Addon!RequestStates
<1>3. ASSUME NEW r \in Requests, NEW s, request' = [request EXCEPT ![r] = s],
             UNCHANGED <<memory, table, wanted, unsure>>,
             request[r].pc # "publish", s.pc \in {"idle", "manifest", "write"},
             s.pc = "manifest" => s.op = "add" /\ s.url \in Urls,
             s.pc = "write" => s.next = Addon!Changed(memory, s.op, s.id, s.next[s.id])
      PROVE  SettingsInv'
  BY <1>3 DEF Addon!SettingsTypes, SettingsInv, HasAddress, Meant, LastWritten,
              Addon!ChangesTakeHold, Addon!MemoryIsTable, Addon!Publishing
<1>4. ASSUME NEW r \in Requests, Addon!SettingsStep(r) PROVE SettingsInv'
  <2>1. ASSUME NEW u \in Urls, Addon!StartAdd(r, u) PROVE SettingsInv'
    BY <1>3, <2>1 DEF Addon!StartAdd, Addon!NewRequest, Addon!NoChange
  <2>2. ASSUME NEW l \in SUBSET Catalogs, Addon!Manifest(r, l) PROVE SettingsInv'
    <3> DEFINE a == [url |-> request[r].url, enabled |-> TRUE, catalogs |-> l]
               n == Addon!Changed(memory, "add", created + 1, a)
               s == [request[r] EXCEPT !.pc = "write", !.id = created + 1, !.next = n]
    <3>1. created + 1 \in Addon!Ids BY <2>2 DEF Addon!Manifest, Addon!SettingsTypes,
                                                Addon!AddonAssumption, Addon!Ids
    <3>2. n = Addon!Changed(memory, "add", created + 1, n[created + 1])
      BY <1>1, <3>1, ChangedAgain
    <3> HIDE DEF n
    <3>3. s.pc = "write" /\ s.id = created + 1 /\ s.next = n /\ s.op = request[r].op
      BY <1>2 DEF Addon!RequestStates
    <3>4. request' = [request EXCEPT ![r] = s]
      BY <2>2 DEF Addon!Manifest, n, Addon!SettingsTypes
    <3>5. request[r].op = "add" BY <2>2 DEF Addon!Manifest, SettingsInv, HasAddress
    <3> HIDE DEF s
    <3>6. s.next = Addon!Changed(memory, s.op, s.id, s.next[s.id]) BY <3>2, <3>3, <3>5
    <3>7. UNCHANGED <<memory, table, wanted, unsure>> /\ request[r].pc = "manifest"
      BY <2>2 DEF Addon!Manifest
    <3> QED BY <1>3, <3>3, <3>4, <3>6, <3>7
  <2>3. CASE Addon!NoManifest(r) BY <1>3, <2>3 DEF Addon!NoManifest, Addon!NoChange
  <2>4. ASSUME NEW i \in Addon!Ids, Addon!StartToggle(r, i) PROVE SettingsInv'
    <3> DEFINE n == Addon!Changed(memory, "toggle", i, None)
               s == [Addon!NoChange EXCEPT !.pc = "write", !.op = "toggle", !.id = i, !.next = n]
    <3>1. n = Addon!Changed(memory, "toggle", i, n[i]) BY <1>1, ChangedAgain
    <3> HIDE DEF n
    <3>2. s.pc = "write" /\ s.op = "toggle" /\ s.id = i /\ s.next = n BY DEF Addon!NoChange
    <3>3. request' = [request EXCEPT ![r] = s] BY <2>4 DEF Addon!StartToggle, n
    <3> HIDE DEF s
    <3> QED BY <1>3, <2>4, <3>1, <3>2, <3>3 DEF Addon!StartToggle, Addon!NewRequest
  <2>5. ASSUME NEW i \in Addon!Ids, Addon!StartRemove(r, i) PROVE SettingsInv'
    <3> DEFINE n == Addon!Changed(memory, "remove", i, None)
               s == [Addon!NoChange EXCEPT !.pc = "write", !.op = "remove", !.id = i, !.next = n]
    <3>1. n = Addon!Changed(memory, "remove", i, n[i]) BY <1>1, ChangedAgain
    <3> HIDE DEF n
    <3>2. s.pc = "write" /\ s.op = "remove" /\ s.id = i /\ s.next = n BY DEF Addon!NoChange
    <3>3. request' = [request EXCEPT ![r] = s] BY <2>5 DEF Addon!StartRemove, n
    <3> HIDE DEF s
    <3> QED BY <1>3, <2>5, <3>1, <3>2, <3>3 DEF Addon!StartRemove, Addon!NewRequest
  <2>6. CASE Addon!WriteTable(r)
    <3>1. ASSUME NEW q \in Requests
          PROVE  /\ request'[q].pc = IF q = r THEN "publish" ELSE request[q].pc
                 /\ request'[q].over = IF q = r THEN request[q].over
                                       ELSE request[q].over \/ request[q].pc = "publish"
                 /\ request'[q].op = request[q].op /\ request'[q].id = request[q].id
                 /\ request'[q].url = request[q].url /\ request'[q].next = request[q].next
                 /\ request'[q].stale = request[q].stale
      BY <1>2, <2>6 DEF Addon!WriteTable, Addon!RequestStates
    <3>2. ASSUME NEW q \in Requests PROVE (HasAddress(q) /\ Meant(q) /\ LastWritten(q))'
      <4>1. HasAddress(q)' BY <2>6, <3>1 DEF Addon!WriteTable, HasAddress, SettingsInv
      <4>2. Meant(q)' BY <2>6, <3>1 DEF Addon!WriteTable, Meant, SettingsInv
      <4>3. LastWritten(q)'
        <5>1. CASE q = r BY <2>6, <3>1, <5>1 DEF Addon!WriteTable, LastWritten
        <5>2. CASE q # r
          <6>1. request'[q].pc = "publish" => request'[q].over = TRUE
            BY <1>2, <3>1, <5>2 DEF Addon!RequestStates
          <6> QED BY <6>1 DEF LastWritten
        <5> QED BY <5>1, <5>2
      <4> QED BY <4>1, <4>2, <4>3
    <3>3. r \in Addon!Publishing' BY <3>1 DEF Addon!Publishing
    <3> QED BY <2>6, <3>2, <3>3 DEF Addon!WriteTable, SettingsInv, Addon!ChangesTakeHold,
                                    Addon!MemoryIsTable
  <2>7. CASE Addon!HangUp(r)
    <3>1. request' = [request EXCEPT ![r] = Addon!NoChange] BY <2>7 DEF Addon!HangUp
    <3>2. ASSUME NEW q \in Requests PROVE (HasAddress(q) /\ Meant(q) /\ LastWritten(q))'
      BY <2>7, <3>1 DEF Addon!HangUp, Addon!NoChange, Addon!SettingsTypes, HasAddress, Meant,
                        LastWritten, SettingsInv
    <3>3. memory # table => unsure' \/ Addon!Publishing' # {}
      <4>1. CASE request[r].pc = "publish" BY <2>7, <4>1 DEF Addon!HangUp
      <4>2. CASE request[r].pc # "publish"
        BY <2>7, <3>1, <4>2 DEF Addon!HangUp, Addon!SettingsTypes, SettingsInv,
                                Addon!MemoryIsTable, Addon!Publishing
      <4> QED BY <4>1, <4>2
    <3> QED BY <2>7, <3>2, <3>3 DEF Addon!HangUp, SettingsInv, Addon!ChangesTakeHold,
                                    Addon!MemoryIsTable
  <2> QED BY <1>4, <2>1, <2>2, <2>3, <2>4, <2>5, <2>6, <2>7 DEF Addon!SettingsStep
<1>5. ASSUME NEW r \in Requests, Addon!Publish(r) PROVE SettingsInv'
  <2>1. ASSUME NEW q \in Requests
        PROVE  /\ q = r => request'[q] = Addon!NoChange
               /\ q # r => request'[q] = [request[q] EXCEPT
                                            !.stale = @ \/ request[q].pc \in {"write", "publish"}]
    BY <1>5 DEF Addon!Publish
  <2>2. ASSUME NEW q \in Requests PROVE (HasAddress(q) /\ Meant(q) /\ LastWritten(q))'
    <3>1. CASE q = r
      <4>1. Addon!NoChange.pc = "idle" BY DEF Addon!NoChange
      <4>2. request'[q] = Addon!NoChange BY <2>1, <3>1
      <4>3. request'[q].pc = "idle" BY <4>1, <4>2
      <4> QED BY <4>3 DEF HasAddress, Meant, LastWritten
    <3>2. CASE q # r
      <4>1. /\ request'[q].pc = request[q].pc /\ request'[q].over = request[q].over
            /\ request'[q].op = request[q].op /\ request'[q].url = request[q].url
            /\ request'[q].next = request[q].next
            /\ request[q].pc \in {"write", "publish"} => request'[q].stale = TRUE
        BY <1>2, <2>1, <3>2 DEF Addon!RequestStates
      <4>2. HasAddress(q)' BY <4>1 DEF HasAddress, SettingsInv
      <4>3. Meant(q)' BY <4>1 DEF Meant
      <4>4. LastWritten(q)' BY <1>5, <4>1 DEF Addon!Publish, LastWritten, SettingsInv
      <4> QED BY <4>2, <4>3, <4>4
    <3> QED BY <3>1, <3>2
  <2>3. memory' = wanted' BY <1>5 DEF Addon!Publish, SettingsInv, Addon!ChangesTakeHold, Meant
  <2>4. ~unsure' => memory' = table' BY <1>5 DEF Addon!Publish, SettingsInv, LastWritten
  <2> QED BY <2>2, <2>3, <2>4 DEF SettingsInv, Addon!ChangesTakeHold, Addon!MemoryIsTable
<1>6. ASSUME NEW r \in Requests, Addon!WriteFails(r) PROVE SettingsInv'
  BY <1>3, <1>6 DEF Addon!WriteFails, Addon!NoChange
<1>7. CASE Addon!Load BY <1>7 DEF Addon!Load, Addon!NoChange, SettingsInv, HasAddress, Meant,
                                  LastWritten, Addon!ChangesTakeHold, Addon!MemoryIsTable,
                                      Addon!Publishing
<1>8. CASE UNCHANGED Addon!settingsVars BY <1>8 DEF Addon!settingsVars, SettingsInv, HasAddress,
                                                    Meant, LastWritten, Addon!ChangesTakeHold,
                                                        Addon!MemoryIsTable, Addon!Publishing
<1> QED BY <1>4, <1>5, <1>6, <1>7, <1>8 DEF Addon!SettingsNext

\* The sync keeps its types.
LEMMA ListTypesKept ==
  ASSUME Addon!AddonAssumption, Addon!ListAssumption, Addon!TypeOK, SettingsInv, SyncInv,
      [Addon!Next]_(Addon!vars)
  PROVE  Addon!TypeOK'
<1>1. Addon!SettingsTypes' BY SettingsMove, SettingsTypesKept DEF Addon!TypeOK
<1>2. Addon!NoSync \in Addon!Syncs
  BY DEF Addon!NoSync, Addon!Syncs, Addon!Nothing, Addon!Settings
<1> DEFINE ListTypes ==
             /\ lists \subseteq Addon!Lists /\ asked \in 0..MaxAsked /\ sync \in Addon!Syncs
             /\ missed \in BOOLEAN /\ tried \subseteq Addon!Lists /\ errors \in 0..MaxErrors
<1>3. ListTypes BY DEF Addon!TypeOK
<1>4. ASSUME Addon!Ask PROVE ListTypes' BY <1>3, <1>4 DEF Addon!Ask, Addon!ListAssumption
<1>5. ASSUME UNCHANGED Addon!listVars PROVE ListTypes' BY <1>3, <1>5 DEF Addon!listVars
<1>6. ASSUME Addon!Begin PROVE ListTypes'
  <2>1. Addon!Enabled(memory) \subseteq Addon!Lists BY DEF Addon!Enabled
  <2>2. sync' \in Addon!Syncs BY <1>2, <1>6, <2>1 DEF Addon!Begin, Addon!Syncs, Addon!TypeOK,
                                                      Addon!SettingsTypes
  <2>3. asked' \in 0..MaxAsked BY <1>3, <1>6 DEF Addon!Begin, Addon!ListAssumption
  <2>4. lists' = lists /\ errors' = errors /\ missed' = FALSE /\ tried' = {}
    BY <1>6 DEF Addon!Begin
  <2> QED BY <1>3, <2>2, <2>3, <2>4
<1>7. ASSUME Addon!Skip PROVE ListTypes' BY <1>3, <1>7 DEF Addon!Skip, Addon!ListAssumption
<1>8. ASSUME Addon!SyncStep PROVE ListTypes'
  <2>1. ASSUME Addon!Drop PROVE ListTypes' BY <1>3, <2>1 DEF Addon!Drop, Addon!Syncs
  <2>2. ASSUME NEW x \in Addon!Lists, Addon!Fetch(x) PROVE ListTypes'
    BY <1>3, <2>2 DEF Addon!Fetch, Addon!Syncs
  <2>3. ASSUME NEW items \in BOOLEAN, Addon!Answer(items) PROVE ListTypes'
    BY <1>3, <2>3 DEF Addon!Answer, Addon!Syncs
  <2>4. ASSUME Addon!NoAnswer PROVE ListTypes' BY <1>3, <2>4 DEF Addon!NoAnswer, Addon!Syncs
  <2>5. ASSUME Addon!Store PROVE ListTypes'
    <3>1. sync.at \in Addon!Lists BY <2>5 DEF Addon!Store, SyncInv, Addon!Enabled
    <3>2. sync' \in Addon!Syncs BY <1>3, <2>5 DEF Addon!Store, Addon!Syncs
    <3> QED BY <1>3, <2>5, <3>1, <3>2 DEF Addon!Store
  <2>6. ASSUME Addon!End PROVE ListTypes' BY <1>2, <1>3, <2>6 DEF Addon!End
  <2>7. ASSUME Addon!Abort PROVE ListTypes'
    BY <1>2, <1>3, <2>7 DEF Addon!Abort, Addon!ListAssumption
  <2> QED BY <1>8, <2>1, <2>2, <2>3, <2>4, <2>5, <2>6, <2>7 DEF Addon!SyncStep
<1>9. ASSUME Addon!Restart PROVE ListTypes'
  BY <1>2, <1>3, <1>9 DEF Addon!Restart, Addon!ListAssumption
<1>10. ListTypes'
  <2>1. ASSUME NEW r \in Requests, Addon!ListStep(r) PROVE Addon!Ask \/ UNCHANGED Addon!listVars
    BY <2>1 DEF Addon!ListStep, Addon!Confirm, Addon!Refuse, Addon!ToggleGone
  <2> QED
    BY <1>4, <1>5, <1>6, <1>7, <1>8, <1>9, <2>1 DEF Addon!Next, Addon!TaskStep, Addon!TaskStart,
                                                    Addon!Scheduled, Addon!vars
<1> QED BY <1>1, <1>10 DEF Addon!TypeOK

\* A step that asks for a refresh, or leaves the lists and the settings in use alone.
LEMMA SyncInvAsked ==
  ASSUME Addon!TypeOK, SyncInv, Addon!Ask \/ (UNCHANGED Addon!listVars /\ UNCHANGED memory)
  PROVE  SyncInv'
<1>1. CASE Addon!Ask
  <2>1. asked' # 0 BY <1>1 DEF Addon!Ask, Addon!TypeOK
  <2> QED BY <1>1, <2>1 DEF Addon!Ask, SyncInv, Addon!ListsMatchSettings, Addon!Quiet
<1>2. CASE UNCHANGED Addon!listVars /\ UNCHANGED memory
  BY <1>2 DEF Addon!listVars, SyncInv, Addon!ListsMatchSettings, Addon!Quiet,
              Addon!EnabledAddons, Addon!Enabled
<1> QED BY <1>1, <1>2

\* What is stored and what is left to ask for follow the settings the sync has read.
LEMMA SyncInvKept ==
  ASSUME Addon!ListAssumption, Addon!TypeOK, SyncInv, [Addon!Next]_(Addon!vars)
  PROVE  SyncInv'
<1>1. ASSUME NEW r \in Requests, Addon!ListStep(r) PROVE SyncInv'
  <2>1. Addon!Ask \/ (UNCHANGED Addon!listVars /\ UNCHANGED memory)
    BY <1>1 DEF Addon!ListStep, Addon!Confirm, Addon!Refuse, Addon!ToggleGone,
                Addon!SettingsStep, Addon!StartAdd, Addon!Manifest, Addon!NoManifest,
                Addon!StartToggle, Addon!StartRemove, Addon!WriteTable, Addon!HangUp,
                    Addon!WriteFails
  <2> QED BY <2>1, SyncInvAsked
<1>2. ASSUME Addon!Begin \/ Addon!Skip, UNCHANGED Addon!settingsVars PROVE SyncInv'
  <2>1. CASE Addon!Begin
    BY <2>1, <1>2 DEF Addon!Begin, Addon!NoSync, Addon!settingsVars, SyncInv,
                      Addon!ListsMatchSettings, Addon!Quiet
  <2>2. CASE Addon!Skip
    BY <2>2, <1>2 DEF Addon!Skip, Addon!settingsVars, SyncInv, Addon!ListsMatchSettings,
                      Addon!Quiet, Addon!TypeOK
  <2> QED BY <1>2, <2>1, <2>2
<1>3. ASSUME Addon!SyncStep, UNCHANGED Addon!settingsVars PROVE SyncInv'
  <2> USE <1>3 DEF SyncInv, Addon!ListsMatchSettings, Addon!Quiet, Addon!settingsVars
  <2>1. CASE Addon!Drop BY <2>1 DEF Addon!Drop, Addon!TypeOK, Addon!Syncs
  <2>2. ASSUME NEW x \in Addon!Lists, Addon!Fetch(x) PROVE SyncInv'
    BY <2>2 DEF Addon!Fetch, Addon!TypeOK, Addon!Syncs
  <2>3. ASSUME NEW items \in BOOLEAN, Addon!Answer(items) PROVE SyncInv'
    BY <2>3 DEF Addon!Answer, Addon!TypeOK, Addon!Syncs
  <2>4. CASE Addon!NoAnswer BY <2>4 DEF Addon!NoAnswer, Addon!TypeOK, Addon!Syncs
  <2>5. CASE Addon!Store
    <3>1. sync.at[1] \in Addon!EnabledAddons(sync.read)
      BY <2>5 DEF Addon!Store, Addon!Enabled, Addon!EnabledAddons, Addon!Lists
    <3>2. sync' = [sync EXCEPT !.pc = "next", !.at = None, !.items = FALSE] /\ sync.pc = "store"
      BY <2>5 DEF Addon!Store
    <3>3. sync'.pc = "next" /\ sync'.read = sync.read /\ sync'.left = sync.left
      BY <3>2 DEF Addon!TypeOK, Addon!Syncs
    <3>4. \A x \in lists' : x[1] \in Addon!EnabledAddons(sync.read)
      BY <2>5, <3>1, <3>2 DEF Addon!Store
    <3>5. UNCHANGED <<asked, missed, tried, memory>> BY <2>5 DEF Addon!Store
    <3> QED BY <3>2, <3>3, <3>4, <3>5
  <2>6. CASE Addon!End BY <2>6 DEF Addon!End, Addon!NoSync
  <2>7. CASE Addon!Abort BY <2>7 DEF Addon!Abort, Addon!NoSync
  <2> QED BY <2>1, <2>2, <2>3, <2>4, <2>5, <2>6, <2>7 DEF Addon!SyncStep
<1>4. CASE Addon!Scheduled BY <1>4, SyncInvAsked DEF Addon!Scheduled
<1>5. CASE Addon!Restart
  BY <1>5 DEF Addon!Restart, Addon!NoSync, SyncInv, Addon!ListsMatchSettings, Addon!Quiet
<1>6. CASE UNCHANGED Addon!vars BY <1>6, SyncInvAsked DEF Addon!vars, Addon!settingsVars
<1> QED BY <1>1, <1>2, <1>3, <1>4, <1>5, <1>6 DEF Addon!Next, Addon!TaskStep, Addon!TaskStart

AddonInv == Addon!TypeOK /\ SettingsInv /\ SyncInv

LEMMA AddonInvariant == Addon!Spec => []AddonInv
<1>1. Addon!Init => AddonInv BY AddonsAssumption, AddonInit DEF AddonInv
<1>2. AddonInv /\ [Addon!Next]_(Addon!vars) => AddonInv'
  <2> SUFFICES ASSUME AddonInv, [Addon!Next]_(Addon!vars) PROVE AddonInv' OBVIOUS
  <2>1. Addon!TypeOK' BY AddonsAssumption, ListTypesKept DEF AddonInv
  <2>2. SettingsInv' BY AddonsAssumption, SettingsMove, SettingsInvKept DEF AddonInv, Addon!TypeOK
  <2>3. SyncInv' BY AddonsAssumption, SyncInvKept DEF AddonInv
  <2> QED BY <2>1, <2>2, <2>3 DEF AddonInv
<1> QED BY <1>1, <1>2, PTL DEF Addon!Spec

\* Whatever requests cross, hang up or fail, and whenever the server restarts, the add-ons in
\* use are those of the changes that were confirmed: only one that crossed another stands with
\* what it read (providers.rs, save, add, toggle, remove).
THEOREM ConfirmedChangesHold == Addon!Spec => []ChangesTakeHold
<1>1. AddonInv => ChangesTakeHold BY DEF AddonInv, SettingsInv, ChangesTakeHold
<1> QED BY <1>1, AddonInvariant, PTL

\* When no refresh of the lists is due, the stored ones belong to add-ons that are enabled and
\* every list of these has been asked for, unless the refresh of the last change was skipped
\* or ended in an error (addon_catalogs.rs, spawn_sync and sync).
THEOREM ListsFollowSettings == Addon!Spec => []ListsMatchSettings
<1>1. AddonInv => ListsMatchSettings BY DEF AddonInv, SyncInv, ListsMatchSettings
<1> QED BY <1>1, AddonInvariant, PTL

=============================================================================
