------------------------------ MODULE ConsoleAccess ------------------------------
(* The web console (admin.rs): its password, the signed-in browsers (table      *)
(* console_sessions and the cache in front of it), and what a signed-in browser *)
(* does to the devices of DeviceAccess. A request waits at each await.          *)
EXTENDS DeviceAccess

CONSTANTS
  Browsers,       \* requests of browsers
  Tokens,         \* session tokens; each is random and made once
  MaxPasswords,   \* bound: how often the password is changed
  MaxRestarts     \* bound

ASSUME ConsoleAssumption ==
  /\ {MaxPasswords, MaxRestarts} \subseteq Nat
  /\ IsFiniteSet(Apps) /\ IsFiniteSet(Browsers) /\ None \notin Tokens

VARIABLES
  password,   \* the stored hash: of which password, and whether by the old scheme
  latest,     \* the newest password anybody set
  opened,     \* console_sessions: token -> how it was opened
  cookies,    \* tokens that browsers were given
  known,      \* the cache of tokens
  browser,    \* requests of browsers
  cut,        \* history: requests that ended before the cache they had to empty was
  upgraded,   \* history: the installation had a hash by the old scheme
  restarts

consoleVars == <<password, latest, opened, cookies, known, browser, cut, upgraded, restarts>>
vars == <<deviceVars, failed, consoleVars>>

Passwords == 0..MaxPasswords

\* `state`: not made yet, in the table, or deleted from it; `with`: the password it was opened
\* with; `overtaken` (history): everyone was signed out since that was looked at.
Opened == [state : {"new", "here", "gone"}, with : Passwords, overtaken : BOOLEAN]
NotOpened == [state |-> "new", with |-> 0, overtaken |-> FALSE]

BrowserRequests ==
  [pc : {"idle", "hash", "rehash", "open", "know", "check", "remember", "do", "forget",
         "signout", "flush", "unknow"},
   token : Tokens \cup {None}, with : Passwords, overtaken : BOOLEAN]
NoBrowser == [pc |-> "idle", token |-> None, with |-> 0, overtaken |-> FALSE]

TypeOK ==
  /\ DeviceTypes
  /\ password \in [of : Passwords, old : BOOLEAN] /\ latest \in Passwords
  /\ opened \in [Tokens -> Opened] /\ cookies \subseteq Tokens
  /\ known \in [Tokens -> {"no", "yes", "missed"}]
  /\ browser \in [Browsers -> BrowserRequests]
  /\ cut \subseteq {"devices", "sessions"} /\ upgraded \in BOOLEAN
  /\ restarts \in 0..MaxRestarts

Init ==
  /\ DeviceInit
  /\ \E old \in BOOLEAN : password = [of |-> 0, old |-> old] /\ upgraded = old
  /\ latest = 0
  /\ opened = [t \in Tokens |-> NotOpened] /\ cookies = {}
  /\ known = [t \in Tokens |-> "no"]
  /\ browser = [b \in Browsers |-> NoBrowser]
  /\ cut = {} /\ restarts = 0

SetBrowser(b, r) == browser' = [browser EXCEPT ![b] = r]
Goto(b, pc) == SetBrowser(b, [browser[b] EXCEPT !.pc = pc])
At(b, pc) == browser[b].pc = pc

----------------------------------------------------------------------------
(* Signing in *)

\* Somebody types this password or an earlier one.
Login(b, p) ==
  /\ At(b, "idle") /\ ~Blocked("credential") /\ p <= latest
  /\ SetBrowser(b, [NoBrowser EXCEPT !.pc = "hash", !.with = p])
  /\ UNCHANGED <<deviceVars, failed, password, latest, opened, cookies, known, cut, upgraded, restarts>>

\* As if the hash were renewed at every login.
CheckHashAlways(b) ==
  /\ At(b, "hash")
  /\ IF browser[b].with = password.of
     THEN Goto(b, "rehash") /\ UNCHANGED failed
     ELSE SetBrowser(b, NoBrowser) /\ RecordFailure("credential")
  /\ UNCHANGED <<deviceVars, password, latest, opened, cookies, known, cut, upgraded, restarts>>

CheckHash(b) ==
  /\ At(b, "hash")
  /\ IF browser[b].with = password.of
     THEN Goto(b, IF password.old THEN "rehash" ELSE "open") /\ UNCHANGED failed
     ELSE SetBrowser(b, NoBrowser) /\ RecordFailure("credential")
  /\ UNCHANGED <<deviceVars, password, latest, opened, cookies, known, cut, upgraded, restarts>>

Rehash(b) ==
  /\ At(b, "rehash")
  /\ password' = [of |-> browser[b].with, old |-> FALSE]
  /\ Goto(b, "open")
  /\ UNCHANGED <<deviceVars, failed, latest, opened, cookies, known, cut, upgraded, restarts>>

OpenSession(b) ==
  /\ At(b, "open")
  /\ \E t \in Tokens :
       /\ opened[t].state = "new"
       /\ opened' = [opened EXCEPT ![t] =
            [state |-> "here", with |-> browser[b].with, overtaken |-> browser[b].overtaken]]
       /\ SetBrowser(b, [NoBrowser EXCEPT !.pc = "know", !.token = t])
  /\ UNCHANGED <<deviceVars, failed, password, latest, cookies, known, cut, upgraded, restarts>>

\* The token is put into the cache and, in the answer, into the browser.
KnowSession(b) ==
  /\ At(b, "know")
  /\ known' = [known EXCEPT ![browser[b].token] = IF browser[b].overtaken THEN "missed" ELSE "yes"]
  /\ cookies' = cookies \cup {browser[b].token}
  /\ SetBrowser(b, NoBrowser)
  /\ UNCHANGED <<deviceVars, failed, password, latest, opened, cut, upgraded, restarts>>

----------------------------------------------------------------------------
(* Signed in *)

Enter(b, t) ==
  /\ At(b, "idle") /\ t \in cookies
  /\ SetBrowser(b, [NoBrowser EXCEPT !.pc = IF known[t] # "no" THEN "do" ELSE "check", !.token = t])
  /\ UNCHANGED <<deviceVars, failed, password, latest, opened, cookies, known, cut, upgraded, restarts>>

\* An error of the database signs nobody in.
CheckSession(b) ==
  /\ At(b, "check")
  /\ IF opened[browser[b].token].state = "here" THEN Goto(b, "remember")
     ELSE SetBrowser(b, NoBrowser)
  /\ UNCHANGED <<deviceVars, failed, password, latest, opened, cookies, known, cut, upgraded, restarts>>

RememberSession(b) ==
  /\ At(b, "remember")
  /\ known' = [known EXCEPT ![browser[b].token] = IF browser[b].overtaken THEN "missed" ELSE "yes"]
  /\ SetBrowser(b, [NoBrowser EXCEPT !.pc = "do", !.token = browser[b].token])
  /\ UNCHANGED <<deviceVars, failed, password, latest, opened, cookies, cut, upgraded, restarts>>

Revoke(b, d) ==
  /\ At(b, "do")
  /\ RemoveDevice(d) /\ Goto(b, "forget")
  /\ UNCHANGED <<owner, signed, app, failed, password, latest, opened, cookies, known, cut, upgraded, restarts>>

NewCode(b, d) ==
  /\ At(b, "do")
  /\ RenewCode(d) /\ Goto(b, "forget")
  /\ UNCHANGED <<owner, signed, app, failed, password, latest, opened, cookies, known, cut, upgraded, restarts>>

Forget(b) ==
  /\ At(b, "forget")
  /\ ForgetSessions
  /\ SetBrowser(b, NoBrowser)
  /\ UNCHANGED <<device, owner, failed, password, latest, opened, cookies, known, cut, upgraded, restarts>>

Create(b) ==
  /\ At(b, "do")
  /\ CreateDevice /\ SetBrowser(b, NoBrowser)
  /\ UNCHANGED <<owner, signed, app, failed, password, latest, opened, cookies, known, cut, upgraded, restarts>>

\* The password, then everyone's sessions, then the cache, then a session for this browser.
SetPassword(b) ==
  /\ At(b, "do") /\ latest < MaxPasswords
  /\ latest' = latest + 1
  /\ password' = [of |-> latest', old |-> FALSE]
  /\ SetBrowser(b, [NoBrowser EXCEPT !.pc = "signout", !.with = latest'])
  /\ UNCHANGED <<deviceVars, failed, opened, cookies, known, cut, upgraded, restarts>>

\* Who is in the middle of signing in or of being let in does not notice.
Overtake(r) == IF r.pc \in {"rehash", "open", "know", "remember", "signout", "flush"}
               THEN [r EXCEPT !.overtaken = TRUE] ELSE r

DeleteSessions == opened' = [t \in Tokens |->
  IF opened[t].state = "here" THEN [NotOpened EXCEPT !.state = "gone"] ELSE opened[t]]

\* As if the sessions in the table were left to expire.
SignOutCacheOnly(b) ==
  /\ At(b, "signout")
  /\ Goto(b, "flush")
  /\ UNCHANGED <<deviceVars, failed, password, latest, opened, cookies, known, cut, upgraded, restarts>>

SignOutAll(b) ==
  /\ At(b, "signout")
  /\ DeleteSessions
  /\ browser' = [c \in Browsers |->
       IF c = b THEN [browser[b] EXCEPT !.pc = "flush"] ELSE Overtake(browser[c])]
  /\ UNCHANGED <<deviceVars, failed, password, latest, cookies, known, cut, upgraded, restarts>>

\* As if the cache were left alone.
FlushNothing(b) ==
  /\ At(b, "flush")
  /\ Goto(b, "open")
  /\ UNCHANGED <<deviceVars, failed, password, latest, opened, cookies, known, cut, upgraded, restarts>>

FlushSessions(b) ==
  /\ At(b, "flush")
  /\ known' = [t \in Tokens |-> "no"]
  /\ browser' = [c \in Browsers |->
       IF c = b THEN [browser[b] EXCEPT !.pc = "open"] ELSE browser[c]]
  /\ UNCHANGED <<deviceVars, failed, password, latest, opened, cookies, cut, upgraded, restarts>>

\* Everything else a signed-in browser may ask for.
Look(b) ==
  /\ At(b, "do")
  /\ SetBrowser(b, NoBrowser)
  /\ UNCHANGED <<deviceVars, failed, password, latest, opened, cookies, known, cut, upgraded, restarts>>

\* Signing out needs no valid session.
Logout(b, t) ==
  /\ At(b, "idle") /\ t \in cookies
  /\ opened' = [opened EXCEPT ![t] = [NotOpened EXCEPT !.state = "gone"]]
  /\ browser' = [c \in Browsers |->
       IF c = b THEN [NoBrowser EXCEPT !.pc = "unknow", !.token = t]
       ELSE IF At(c, "remember") /\ browser[c].token = t THEN Overtake(browser[c]) ELSE browser[c]]
  /\ UNCHANGED <<deviceVars, failed, password, latest, cookies, known, cut, upgraded, restarts>>

Unknow(b) ==
  /\ At(b, "unknow")
  /\ known' = [known EXCEPT ![browser[b].token] = "no"]
  /\ SetBrowser(b, NoBrowser)
  /\ UNCHANGED <<deviceVars, failed, password, latest, opened, cookies, cut, upgraded, restarts>>

\* The browser hangs up, or the database fails it, wherever the request waits.
BrowserEnds(b) ==
  /\ ~At(b, "idle")
  /\ SetBrowser(b, NoBrowser)
  /\ cut' = cut \cup (CASE At(b, "forget") -> {"devices"}
                        [] browser[b].pc \in {"signout", "flush", "unknow"} -> {"sessions"}
                        [] OTHER -> {})
  /\ UNCHANGED <<deviceVars, failed, password, latest, opened, cookies, known, upgraded, restarts>>

TokenExpires(t) ==
  /\ known[t] # "no"
  /\ known' = [known EXCEPT ![t] = "no"]
  /\ UNCHANGED <<deviceVars, failed, password, latest, opened, cookies, browser, cut, upgraded, restarts>>

\* ADMIN_PASSWORD_RESET sets a password and signs everyone out.
Restart ==
  /\ restarts < MaxRestarts /\ restarts' = restarts + 1
  /\ Boot
  /\ known' = [t \in Tokens |-> "no"]
  /\ browser' = [b \in Browsers |-> NoBrowser]
  /\ \/
        /\ latest < MaxPasswords /\ latest' = latest + 1 /\ password' = [of |-> latest', old |-> FALSE]
        /\ DeleteSessions
     \/ UNCHANGED <<password, latest, opened>>
  /\ cut' = IF \E b \in Browsers : At(b, "signout") THEN cut \cup {"sessions"} ELSE cut
  /\ UNCHANGED <<cookies, upgraded>>

SignInStep(b) == CheckHash(b) \/ Rehash(b) \/ OpenSession(b) \/ KnowSession(b)
SessionStep(b) == CheckSession(b) \/ RememberSession(b) \/ Look(b)
PasswordStep(b) == SetPassword(b) \/ SignOutAll(b) \/ FlushSessions(b) \/ Unknow(b)
DeviceStep(b) ==
  \/ \E d \in Devices : Revoke(b, d) \/ NewCode(b, d)
  \/ Create(b) \/ Forget(b)

AppNext ==
  /\ \/ \E a \in Apps, c \in Credentials : Present(a, c) \/ Pair(a, c)
     \/ \E a \in Apps : AppStep(a) \/ AppEnds(a)
     \/ \E d \in Devices : CodeExpires(d)
     \/ \E c \in Credentials : SessionExpires(c)
  /\ UNCHANGED consoleVars

SessionNext ==
  \/ \E b \in Browsers : \/ \E p \in Passwords : Login(b, p)
                         \/ \E t \in Tokens : Logout(b, t)
                         \/ SignInStep(b) \/ PasswordStep(b)
  \/ \E t \in Tokens : TokenExpires(t)

ConsoleNext ==
  \/ \E b \in Browsers : \/ \E t \in Tokens : Enter(b, t)
                         \/ SessionStep(b) \/ BrowserEnds(b)
  \/ \E bucket \in {"auth", "credential"} : WindowEnds(bucket) /\ UNCHANGED consoleVars

Next ==
  \/ AppNext \/ ConsoleNext \/ SessionNext \/ Restart
  \/ \E b \in Browsers : DeviceStep(b)

Spec == Init /\ [][Next]_vars

----------------------------------------------------------------------------
(* Properties *)

\* A removed device, or a device's old code, is only accepted from the session cache if the
\* session was looked up before and put there after the cache was emptied, or while the
\* console is about to empty it or was cut off before it could.
RevokedOnlyIfMissed ==
  \A c \in Credentials : signed[c] # None =>
    LET d == signed[c].device IN
    \/ Here(d) /\ (c \in Keys \/ device[d].code = c)
    \/ signed[c].missed
    \/ "devices" \in cut \/ \E b \in Browsers : At(b, "forget")

\* A browser that was signed out is only let in by the cache under the same conditions.
SignedOutOnlyIfMissed ==
  \A t \in Tokens : known[t] # "no" =>
    \/ opened[t].state = "here"
    \/ known[t] = "missed"
    \/ "sessions" \in cut
    \/ \E b \in Browsers : At(b, "flush") \/ (At(b, "unknow") /\ browser[b].token = t)

\* Neither cache lets in whom the tables have let go (auth.rs, console_session).
CachesFollowTables == RevokedOnlyIfMissed /\ SignedOutOnlyIfMissed

\* Changing the password ends what was opened with an earlier one, except for a login that
\* had already passed its check, or while the change is not through.
OldPasswordOnlyIfOvertaken ==
  \A t \in Tokens : opened[t].state = "here" /\ opened[t].with # latest =>
    \/ opened[t].overtaken
    \/ "sessions" \in cut \/ \E b \in Browsers : At(b, "signout")
    \/ password.of # latest

\* The password that was set last is the one that is asked for, unless a login rewrote a
\* hash of the old scheme over it.
LastPasswordStands == password.of # latest => upgraded

\* A change of the password is a change for everybody (change_password, login).
NewPasswordCounts == OldPasswordOnlyIfOvertaken /\ LastPasswordStands

\* An address gets no more wrong attempts than the limit and those under way with the last.
AttemptsBounded ==
  /\ failed.auth < AuthLimit + Cardinality(Apps)
  /\ failed.credential < CredentialLimit + Cardinality(Apps) + Cardinality(Browsers)

\* A removed device is refused for good before long, whatever was cached or under way.
RemovedStaysOut ==
  \A d \in Devices : device[d].state = "gone" ~>
    [](/\ \A c \in Credentials : signed[c] # None => signed[c].device # d
       /\ \A a \in Apps : app[a].device # d)
=============================================================================
