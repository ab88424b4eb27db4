---------------------------- MODULE OwnerAccess ----------------------------
(***************************************************************************)
(* The owner's account (bootstrap_owner), the owner's sessions with their  *)
(* two time limits, and the purge of lost second factors                   *)
(* (reset_owner_2fa).                                                      *)
(*                                                                         *)
(* A request works on the copy of the session it has loaded and writes the *)
(* whole copy back at its end (SESSION_SAVE_EVERY_REQUEST), so requests of *)
(* one session overwrite each other.  Anonymous requests and refused       *)
(* sign-ins change nothing and are no steps.  Sessions and devices are     *)
(* those of the first owner, whom the reset works on: two runs of          *)
(* bootstrap_owner can make a second.  Which pages enforcement and the     *)
(* gates let a request through to is TwoFactor's subject.                  *)
(***************************************************************************)
EXTENDS Integers, Sequences, FiniteSets

CONSTANTS
  Command,    \* runs of bootstrap_owner
  Email,      \* the addresses they are given
  Request,    \* requests handled at the same time
  Key,        \* session keys there may be
  Device,     \* second factors that may be enrolled
  Idle, Cap,  \* SESSION_COOKIE_AGE, SESSION_ABSOLUTE_TIMEOUT_SECONDS
  MaxTime,    \* bound: the clock stops here
  None

ASSUME AccessAssumption ==
  /\ Idle \in Nat \ {0} /\ Cap \in Nat \ {0} /\ MaxTime \in Nat
  /\ None \notin Nat \cup Device \cup Key

VARIABLES
  now,
  owners,    \* the rows of core_user, all superusers, in order of creation
  boot,      \* bootstrap_owner: each run's step and address
  totp, static,  \* the owner's devices
  enrolled,  \* every device there ever was: keys of rows are not used again
  reset,     \* reset_owner_2fa: its step, and the devices it has found
  revoked,   \* the devices the completed resets had found
  store,     \* django_session: the rows, or None
  cookie,    \* the key the owner's browser sends, or None
  request

vars == <<now, owners, boot, totp, static, enrolled, reset, revoked, store, cookie, request>>
accountVars == <<owners, boot, totp, static, enrolled, reset, revoked>>
sessionVars == <<store, cookie, request>>

Time == 0..MaxTime

\* What a session holds: _session_started_at, the device it was verified with.  When
\* its owner has signed in is not stored.
Data == [started : Time \cup {None}, device : Device \cup {None}, signedIn : Time]

Waiting == [pc |-> "idle", key |-> None, late |-> FALSE, verified |-> FALSE,
            data |-> [started |-> None, device |-> None, signedIn |-> 0]]

Init ==
  /\ now = 0
  /\ owners = <<>>
  /\ boot = [c \in Command |-> [pc |-> "idle", email |-> None]]
  /\ totp = {} /\ static = {} /\ enrolled = {}
  /\ reset = [pc |-> "idle", found |-> {}]
  /\ revoked = {}
  /\ store = [k \in Key |-> None]
  /\ cookie = None
  /\ request = [r \in Request |-> Waiting]

\* A tick is an hour or so: a request ends in the hour it came in or in the next, and a
\* reset in the hour it started.
Tick ==
  /\ now < MaxTime /\ reset.pc \in {"idle", "killed"} /\ \A r \in Request : ~request[r].late
  /\ now' = now + 1
  /\ request' = [r \in Request |-> [request[r] EXCEPT !.late = request[r].pc # "idle"]]
  /\ UNCHANGED <<accountVars, store, cookie>>

-----------------------------------------------------------------------------
(* bootstrap_owner.                                                        *)

BootTo(c, pc) ==
  /\ boot' = [boot EXCEPT ![c].pc = pc]
  /\ UNCHANGED <<now, owners, totp, static, enrolled, reset, revoked, sessionVars>>

\* No owner and no other user: it asks for a password, which takes its time.
BootCheck(c, email) ==
  /\ boot[c].pc = "idle"
  /\ boot' = [boot EXCEPT ![c] =
       [pc |-> IF owners = <<>> THEN "password" ELSE IF owners[1] = email THEN "done" ELSE "refused",
        email |-> email]]
  /\ UNCHANGED <<now, owners, totp, static, enrolled, reset, revoked, sessionVars>>

\* A weak password, end of input, or a kill.
BootAbort(c) == boot[c].pc \in {"password", "guard", "insert", "log"} /\ BootTo(c, "aborted")

BootPassword(c) == boot[c].pc = "password" /\ BootTo(c, "guard")

\* refuse_second_user, before the save: a look at the table.
BootGuard(c) ==
  /\ boot[c].pc = "guard"
  /\ BootTo(c, IF owners = <<>> THEN "insert" ELSE "refused")

\* The INSERT; the user name is the address and is unique.
BootInsert(c) ==
  /\ boot[c].pc = "insert"
  /\ IF \E i \in 1..Len(owners) : owners[i] = boot[c].email
     THEN BootTo(c, "refused")
     ELSE /\ owners' = Append(owners, boot[c].email)
          /\ boot' = [boot EXCEPT ![c].pc = "log"]
          /\ UNCHANGED <<now, totp, static, enrolled, reset, revoked, sessionVars>>

BootLog(c) == boot[c].pc = "log" /\ BootTo(c, "done")

Boot(c) ==
  \/ \E email \in Email : BootCheck(c, email)
  \/ BootPassword(c) \/ BootGuard(c) \/ BootInsert(c) \/ BootLog(c) \/ BootAbort(c)

-----------------------------------------------------------------------------
(* reset_owner_2fa.  The two deletes are statements of their own.          *)

Accounts == <<now, owners, boot, enrolled>>

ResetCount ==
  /\ reset.pc \in {"idle", "killed"} /\ owners # <<>>
  /\ reset' = [pc |-> "totp", found |-> totp \cup static]
  /\ UNCHANGED <<Accounts, totp, static, revoked, sessionVars>>

ResetTotp ==
  /\ reset.pc = "totp"
  /\ totp' = {}
  /\ reset' = [reset EXCEPT !.pc = "static"]
  /\ UNCHANGED <<Accounts, static, revoked, sessionVars>>

\* Fault: recovery codes are left behind.
ResetStaticSkipped ==
  /\ reset.pc = "static"
  /\ reset' = [reset EXCEPT !.pc = "log"]
  /\ UNCHANGED <<Accounts, totp, static, revoked, sessionVars>>

ResetStatic ==
  /\ reset.pc = "static"
  /\ static' = {}
  /\ reset' = [reset EXCEPT !.pc = "log"]
  /\ UNCHANGED <<Accounts, totp, revoked, sessionVars>>

ResetLog ==
  /\ reset.pc = "log"
  /\ revoked' = revoked \cup reset.found
  /\ reset' = [pc |-> "idle", found |-> {}]
  /\ UNCHANGED <<Accounts, totp, static, sessionVars>>

ResetKilled ==
  /\ reset.pc \in {"totp", "static", "log"}
  /\ reset' = [pc |-> "killed", found |-> {}]
  /\ UNCHANGED <<Accounts, totp, static, revoked, sessionVars>>

Reset == ResetCount \/ ResetTotp \/ ResetStatic \/ ResetLog \/ ResetKilled

-----------------------------------------------------------------------------
(* Sessions.                                                               *)

\* Django loads no row that has expired; every save pushes the end Idle further.
Alive(k) == k # None /\ store[k] # None /\ now < store[k].saved + Idle
Row(data) == [data |-> data, saved |-> now]

\* Rows whose key neither the browser nor a request has are left out.
Known(rows) ==
  [k \in Key |-> IF k = cookie' \/ \E r \in Request : request'[r].key = k THEN rows[k] ELSE None]

Devices == totp \cup static
\* What a sign-in is verified with.
Codes == IF totp = {} THEN {None} ELSE Devices
\* Fault: the start is not kept.
StartedLost(data) == data

\* Fault: the start is taken again by every request.
StartedAgain(data) == [data EXCEPT !.started = now]

\* SessionAbsoluteTimeoutMiddleware: the clock starts at the first request that finds
\* no start.
Started(data) == IF data.started = None THEN [data EXCEPT !.started = now] ELSE data
TimedOut(data) == data.started # None /\ now - data.started >= Cap

\* logout() flushes the session and the request goes to the sign-in page.
Flush(k) ==
  /\ store' = [store EXCEPT ![k] = None]
  /\ cookie' = None
  /\ UNCHANGED <<now, accountVars, request>>

TimeOut == Alive(cookie) /\ TimedOut(store[cookie].data) /\ Flush(cookie)

SignOut == Alive(cookie) /\ Flush(cookie)

\* A request of a session; what OTPMiddleware finds stays with the request.
Arrive(r) ==
  /\ request[r].pc = "idle"
  /\ Alive(cookie) /\ ~TimedOut(store[cookie].data)
  /\ LET data == Started(store[cookie].data)
     IN  request' = [request EXCEPT ![r] =
           [pc |-> "loaded", key |-> cookie, late |-> FALSE,
            verified |-> data.device \in Devices, data |-> data]]
  /\ UNCHANGED <<now, accountVars, store, cookie>>

\* The page: sign in on top of the session, which keeps its data, set up an authenticator
\* app if there is none, make recovery codes once verified, or one that changes nothing.
Page(r) ==
  /\ request[r].pc = "loaded"
  /\ \/ /\ request' = [request EXCEPT ![r].pc = "save"]
        /\ UNCHANGED <<now, accountVars, store, cookie>>
     \/ \E d \in Codes \ {None} :
          /\ request' = [request EXCEPT ![r].pc = "save", ![r].data.device = d]
          /\ UNCHANGED <<now, accountVars, store, cookie>>
     \/ \E d \in Device \ enrolled :
          /\ totp = {}
          /\ totp' = {d} /\ enrolled' = enrolled \cup {d}
          /\ request' = [request EXCEPT ![r].pc = "save", ![r].data.device = d]
          /\ UNCHANGED <<now, owners, boot, static, reset, revoked, store, cookie>>
     \/ \E d \in Device \ enrolled :
          /\ request[r].verified /\ static = {}
          /\ static' = {d} /\ enrolled' = enrolled \cup {d}
          /\ request' = [request EXCEPT ![r].pc = "save"]
          /\ UNCHANGED <<now, owners, boot, totp, reset, revoked, store, cookie>>

\* The response: the whole copy is written and the browser told its key, unless the row
\* is gone or the page has failed.
Save(r) ==
  /\ request[r].pc = "save"
  /\ request' = [request EXCEPT ![r] = Waiting]
  /\ LET k == request[r].key
     IN  \/ /\ store[k] # None
            /\ cookie' = k
            /\ store' = Known([store EXCEPT ![k] = Row(request[r].data)])
         \/ cookie' = cookie /\ store' = Known(store)
  /\ UNCHANGED <<now, accountVars>>

\* A password, and a code if an authenticator app is set up: the app's or a recovery
\* code.  The session gets a new key.
SignIn ==
  /\ owners # <<>> /\ ~Alive(cookie)
  /\ UNCHANGED <<now, accountVars, request>>
  /\ \E k \in {j \in Key : store[j] = None /\ \A r \in Request : request[r].key # j}, d \in Codes :
       /\ cookie' = k
       /\ store' = Known([store EXCEPT ![k] = Row([started |-> None, device |-> d, signedIn |-> now])])

Sessions ==
  \/ \E r \in Request : Arrive(r) \/ Page(r) \/ Save(r)
  \/ TimeOut \/ SignOut \/ SignIn

Next == Tick \/ (\E c \in Command : Boot(c)) \/ Reset \/ Sessions

Spec == Init /\ [][Next]_vars

-----------------------------------------------------------------------------
TypeOK ==
  /\ now \in Time
  /\ owners \in Seq(Email)
  /\ boot \in [Command -> [pc : {"idle", "password", "guard", "insert", "log", "done", "refused",
                                 "aborted"}, email : Email \cup {None}]]
  /\ totp \cup static \subseteq enrolled /\ enrolled \subseteq Device /\ totp \cap static = {}
  /\ reset \in [pc : {"idle", "totp", "static", "log", "killed"}, found : SUBSET Device]
  /\ revoked \subseteq Device
  /\ store \in [Key -> [data : Data, saved : Time] \cup {None}]
  /\ cookie \in Key \cup {None}
  /\ request \in [Request -> [pc : {"idle", "loaded", "save"},
                              key : Key \cup {None}, late : BOOLEAN, verified : BOOLEAN, data : Data]]
  /\ \A r \in Request : request[r].pc # "idle" => request[r].key # None /\ request[r].data.started # None

(* refuse_second_user: the table holds one row, the owner.                 *)
SoleOwner == Len(owners) <= 1

(* Nobody gets a page more than Cap hours after the session's first        *)
(* request, which must come within Idle of the sign-in: neither activity,  *)
(* nor a new sign-in on top of a session, nor requests that overwrite each *)
(* other's copies stretch it.                                              *)
CapHolds ==
  [][\A r \in Request : request[r].pc = "idle" /\ request'[r].pc # "idle"
       => now < request'[r].data.signedIn + Idle + Cap]_vars

(* A completed reset cuts off every device it found: no later request is   *)
(* taken as verified because of one, whatever its session remembers.       *)
CutOff ==
  [][\A r \in Request : request[r].pc = "idle" /\ request'[r].verified
       => request'[r].data.device \notin revoked]_vars

(* middleware.py calls it a hard cap: 12 hours from the sign-in.           *)
HardCap ==
  [][\A r \in Request : request[r].pc = "idle" /\ request'[r].pc # "idle"
       => now < request'[r].data.signedIn + Cap]_vars
=============================================================================
