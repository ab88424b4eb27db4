----------------------------- MODULE TwoFactor -----------------------------
(***************************************************************************)
(* The enforcement of two-factor authentication: the SystemFlag row, the   *)
(* middleware every request runs, the gates in front of the admin and the  *)
(* reports, and the operator's command that grants a grace window.         *)
(* Requests are those of the signed-in owner who has not passed the second *)
(* factor, to the admin or a report.                                       *)
(*                                                                         *)
(* The middleware reads the row once and decides on its copy, the gate     *)
(* reads it again; reading, writing and logging are statements of their    *)
(* own, so requests and the command interleave between them.               *)
(***************************************************************************)
EXTENDS Integers

CONSTANTS
  Request,   \* requests the web workers handle at the same time
  MaxGrace,  \* the longest grace window, 24 hours
  MaxTime,   \* bound: the clock stops here
  MaxDeploys,\* bound: deployments with another REQUIRE_2FA
  NoTime     \* enforcement_locked_until IS NULL

ASSUME TimeAssumption ==
  MaxGrace \in Nat \ {0} /\ MaxTime \in Nat /\ MaxDeploys \in Nat /\ NoTime \notin Nat

VARIABLES
  required,  \* settings.REQUIRE_2FA of the running deployment
  deploys,   \* how often it changed
  flag,      \* the SystemFlag row
  now,
  request,   \* each request: its step, its copy of the row and when it came
  command,   \* disable_2fa_enforcement: its step
  logged     \* the last audit row about enforcement

vars == <<required, deploys, flag, now, request, command, logged>>

Time == 0..MaxTime
Flag == [active : BOOLEAN, until : Nat \cup {NoTime}]
Off == [active |-> FALSE, until |-> NoTime]
On == [active |-> TRUE, until |-> NoTime]

Waiting == [pc |-> "waiting", copy |-> Off, since |-> 0]

Init ==
  /\ required \in BOOLEAN
  /\ deploys = 0
  /\ flag = Off
  /\ now = 0
  /\ request = [r \in Request |-> Waiting]
  /\ command = "waiting"
  /\ logged = "none"

-----------------------------------------------------------------------------
InGrace(f) == ~f.active /\ f.until # NoTime /\ now < f.until
\* Fault: the end of the window belongs to nothing.
ExpiredLate(f) == ~f.active /\ f.until # NoTime /\ now > f.until
Expired(f) == ~f.active /\ f.until # NoTime /\ now >= f.until

\* SystemFlag.get.
Arrive(r) ==
  /\ request[r].pc \in {"waiting", "served", "refused"}
  /\ request' = [request EXCEPT ![r] = [pc |-> "latch", copy |-> flag,
                                                since |-> now]]
  /\ UNCHANGED <<required, deploys, flag, now, command, logged>>

\* Fault: the row is updated and the instance is not.
ActivateRowOnly(r, next) ==
  /\ flag' = On
  /\ request' = [request EXCEPT ![r].pc = next]
  /\ UNCHANGED <<required, deploys, now, command, logged>>

\* activate_enforcement saves both columns, whatever the row holds by now.
Activate(r, next) ==
  /\ flag' = On
  /\ request' = [request EXCEPT ![r].pc = next, ![r].copy = On]
  /\ UNCHANGED <<required, deploys, now, command, logged>>

Proceed(r, next) ==
  /\ request' = [request EXCEPT ![r].pc = next]
  /\ UNCHANGED <<required, deploys, flag, now, command, logged>>

\* Fault: the flag follows the environment variable.
LatchFollows(r) ==
  /\ request[r].pc = "latch"
  /\ flag' = IF required THEN On ELSE Off
  /\ request' = [request EXCEPT ![r].pc = "expiry", ![r].copy = flag']
  /\ UNCHANGED <<required, deploys, now, command, logged>>

\* (1) the sticky-on latch
Latch(r) ==
  LET due == required /\ ~request[r].copy.active /\ ~InGrace(request[r].copy) IN
  /\ request[r].pc = "latch"
  /\ \/ due /\ Activate(r, "log_activated")
     \/ ~due /\ Proceed(r, "expiry")

\* Fault: nobody looks for expired windows.
ExpiryIgnored(r) == request[r].pc = "expiry" /\ Proceed(r, "enforce")

\* (2) an expired grace window
Expiry(r) ==
  LET due == Expired(request[r].copy) IN
  /\ request[r].pc = "expiry"
  /\ \/ due /\ Activate(r, "log_re_enabled")
     \/ ~due /\ Proceed(r, "enforce")

Log(r) ==
  /\ request[r].pc \in {"log_activated", "log_re_enabled"}
  /\ logged' = IF request[r].pc = "log_activated" THEN "activated" ELSE "auto_re_enabled"
  /\ request' = [request EXCEPT
                   ![r].pc = IF @ = "log_activated" THEN "expiry" ELSE "enforce"]
  /\ UNCHANGED <<required, deploys, flag, now, command>>

\* (3) enforcement
Enforce(r) ==
  /\ request[r].pc = "enforce"
  /\ Proceed(r, IF request[r].copy.active THEN "refused" ELSE "gate")

\* Fault: the gate is left open.
GateOpen(r) == request[r].pc = "gate" /\ Proceed(r, "served")

\* owner_only_with_2fa and FamilyBooksAdminSite.has_permission get the row themselves.
Gate(r) ==
  /\ request[r].pc = "gate"
  /\ Proceed(r, IF flag.active THEN "refused" ELSE "served")

Handle(r) == Arrive(r) \/ Latch(r) \/ Expiry(r) \/ Log(r) \/ Enforce(r) \/ Gate(r)

-----------------------------------------------------------------------------
\* disable_2fa_enforcement: it returns at once when enforcement is off and no window
\* is open, an expired one included.
CommandStart ==
  /\ command = "waiting"
  /\ flag.active \/ InGrace(flag)
  /\ command' = "grant"
  /\ UNCHANGED <<required, deploys, flag, now, request, logged>>

\* Fault: an extension is added to the window there is.
CommandGrantAdds(hours) ==
  /\ command = "grant"
  /\ flag' = [active |-> FALSE,
              until |-> hours + IF InGrace(flag) THEN flag.until ELSE now]
  /\ command' = "log"
  /\ UNCHANGED <<required, deploys, now, request, logged>>

\* grant_enforcement_grace, with the hours clamped to 1..24.
CommandGrant(hours) ==
  /\ command = "grant"
  /\ flag' = [active |-> FALSE, until |-> now + hours]
  /\ command' = "log"
  /\ UNCHANGED <<required, deploys, now, request, logged>>

CommandLog ==
  /\ command = "log"
  /\ logged' = "disabled"
  /\ command' = "waiting"
  /\ UNCHANGED <<required, deploys, flag, now, request>>

\* A deployment with another value of the environment variable: requests in progress
\* end with the old workers.
Redeploy ==
  /\ deploys < MaxDeploys
  /\ deploys' = deploys + 1
  /\ required' = ~required
  /\ request' = [r \in Request |-> Waiting]
  /\ UNCHANGED <<flag, now, command, logged>>

Tick == now < MaxTime /\ now' = now + 1 /\ UNCHANGED <<required, deploys, flag, request, command, logged>>

Next ==
  \/ \E r \in Request : Handle(r)
  \/ CommandStart \/ CommandLog \/ \E hours \in 1..MaxGrace : CommandGrant(hours)
  \/ Redeploy \/ Tick

Spec == Init /\ [][Next]_vars

\* A request that arrived is handled, and there is always a next one.
FairSpec == Spec /\ \A r \in Request : WF_vars(Handle(r))

-----------------------------------------------------------------------------
TypeOK ==
  /\ required \in BOOLEAN /\ deploys \in 0..MaxDeploys
  /\ flag \in Flag
  /\ now \in Time
  /\ request \in [Request -> [pc : {"waiting", "latch", "log_activated", "expiry",
                                    "log_re_enabled", "enforce", "gate", "served", "refused"},
                              copy : Flag, since : Time]]
  /\ \A r \in Request :
       request[r].pc \in {"log_activated", "log_re_enabled"} => request[r].copy = On
  /\ command \in {"waiting", "grant", "log"}
  /\ logged \in {"none", "activated", "auto_re_enabled", "disabled"}

(* A grace window that is open ends at most MaxGrace hours from now, also  *)
(* when it is extended again and again.                                    *)
GraceBounded == flag.until # NoTime => ~flag.active /\ flag.until <= now + MaxGrace

(* A page that is served without a second factor is served while           *)
(* enforcement is off, to a request that came while a window was open or   *)
(* before enforcement was ever on or asked for: none gets in after the end *)
(* of a window, or after a deployment or another request switches it on.   *)
ServedOnlyWhenOff ==
  [][\A r \in Request : request[r].pc # "served" /\ request'[r].pc = "served" =>
       LET seen == request[r].copy IN
       /\ ~flag.active
       /\ \/ seen = Off /\ ~required
          \/ seen.until # NoTime /\ ~seen.active /\ request[r].since < seen.until]_vars

(* Enforcement is sticky: once on, it is only ever switched off by the     *)
(* command, and then with an end.                                          *)
Sticky == [][flag.active /\ ~flag'.active => flag'.until # NoTime /\ command = "grant"]_vars

(* A window that is over does not stay like that, as long as requests come *)
(* in: enforcement is on again, unless a command that had started before   *)
(* the end renews the window.                                              *)
ExpiryEndsGrace == Expired(flag) ~> flag.active \/ InGrace(flag)

(* An open grace window stays open until its end.                          *)
GraceHonoured == [][InGrace(flag) => flag' # On]_vars

(* When enforcement resumes because a window is over, the log says so.     *)
ExpiryLogged ==
  [][\A r \in Request : Expired(request[r].copy) /\ flag' = On /\ request'[r] # request[r]
        => request'[r].pc = "log_re_enabled"]_vars
=============================================================================
