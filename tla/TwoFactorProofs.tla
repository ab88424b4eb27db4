-------------------------- MODULE TwoFactorProofs --------------------------
(***************************************************************************)
(* What TwoFactor promises, proved for any number of requests, any length  *)
(* of the windows and any number of deployments.                           *)
(***************************************************************************)
EXTENDS TwoFactor, TLAPS

(* Why a request may be let on: its copy says that enforcement was never   *)
(* on and is not asked for, or that a window was open when it came.        *)
NeverOn(r) == request[r].copy = Off /\ ~required
CameInWindow(r) ==
  request[r].copy.until # NoTime /\ request[r].since < request[r].copy.until

(* What a request knows at each of its steps.  The latch lets an inactive  *)
(* copy pass only if enforcement is not asked for or the window is open,   *)
(* and the next step only if the window, where there is one, is open.      *)
RequestInv(r) ==
  /\ request[r].since <= now
  /\ request[r].pc = "expiry" /\ ~request[r].copy.active
       => NeverOn(r) \/ request[r].copy.until # NoTime
  /\ request[r].pc \in {"enforce", "gate"} /\ ~request[r].copy.active
       => NeverOn(r) \/ CameInWindow(r)
  /\ request[r].pc = "gate" => ~request[r].copy.active

Inv ==
  /\ TypeOK
  /\ GraceBounded
  /\ \A r \in Request : RequestInv(r)

(* An inactive copy without a window is Off.                               *)
LEMMA OffOrWindow ==
  ASSUME NEW f \in Flag, ~f.active, f.until = NoTime
  PROVE  f = Off
BY DEF Flag, Off

(* It holds before the first request.                                      *)
LEMMA InitInv == Init => Inv
<1> SUFFICES ASSUME Init PROVE Inv
  OBVIOUS
<1>1. TypeOK
  BY TimeAssumption DEF Init, TypeOK, Flag, Off, On, Waiting, Time
<1>2. GraceBounded
  BY DEF Init, GraceBounded, Off
<1>3. ASSUME NEW r \in Request PROVE RequestInv(r)
  <2>1. request[r] = Waiting
    BY DEF Init
  <2>2. request[r].pc = "waiting" /\ request[r].since = 0
    BY <2>1 DEF Waiting
  <2> QED
    BY <2>2 DEF Init, RequestInv
<1> QED
  BY <1>1, <1>2, <1>3 DEF Inv

(* The rows the code writes.                                               *)
LEMMA Rows == /\ Off \in Flag /\ On \in Flag
              /\ \A t \in Nat : [active |-> FALSE, until |-> t] \in Flag
BY DEF Off, On, Flag

(* Types, whatever the step.                                               *)
LEMMA NextType ==
  ASSUME TypeOK, [Next]_vars
  PROVE  TypeOK'
<1> USE DEF TypeOK
<1>1. ASSUME NEW r \in Request, Arrive(r) PROVE TypeOK'
  BY <1>1 DEF Arrive
<1>2. ASSUME NEW r \in Request, NEW next \in {"log_activated", "log_re_enabled"},
             Activate(r, next)
      PROVE  TypeOK'
  BY <1>2, Rows DEF Activate
<1>3. ASSUME NEW r \in Request, NEW next \in {"expiry", "enforce", "gate", "served", "refused"},
             Proceed(r, next)
      PROVE  TypeOK'
  BY <1>3 DEF Proceed
<1>4. ASSUME NEW r \in Request, Log(r) PROVE TypeOK'
  <2>1. PICK next \in {"expiry", "enforce"} : request' = [request EXCEPT ![r].pc = next]
    BY <1>4 DEF Log
  <2>2. logged' \in {"activated", "auto_re_enabled"}
    BY <1>4 DEF Log
  <2> QED
    BY <1>4, <2>1, <2>2 DEF Log
<1>5. CASE CommandStart \/ CommandLog
  BY <1>5 DEF CommandStart, CommandLog
<1>6. ASSUME NEW hours \in 1..MaxGrace, CommandGrant(hours) PROVE TypeOK'
  <2>1. now + hours \in Nat
    BY TimeAssumption DEF Time
  <2>2. flag' \in Flag
    BY <1>6, <2>1, Rows DEF CommandGrant
  <2> QED
    BY <1>6, <2>2 DEF CommandGrant
<1>7. CASE Redeploy
  <2>1. deploys' \in 0..MaxDeploys
    BY <1>7, TimeAssumption DEF Redeploy
  <2>2. Waiting \in [pc : {"waiting"}, copy : Flag, since : Time]
    BY Rows, TimeAssumption DEF Waiting, Time
  <2>3. \A r \in Request : request'[r].pc = "waiting"
    BY <1>7 DEF Redeploy, Waiting
  <2> QED
    BY <1>7, <2>1, <2>2, <2>3 DEF Redeploy
<1>8. CASE Tick
  <2>1. now' \in Time
    BY <1>8, TimeAssumption DEF Tick, Time
  <2> QED
    BY <1>8, <2>1 DEF Tick
<1>9. CASE UNCHANGED vars
  BY <1>9 DEF vars
<1>10. ASSUME NEW r \in Request, Handle(r) PROVE TypeOK'
  <2>1. CASE Latch(r)
    BY <2>1, <1>2, <1>3 DEF Latch
  <2>2. CASE Expiry(r)
    BY <2>2, <1>2, <1>3 DEF Expiry
  <2>3. CASE Enforce(r) \/ Gate(r)
    BY <2>3, <1>3 DEF Enforce, Gate
  <2> QED
    BY <1>1, <1>4, <1>10, <2>1, <2>2, <2>3 DEF Handle
<1> QED
  BY <1>5, <1>6, <1>7, <1>8, <1>9, <1>10 DEF Next

(* A window is only ever opened by the command, and for MaxGrace at most.  *)
LEMMA NextGrace ==
  ASSUME TypeOK, GraceBounded, [Next]_vars
  PROVE  GraceBounded'
<1> USE TimeAssumption DEF TypeOK, GraceBounded, Flag, On, Time
<1>1. ASSUME NEW r \in Request, Handle(r) PROVE GraceBounded'
  BY <1>1 DEF Handle, Arrive, Latch, Expiry, Log, Enforce, Gate, Activate, Proceed
<1>2. CASE CommandStart \/ CommandLog \/ Redeploy
  BY <1>2 DEF CommandStart, CommandLog, Redeploy
<1>3. ASSUME NEW hours \in 1..MaxGrace, CommandGrant(hours) PROVE GraceBounded'
  BY <1>3 DEF CommandGrant
<1>4. CASE Tick
  BY <1>4 DEF Tick
<1>5. CASE UNCHANGED vars
  BY <1>5 DEF vars
<1> QED
  BY <1>1, <1>2, <1>3, <1>4, <1>5 DEF Next

(* What a request knows stays true while others, the command, deployments  *)
(* and the clock go on: nothing but its own steps touches its copy.        *)
LEMMA Untouched ==
  ASSUME Inv, NEW r \in Request,
         request'[r] = request[r], required' = required, now' \in Nat, now <= now'
  PROVE  RequestInv(r)'
<1>1. request[r].since \in Nat /\ now \in Nat
  BY TimeAssumption DEF Inv, TypeOK, Time
<1>2. request'[r].since <= now'
  BY <1>1 DEF Inv, RequestInv
<1> QED
  BY <1>2 DEF Inv, RequestInv, NeverOn, CameInWindow

(* A copy that says enforcement is on imposes nothing.                     *)
LEMMA Activated ==
  ASSUME Inv, NEW r \in Request, NEW next \in {"log_activated", "log_re_enabled"},
         Activate(r, next)
  PROVE  RequestInv(r)'
<1>1. request'[r] = [request[r] EXCEPT !.pc = next, !.copy = On]
  BY DEF Activate, Inv, TypeOK
<1>2. /\ request'[r].pc = next /\ request'[r].since = request[r].since
  BY <1>1 DEF Inv, TypeOK
<1> QED
  BY <1>2 DEF Inv, RequestInv, Activate

(* The middleware's own steps hand the knowledge on.                       *)
LEMMA OwnStep ==
  ASSUME Inv, NEW r \in Request, Handle(r)
  PROVE  RequestInv(r)'
<1>0. /\ request \in [Request -> [pc : {"waiting", "latch", "log_activated", "expiry",
                                    "log_re_enabled", "enforce", "gate", "served", "refused"},
                              copy : Flag, since : Time]]
      /\ now \in Time /\ flag \in Flag
  BY DEF Inv, TypeOK
<1>1. CASE Arrive(r)
  <2>1. request'[r] = [pc |-> "latch", copy |-> flag, since |-> now]
    BY <1>0, <1>1 DEF Arrive
  <2>2. request'[r].pc = "latch" /\ request'[r].since = now /\ now' = now
    BY <1>1, <2>1 DEF Arrive
  <2> QED
    BY <1>0, <2>2, TimeAssumption DEF RequestInv, Time
<1>2. ASSUME NEW next, Proceed(r, next)
      PROVE  /\ request'[r].pc = next /\ request'[r].copy = request[r].copy
             /\ request'[r].since = request[r].since
             /\ required' = required /\ now' = now
  BY <1>0, <1>2 DEF Proceed
<1>3. CASE Latch(r)
  <2>1. CASE Activate(r, "log_activated")
    BY <2>1, Activated
  <2>2. CASE /\ Proceed(r, "expiry")
             /\ ~(required /\ ~request[r].copy.active /\ ~InGrace(request[r].copy))
    <3>1. ~request[r].copy.active => NeverOn(r) \/ request[r].copy.until # NoTime
      BY <1>0, <2>2, OffOrWindow DEF InGrace, NeverOn
    <3> QED
      BY <2>2, <1>2, <3>1 DEF Inv, RequestInv, NeverOn
  <2> QED
    BY <1>3, <2>1, <2>2 DEF Latch
<1>4. CASE Expiry(r)
  <2>1. CASE Activate(r, "log_re_enabled")
    BY <2>1, Activated
  <2>2. CASE Proceed(r, "enforce") /\ ~Expired(request[r].copy)
    <3>1. ~request[r].copy.active => NeverOn(r) \/ CameInWindow(r)
      <4>1. CASE NeverOn(r)
        BY <4>1
      <4>2. CASE ~request[r].copy.active /\ request[r].copy.until # NoTime
        <5>1. /\ request[r].copy.until \in Nat /\ request[r].since \in Nat /\ now \in Nat
          BY <1>0, <4>2, TimeAssumption DEF Flag, Time
        <5>2. now < request[r].copy.until
          BY <2>2, <4>2, <5>1 DEF Expired
        <5> QED
          BY <4>2, <5>1, <5>2 DEF Inv, RequestInv, CameInWindow
      <4> QED
        BY <1>4, <4>1, <4>2 DEF Inv, RequestInv, Expiry
    <3> QED
      BY <2>2, <1>2, <3>1 DEF Inv, RequestInv, NeverOn, CameInWindow
  <2> QED
    BY <1>4, <2>1, <2>2 DEF Expiry
<1>5. CASE Log(r)
  <2>1. request[r].copy = On
    BY <1>5 DEF Log, Inv, TypeOK
  <2>2. /\ request'[r].pc \in {"expiry", "enforce"} /\ request'[r].copy = request[r].copy
        /\ request'[r].since = request[r].since /\ now' = now
    BY <1>0, <1>5 DEF Log
  <2>3. request'[r].copy.active
    BY <2>1, <2>2 DEF On
  <2> QED
    BY <2>2, <2>3 DEF Inv, RequestInv
<1>6. CASE Enforce(r)
  BY <1>6, <1>2 DEF Enforce, Inv, RequestInv, NeverOn, CameInWindow
<1>7. CASE Gate(r)
  BY <1>7, <1>2 DEF Gate, Inv, RequestInv
<1> QED
  BY <1>1, <1>3, <1>4, <1>5, <1>6, <1>7 DEF Handle

(* The invariant is inductive.                                             *)
LEMMA NextInv == Inv /\ [Next]_vars => Inv'
<1> SUFFICES ASSUME Inv, [Next]_vars PROVE Inv'
  OBVIOUS
<1>1. TypeOK' /\ GraceBounded'
  BY NextType, NextGrace DEF Inv
<1>2. now \in Nat /\ now' \in Nat
  BY <1>1, TimeAssumption DEF Inv, TypeOK, Time
<1>3. ASSUME NEW r \in Request PROVE RequestInv(r)'
  <2>1. ASSUME NEW q \in Request, Handle(q) PROVE RequestInv(r)'
    <3>1. CASE q = r
      BY <2>1, <3>1, OwnStep
    <3>2. CASE q # r
      <4>1. /\ request'[r] = request[r] /\ required' = required /\ now' = now
        BY <2>1, <3>2
           DEF Inv, TypeOK, Handle, Arrive, Latch, Expiry, Log, Enforce, Gate, Activate, Proceed
      <4> QED
        BY <4>1, <1>2, Untouched
    <3> QED
      BY <3>1, <3>2
  <2>2. CASE CommandStart \/ CommandLog \/ (\E hours \in 1..MaxGrace : CommandGrant(hours)) \/ Tick
                \/ UNCHANGED vars
    <3>1. /\ request' = request /\ required' = required
          /\ now' = now \/ now' = now + 1
      BY <2>2 DEF CommandStart, CommandLog, CommandGrant, Tick, vars
    <3> QED
      BY <3>1, <1>2, Untouched
  <2>3. CASE Redeploy
    <3>1. request'[r].pc = "waiting" /\ request'[r].since = 0
      BY <2>3 DEF Redeploy, Waiting
    <3> QED
      BY <3>1, <1>2 DEF RequestInv
  <2> QED
    BY <2>1, <2>2, <2>3 DEF Next
<1> QED
  BY <1>1, <1>3 DEF Inv

-----------------------------------------------------------------------------
(* Every variable keeps its type, for any number of requests.              *)
THEOREM TypeCorrect == Spec => []TypeOK
<1>1. Inv => TypeOK
  BY DEF Inv
<1> QED
  BY InitInv, NextInv, <1>1, PTL DEF Spec

(* A window that is open ends at most MaxGrace from now, however often the *)
(* command renews it (disable_2fa_enforcement, SystemFlag).                *)
THEOREM WindowsAreBounded == Spec => []GraceBounded
<1>1. Inv => GraceBounded
  BY DEF Inv
<1> QED
  BY InitInv, NextInv, <1>1, PTL DEF Spec

(* Enforcement is only ever switched off by the command, which gives the   *)
(* window an end (SystemFlag.grant_enforcement_grace).                     *)
THEOREM EnforcementSticks == Spec => Sticky
<1> DEFINE Step == flag.active /\ ~flag'.active => flag'.until # NoTime /\ command = "grant"
<1>1. Inv /\ [Next]_vars => [Step]_vars
  <2> SUFFICES ASSUME Inv, Next PROVE Step
    BY DEF vars
  <2>1. ASSUME NEW r \in Request, Handle(r) PROVE flag' = flag \/ flag' = On
    BY <2>1 DEF Handle, Arrive, Latch, Expiry, Log, Enforce, Gate, Activate, Proceed
  <2>2. ASSUME NEW hours \in 1..MaxGrace, CommandGrant(hours)
        PROVE  flag'.until # NoTime /\ command = "grant"
    <3>1. now + hours \in Nat
      BY TimeAssumption DEF Inv, TypeOK, Time
    <3> QED
      BY <2>2, <3>1, TimeAssumption DEF CommandGrant
  <2>3. CASE CommandStart \/ CommandLog \/ Redeploy \/ Tick
    BY <2>3 DEF CommandStart, CommandLog, Redeploy, Tick
  <2> QED
    BY <2>1, <2>2, <2>3 DEF Next, On
<1> QED
  BY InitInv, NextInv, <1>1, PTL DEF Spec, Sticky

(* No request gets a page after the window it came in, nor after           *)
(* enforcement is on or asked for, however requests, the command and       *)
(* deployments interleave (middleware and owner_only_with_2fa).            *)
THEOREM NobodySlipsThrough == Spec => ServedOnlyWhenOff
<1> DEFINE Serving(r) == request[r].pc # "served" /\ request'[r].pc = "served"
<1> DEFINE Allowed(r) ==
      LET seen == request[r].copy IN
      /\ ~flag.active
      /\ \/ seen = Off /\ ~required
         \/ seen.until # NoTime /\ ~seen.active /\ request[r].since < seen.until
<1>1. Inv /\ [Next]_vars => [\A r \in Request : Serving(r) => Allowed(r)]_vars
  <2> SUFFICES ASSUME Inv, Next, NEW r \in Request, Serving(r) PROVE Allowed(r)
    BY DEF vars
  <2>1. Gate(r)
    <3>1. \E q \in Request : Handle(q)
      BY DEF Next, CommandStart, CommandLog, CommandGrant, Redeploy, Waiting, Tick
    <3>2. PICK q \in Request : Handle(q)
      BY <3>1
    <3>3. q = r
      BY <3>2 DEF Inv, TypeOK, Handle, Arrive, Latch, Expiry, Log, Enforce, Gate, Activate, Proceed
    <3> QED
      BY <3>2, <3>3 DEF Inv, TypeOK, Handle, Arrive, Latch, Expiry, Log, Enforce, Activate, Proceed
  <2>2. ~flag.active
    BY <2>1 DEF Gate, Proceed, Inv, TypeOK
  <2> QED
    BY <2>1, <2>2 DEF Gate, Inv, RequestInv, NeverOn, CameInWindow
<1> QED
  BY InitInv, NextInv, <1>1, PTL DEF Spec, ServedOnlyWhenOff
=============================================================================
