------------------------- MODULE OwnerAccessProofs -------------------------
(***************************************************************************)
(* What OwnerAccess promises, proved for any number of runs, requests,     *)
(* sessions and devices, and any values of the two time limits.            *)
(***************************************************************************)
EXTENDS OwnerAccess, TLAPS

BootRows == [pc : {"idle", "password", "guard", "insert", "log", "done", "refused", "aborted"},
             email : Email \cup {None}]

(* An address that was given to a run is one of Email.                     *)
HasEmail == \A c \in Command : boot[c].pc # "idle" => boot[c].email \in Email

(* reset_owner_2fa: what it has found is gone as far as it got, and keys   *)
(* of devices are not used again.                                          *)
DeviceInv ==
  /\ totp \cup static \subseteq enrolled
  /\ reset.found \subseteq enrolled /\ revoked \subseteq enrolled
  /\ revoked \cap (totp \cup static) = {}
  /\ reset.pc \in {"static", "log"} => reset.found \cap totp = {}
  /\ reset.pc = "log" => reset.found \cap static = {}

(* Sessions: the clock of a session starts within Idle of its sign-in; one *)
(* whose clock has not started was saved last at the sign-in.              *)
Begun(data) == data.started \in Nat /\ data.started < data.signedIn + Idle
RowInv(row) ==
  /\ row.saved \in Nat /\ row.data.signedIn \in Nat
  /\ \/ row.data.started = None /\ row.saved = row.data.signedIn
     \/ Begun(row.data)
CopyInv(copy) ==
  /\ copy.pc \in {"loaded", "save"} => copy.data.signedIn \in Nat /\ Begun(copy.data)
  /\ copy.pc = "idle" => ~copy.verified
SessionInv ==
  /\ now \in Nat
  /\ \A k \in Key : store[k] # None => RowInv(store[k])
  /\ \A r \in Request : CopyInv(request[r])

Copies == [pc : {"idle", "loaded", "save"}, key : Key \cup {None}, late : BOOLEAN,
           verified : BOOLEAN, data : Data]
RowsOf == [data : Data, saved : Time]

-----------------------------------------------------------------------------
(* Types.                                                                  *)

(* The middleware's write of the start keeps the session's data typed, and *)
(* leaves a start in it.                                                   *)
LEMMA StartedType ==
  ASSUME NEW data \in Data, now \in Time
  PROVE  /\ Started(data) \in Data /\ Started(data).started # None
         /\ Started(data).device = data.device
         /\ Started(data).signedIn = data.signedIn
         /\ data.started = None => Started(data).started = now
         /\ data.started # None => Started(data) = data
<1>1. now # None
  BY AccessAssumption DEF Time
<1> QED
  BY <1>1 DEF Started, Data

(* Rows nobody has the key of any more are dropped, the others stay.       *)
LEMMA KnownType ==
  ASSUME NEW rows \in [Key -> RowsOf \cup {None}]
  PROVE  /\ Known(rows) \in [Key -> RowsOf \cup {None}]
         /\ \A k \in Key : Known(rows)[k] # None => Known(rows)[k] = rows[k]
BY DEF Known

(* bootstrap_owner writes addresses it was given, and nothing but the      *)
(* owner's row.                                                            *)
LEMMA AccountSteps ==
  ASSUME TypeOK, HasEmail, NEW c \in Command, Boot(c)
  PROVE  /\ owners' \in Seq(Email)
         /\ boot' \in [Command -> BootRows] /\ HasEmail'
         /\ UNCHANGED <<now, totp, static, enrolled, reset, revoked, sessionVars>>
<1> USE DEF TypeOK, HasEmail, BootRows
<1>1. ASSUME NEW pc \in {"guard", "insert", "refused", "done", "aborted"},
             boot[c].pc # "idle", BootTo(c, pc)
      PROVE  /\ owners' \in Seq(Email) /\ boot' \in [Command -> BootRows] /\ HasEmail'
             /\ UNCHANGED <<now, totp, static, enrolled, reset, revoked, sessionVars>>
  BY <1>1 DEF BootTo
<1>2. ASSUME NEW email \in Email, BootCheck(c, email)
      PROVE  /\ owners' \in Seq(Email) /\ boot' \in [Command -> BootRows] /\ HasEmail'
             /\ UNCHANGED <<now, totp, static, enrolled, reset, revoked, sessionVars>>
  BY <1>2 DEF BootCheck
<1>3. CASE /\ boot[c].pc = "insert"
            /\ owners' = Append(owners, boot[c].email)
            /\ boot' = [boot EXCEPT ![c].pc = "log"]
            /\ UNCHANGED <<now, totp, static, enrolled, reset, revoked, sessionVars>>
  <2>1. boot[c].email \in Email
    BY <1>3
  <2>2. owners' \in Seq(Email)
    BY <1>3, <2>1
  <2>3. boot' \in [Command -> BootRows] /\ HasEmail'
    BY <1>3
  <2> QED
    BY <1>3, <2>2, <2>3
<1>4. CASE BootInsert(c) /\ BootTo(c, "refused")
  BY <1>4, <1>1 DEF BootInsert
<1>5. CASE BootGuard(c)
  BY <1>5, <1>1 DEF BootGuard
<1>6. CASE BootPassword(c) \/ BootLog(c) \/ BootAbort(c)
  BY <1>6, <1>1 DEF BootPassword, BootLog, BootAbort
<1> QED
  BY <1>2, <1>3, <1>4, <1>5, <1>6 DEF Boot, BootInsert

(* What an arriving request holds.                                         *)
LEMMA Arrival ==
  ASSUME TypeOK, NEW r \in Request, Arrive(r)
  PROVE  /\ store[cookie] \in RowsOf /\ cookie \in Key /\ cookie # None
         /\ request'[r] \in Copies
         /\ request'[r].pc = "loaded" /\ request'[r].key = cookie
         /\ request'[r].data = Started(store[cookie].data)
         /\ request'[r].verified = (store[cookie].data.device \in Devices)
         /\ \A q \in Request \ {r} : request'[q] = request[q]
<1>1. cookie \in Key /\ cookie # None /\ store[cookie] \in RowsOf
  BY DEF Arrive, Alive, TypeOK, RowsOf
<1>2. now \in Time /\ store[cookie].data \in Data
  BY <1>1 DEF TypeOK, RowsOf
<1> DEFINE found == Started(store[cookie].data).device \in Devices
<1>3. request'[r] = [pc |-> "loaded", key |-> cookie, late |-> FALSE,
                     verified |-> found, data |-> Started(store[cookie].data)]
  BY DEF Arrive, TypeOK
<1>4. found = (store[cookie].data.device \in Devices)
  BY <1>2, StartedType
<1>5. found \in BOOLEAN
  OBVIOUS
<1> HIDE DEF found
<1>6. /\ request'[r] \in Copies
      /\ request'[r].pc = "loaded" /\ request'[r].key = cookie
      /\ request'[r].data = Started(store[cookie].data)
      /\ request'[r].verified = found
  BY <1>1, <1>2, <1>3, <1>5, StartedType DEF Copies
<1>7. \A q \in Request \ {r} : request'[q] = request[q]
  BY DEF Arrive, TypeOK
<1> QED
  BY <1>1, <1>4, <1>6, <1>7

(* Types, whatever the step.                                               *)
LEMMA NextType ==
  ASSUME TypeOK, HasEmail, [Next]_vars
  PROVE  TypeOK' /\ HasEmail'
<1>1. ASSUME NEW c \in Command, Boot(c) PROVE TypeOK' /\ HasEmail'
  BY <1>1, AccountSteps DEF TypeOK, BootRows, sessionVars
<1>2. CASE Tick
  <2>1. now' \in Time
    BY <1>2, AccessAssumption DEF Tick, TypeOK, Time
  <2>2. \A r \in Request : request'[r] = [request[r] EXCEPT !.late = request[r].pc # "idle"]
    BY <1>2 DEF Tick
  <2>3. ASSUME NEW r \in Request
        PROVE  /\ request'[r] \in Copies
               /\ request'[r].pc # "idle" => request'[r].key # None /\ request'[r].data.started # None
    <3>1. request[r] \in Copies
      BY DEF TypeOK, Copies
    <3>2. (request[r].pc # "idle") \in BOOLEAN
      OBVIOUS
    <3>3. PICK late \in BOOLEAN : request'[r] = [request[r] EXCEPT !.late = late]
      BY <2>2, <3>2
    <3> QED
      BY <3>1, <3>3 DEF Copies, TypeOK
  <2>4. request' \in [Request -> Copies]
    BY <1>2, <2>3 DEF Tick
  <2>5. UNCHANGED <<owners, boot, totp, static, enrolled, reset, revoked, store, cookie>>
    BY <1>2 DEF Tick, accountVars
  <2> QED
    BY <2>1, <2>3, <2>4, <2>5 DEF TypeOK, Copies, HasEmail
<1>3. CASE Reset
  BY <1>3 DEF Reset, ResetCount, ResetTotp, ResetStatic, ResetLog, ResetKilled, Accounts,
     sessionVars, TypeOK, HasEmail
<1>4. ASSUME NEW k, Flush(k) PROVE TypeOK' /\ HasEmail'
  BY <1>4 DEF Flush, accountVars, TypeOK, HasEmail
<1>5. ASSUME NEW r \in Request, Arrive(r) PROVE TypeOK' /\ HasEmail'
  <2>1. store[cookie].data \in Data /\ now \in Time
    BY <1>5, Arrival DEF RowsOf, TypeOK
  <2>2. request'[r].data.started # None
    BY <1>5, <2>1, Arrival, StartedType
  <2>3. request' \in [Request -> Copies]
    BY <1>5, Arrival DEF Arrive, TypeOK, Copies
  <2> QED
    BY <1>5, <2>2, <2>3, Arrival DEF Arrive, accountVars, TypeOK, Copies, HasEmail
<1>6. ASSUME NEW r \in Request, Page(r) PROVE TypeOK' /\ HasEmail'
  <2>1. /\ request[r].pc = "loaded" /\ Codes \ {None} \subseteq Device
    BY <1>6 DEF Page, Codes, Devices, TypeOK
  <2>2. PICK d \in Device \cup {None} :
           \/ request' = [request EXCEPT ![r].pc = "save"]
           \/ request' = [request EXCEPT ![r].pc = "save", ![r].data.device = d]
    BY <1>6, <2>1 DEF Page
  <2>3. /\ request' \in [Request -> Copies]
        /\ \A q \in Request : /\ request'[q].pc # "idle" => request[q].pc # "idle"
                              /\ request'[q].key = request[q].key
                              /\ request'[q].data.started = request[q].data.started
    <3>1. /\ request \in [Request -> Copies] /\ request[r] \in Copies /\ request[r].data \in Data
      BY DEF TypeOK, Copies
    <3>2. [request[r] EXCEPT !.pc = "save"] \in Copies
      BY <3>1 DEF Copies
    <3>3. [request[r].data EXCEPT !.device = d] \in Data
      BY <3>1 DEF Data
    <3>4. [request[r] EXCEPT !.pc = "save", !.data = [request[r].data EXCEPT !.device = d]] \in Copies
      BY <3>1, <3>3 DEF Copies
    <3>5. \/ request' = [request EXCEPT ![r] = [request[r] EXCEPT !.pc = "save"]]
          \/ request' = [request EXCEPT ![r] = [request[r] EXCEPT !.pc = "save",
                                                 !.data = [request[r].data EXCEPT !.device = d]]]
      BY <2>2, <3>1 DEF Copies
    <3>6. /\ request'[r] \in Copies /\ request'[r].key = request[r].key
          /\ request'[r].data.started = request[r].data.started
      <4>1. CASE request' = [request EXCEPT ![r] = [request[r] EXCEPT !.pc = "save"]]
        <5>1. request'[r] = [request[r] EXCEPT !.pc = "save"]
          BY <3>1, <4>1
        <5> QED
          BY <3>1, <3>2, <5>1 DEF Copies
      <4>2. CASE request' = [request EXCEPT ![r] = [request[r] EXCEPT !.pc = "save",
                                                !.data = [request[r].data EXCEPT !.device = d]]]
        <5>1. request'[r] = [request[r] EXCEPT !.pc = "save",
                                               !.data = [request[r].data EXCEPT !.device = d]]
          BY <3>1, <4>2
        <5>2. /\ request'[r].key = request[r].key
              /\ request'[r].data = [request[r].data EXCEPT !.device = d]
          BY <3>1, <5>1 DEF Copies
        <5>3. request'[r].data.started = request[r].data.started
          BY <3>1, <5>2 DEF Data
        <5> QED
          BY <3>4, <5>1, <5>2, <5>3
      <4> QED
        BY <3>5, <4>1, <4>2
    <3>7. /\ request' \in [Request -> Copies]
          /\ \A q \in Request \ {r} : request'[q] = request[q]
      BY <3>1, <3>2, <3>4, <3>5
    <3> QED
      BY <2>1, <3>6, <3>7
  <2>4. /\ totp' \cup static' \subseteq enrolled' /\ enrolled' \subseteq Device
        /\ totp' \cap static' = {}
    <3>1. CASE UNCHANGED <<totp, static, enrolled>>
      BY <3>1 DEF TypeOK
    <3>2. ASSUME NEW new \in Device \ enrolled, enrolled' = enrolled \cup {new},
                 \/ totp = {} /\ totp' = {new} /\ static' = static
                 \/ static = {} /\ static' = {new} /\ totp' = totp
          PROVE  /\ totp' \cup static' \subseteq enrolled' /\ enrolled' \subseteq Device
                 /\ totp' \cap static' = {}
      BY <3>2 DEF TypeOK
    <3> QED
      BY <1>6, <3>1, <3>2 DEF Page, accountVars
  <2>5. UNCHANGED <<now, owners, boot, reset, revoked, store, cookie>>
    BY <1>6 DEF Page, accountVars
  <2> QED
    BY <2>3, <2>4, <2>5 DEF TypeOK, Copies, HasEmail
<1>7. ASSUME NEW r \in Request, Save(r) PROVE TypeOK' /\ HasEmail'
  <2>1. /\ request[r].key \in Key /\ request[r].data \in Data /\ now \in Time
        /\ store \in [Key -> RowsOf \cup {None}]
    BY <1>7 DEF Save, TypeOK, RowsOf
  <2>2. [store EXCEPT ![request[r].key] = Row(request[r].data)] \in [Key -> RowsOf \cup {None}]
    BY <2>1 DEF Row, RowsOf
  <2>3. store' \in [Key -> RowsOf \cup {None}] /\ cookie' \in Key \cup {None}
    <3>1. CASE /\ cookie' = request[r].key
               /\ store' = Known([store EXCEPT ![request[r].key] = Row(request[r].data)])
      BY <2>1, <2>2, <3>1, KnownType
    <3>2. CASE cookie' = cookie /\ store' = Known(store)
      BY <2>1, <3>2, KnownType DEF TypeOK
    <3> QED
      BY <1>7, <3>1, <3>2 DEF Save
  <2>4. Waiting \in Copies /\ Waiting.pc = "idle"
    <3>1. [started |-> None, device |-> None, signedIn |-> 0] \in Data
      BY AccessAssumption DEF Data, Time
    <3> QED
      BY <3>1 DEF Waiting, Copies
  <2>5. /\ request' \in [Request -> Copies]
        /\ \A q \in Request : request'[q].pc # "idle" => request'[q] = request[q]
    BY <1>7, <2>4 DEF Save, TypeOK, Copies
  <2> QED
    BY <1>7, <2>3, <2>5 DEF Save, accountVars, TypeOK, Copies, RowsOf, HasEmail
<1>8. CASE SignIn
  <2>1. PICK k \in Key, d \in Codes :
          /\ cookie' = k
          /\ store' = Known([store EXCEPT ![k] =
                              Row([started |-> None, device |-> d, signedIn |-> now])])
    BY <1>8 DEF SignIn
  <2>2. d \in Device \cup {None} /\ now \in Time /\ store \in [Key -> RowsOf \cup {None}]
    BY DEF Codes, Devices, TypeOK, RowsOf
  <2>3. Row([started |-> None, device |-> d, signedIn |-> now]) \in RowsOf
    BY <2>2 DEF Row, RowsOf, Data
  <2>4. store' \in [Key -> RowsOf \cup {None}] /\ cookie' \in Key
    BY <2>1, <2>2, <2>3, KnownType
  <2> QED
    BY <1>8, <2>4 DEF SignIn, accountVars, TypeOK, RowsOf, HasEmail
<1>9. CASE UNCHANGED vars
  BY <1>9 DEF vars, TypeOK, HasEmail
<1> QED
  BY <1>1, <1>2, <1>3, <1>4, <1>5, <1>6, <1>7, <1>8, <1>9
     DEF Next, Sessions, TimeOut, SignOut

-----------------------------------------------------------------------------
(* Second factors.                                                         *)

(* What a reset has found stays gone: devices that are enrolled while it   *)
(* runs, or after, are new ones.                                           *)
LEMMA NextDevices ==
  ASSUME TypeOK, HasEmail, DeviceInv, [Next]_vars
  PROVE  DeviceInv'
<1> USE DEF DeviceInv
<1>1. CASE UNCHANGED <<totp, static, enrolled, reset, revoked>>
  BY <1>1
<1>2. ASSUME NEW c \in Command, Boot(c) PROVE DeviceInv'
  BY <1>1, <1>2, AccountSteps
<1>3. CASE ResetCount \/ ResetKilled
  BY <1>3 DEF ResetCount, ResetKilled, Accounts
<1>4. CASE ResetTotp
  <2>1. reset.pc = "totp" /\ totp' = {} /\ reset'.pc = "static" /\ reset'.found = reset.found
    BY <1>4 DEF ResetTotp, TypeOK
  <2> QED
    BY <1>4, <2>1 DEF ResetTotp, Accounts
<1>5. CASE ResetStatic
  <2>1. reset.pc = "static" /\ static' = {} /\ reset'.pc = "log" /\ reset'.found = reset.found
    BY <1>5 DEF ResetStatic, TypeOK
  <2> QED
    BY <1>5, <2>1 DEF ResetStatic, Accounts
<1>6. CASE ResetLog
  <2>1. reset.pc = "log" /\ reset'.pc = "idle" /\ reset'.found = {}
    BY <1>6 DEF ResetLog
  <2> QED
    BY <1>6, <2>1 DEF ResetLog, Accounts
<1>7. ASSUME NEW r \in Request, Page(r) PROVE DeviceInv'
  <2>1. ASSUME NEW new \in Device \ enrolled, enrolled' = enrolled \cup {new},
               UNCHANGED <<reset, revoked>>,
               \/ totp' = {new} /\ static' = static /\ totp = {}
               \/ static' = {new} /\ totp' = totp /\ static = {}
        PROVE  DeviceInv'
    BY <2>1
  <2> QED
    BY <1>1, <1>7, <2>1 DEF Page, accountVars
<1>8. CASE Tick \/ (\E r \in Request : Arrive(r) \/ Save(r)) \/ TimeOut \/ SignOut \/ SignIn
  BY <1>1, <1>8 DEF Tick, Arrive, Save, TimeOut, SignOut, SignIn, Flush, accountVars
<1> QED
  BY <1>1, <1>2, <1>3, <1>4, <1>5, <1>6, <1>7, <1>8 DEF Next, Reset, Sessions, vars

-----------------------------------------------------------------------------
(* Sessions.                                                               *)

(* What a step can do to one request.                                      *)
LEMMA RequestSteps ==
  ASSUME TypeOK, HasEmail, Next, NEW r \in Request
  PROVE  \/ Arrive(r)
         \/ /\ request'[r].pc = request[r].pc \/ (request[r].pc = "loaded" /\ request'[r].pc = "save")
            /\ request'[r].verified = request[r].verified
            /\ request'[r].data.started = request[r].data.started
            /\ request'[r].data.signedIn = request[r].data.signedIn
         \/ request[r].pc = "save" /\ request'[r] = Waiting
<1> DEFINE Goal == \/ Arrive(r)
                   \/ /\ request'[r].pc = request[r].pc \/ (request[r].pc = "loaded" /\ request'[r].pc = "save")
                      /\ request'[r].verified = request[r].verified
                      /\ request'[r].data.started = request[r].data.started
                      /\ request'[r].data.signedIn = request[r].data.signedIn
                   \/ request[r].pc = "save" /\ request'[r] = Waiting
<1>0. request \in [Request -> Copies] /\ request[r] \in Copies /\ request[r].data \in Data
  BY DEF TypeOK, Copies
<1>1. CASE request'[r] = request[r]
  BY <1>1
<1>2. CASE Tick
  <2>1. PICK late : request'[r] = [request[r] EXCEPT !.late = late]
    BY <1>2 DEF Tick
  <2> QED
    BY <1>0, <2>1 DEF Copies
<1>3. ASSUME NEW q \in Request, q # r, Arrive(q) \/ Page(q) \/ Save(q)
      PROVE  Goal
  BY <1>0, <1>1, <1>3 DEF Arrive, Page, Save
<1>4. CASE Page(r)
  <2>1. PICK d :
           \/ request' = [request EXCEPT ![r].pc = "save"]
           \/ request' = [request EXCEPT ![r].pc = "save", ![r].data.device = d]
    BY <1>4 DEF Page
  <2>2. request'[r].pc = "save" /\ request'[r].verified = request[r].verified
    BY <1>0, <2>1 DEF Copies
  <2>3. /\ request'[r].data.started = request[r].data.started
        /\ request'[r].data.signedIn = request[r].data.signedIn
    <3>1. CASE request' = [request EXCEPT ![r].pc = "save"]
      BY <1>0, <3>1 DEF Copies
    <3>2. CASE request' = [request EXCEPT ![r].pc = "save", ![r].data.device = d]
      <4>1. request'[r].data = [request[r].data EXCEPT !.device = d]
        BY <1>0, <3>2 DEF Copies
      <4> QED
        BY <1>0, <4>1 DEF Data
    <3> QED
      BY <2>1, <3>1, <3>2
  <2> QED
    BY <1>4, <2>2, <2>3 DEF Page
<1>5. CASE Save(r)
  BY <1>0, <1>5 DEF Save
<1>6. ASSUME NEW c \in Command, Boot(c) PROVE Goal
  BY <1>1, <1>6, AccountSteps DEF sessionVars
<1>7. CASE Reset \/ TimeOut \/ SignOut \/ SignIn
  BY <1>1, <1>7 DEF Reset, ResetCount, ResetTotp, ResetStatic, ResetLog, ResetKilled, sessionVars,
     TimeOut, SignOut, SignIn, Flush
<1> QED
  BY <1>2, <1>3, <1>4, <1>5, <1>6, <1>7 DEF Next, Sessions

(* What a step can do to one row of django_session.                        *)
LEMMA RowSteps ==
  ASSUME TypeOK, HasEmail, Next, NEW k \in Key, store'[k] # None
  PROVE  \/ store'[k] = store[k]
         \/ \E r \in Request : request[r].pc = "save" /\ store'[k] = Row(request[r].data)
         \/ \E d : store'[k] = Row([started |-> None, device |-> d, signedIn |-> now])
<1>0. store \in [Key -> RowsOf \cup {None}] /\ now \in Time
  BY DEF TypeOK, RowsOf
<1>1. CASE store' = store
  BY <1>1
<1>2. ASSUME NEW r \in Request, Save(r)
      PROVE  store'[k] = store[k] \/ store'[k] = Row(request[r].data)
  <2>1. Row(request[r].data) \in RowsOf /\ request[r].key \in Key
    BY <1>0, <1>2 DEF Save, TypeOK, Row, RowsOf
  <2>2. CASE store' = Known(store)
    BY <1>0, <2>2, KnownType
  <2>3. CASE store' = Known([store EXCEPT ![request[r].key] = Row(request[r].data)])
    <3>1. [store EXCEPT ![request[r].key] = Row(request[r].data)] \in [Key -> RowsOf \cup {None}]
      BY <1>0, <2>1
    <3>2. store'[k] = [store EXCEPT ![request[r].key] = Row(request[r].data)][k]
      BY <2>3, <3>1, KnownType
    <3> QED
      BY <1>0, <2>1, <3>2
  <2> QED
    BY <1>2, <2>2, <2>3 DEF Save
<1>3. CASE SignIn
  <2>1. PICK j \in Key, d \in Codes :
          store' = Known([store EXCEPT ![j] =
                            Row([started |-> None, device |-> d, signedIn |-> now])])
    BY <1>3 DEF SignIn
  <2>2. Row([started |-> None, device |-> d, signedIn |-> now]) \in RowsOf
    <3>1. d \in Device \cup {None}
      BY DEF Codes, Devices, TypeOK
    <3> QED
      BY <1>0, <3>1 DEF Row, RowsOf, Data
  <2>3. [store EXCEPT ![j] = Row([started |-> None, device |-> d, signedIn |-> now])]
          \in [Key -> RowsOf \cup {None}]
    BY <1>0, <2>2
  <2>4. store'[k] = [store EXCEPT ![j] = Row([started |-> None, device |-> d, signedIn |-> now])][k]
    BY <2>1, <2>3, KnownType
  <2> QED
    BY <1>0, <2>4
<1>4. ASSUME NEW j, Flush(j) PROVE store'[k] = store[k]
  BY <1>0, <1>4 DEF Flush
<1>5. ASSUME NEW c \in Command, Boot(c) PROVE store' = store
  BY <1>5, AccountSteps DEF sessionVars
<1>6. CASE Reset \/ Tick \/ (\E r \in Request : Arrive(r) \/ Page(r))
  BY <1>1, <1>6 DEF Reset, ResetCount, ResetTotp, ResetStatic, ResetLog, ResetKilled, sessionVars,
     Tick, Arrive, Page
<1>7. ASSUME NEW r \in Request, Save(r)
      PROVE  \/ store'[k] = store[k]
             \/ \E q \in Request : request[q].pc = "save" /\ store'[k] = Row(request[q].data)
  BY <1>2, <1>7 DEF Save
<1> QED
  BY <1>1, <1>3, <1>4, <1>5, <1>6, <1>7 DEF Next, Sessions, TimeOut, SignOut

(* A request that comes in has a clock that started within Idle of the     *)
(* sign-in, and is less than Cap after that start.                         *)
LEMMA ArrivalClock ==
  ASSUME TypeOK, SessionInv, NEW r \in Request, Arrive(r)
  PROVE  /\ request'[r].data.signedIn \in Nat /\ Begun(request'[r].data)
         /\ now < request'[r].data.signedIn + Idle + Cap
<1> DEFINE row == store[cookie]
           data == Started(row.data)
<1>1. /\ row \in RowsOf /\ RowInv(row) /\ row.data \in Data /\ now \in Time /\ now \in Nat
      /\ now < row.saved + Idle /\ ~TimedOut(row.data)
  BY Arrival DEF Arrive, Alive, RowsOf, SessionInv, TypeOK
<1>2. request'[r].data = data /\ data.signedIn = row.data.signedIn /\ row.data.signedIn \in Nat
  BY <1>1, Arrival, StartedType DEF RowInv
<1>3. CASE row.data.started = None
  <2>1. data.started = now /\ row.saved = row.data.signedIn
    BY <1>1, <1>3, StartedType, AccessAssumption DEF RowInv, Begun
  <2> QED
    BY <1>1, <1>2, <2>1, AccessAssumption DEF Begun
<1>4. CASE row.data.started # None
  <2>1. data.started = row.data.started /\ Begun(row.data) /\ now - row.data.started < Cap
    BY <1>1, <1>4, StartedType, AccessAssumption DEF RowInv, TimedOut, Begun
  <2> QED
    BY <1>1, <1>2, <2>1, AccessAssumption DEF Begun
<1> QED
  BY <1>3, <1>4

(* Rows and copies keep their clocks, whoever writes last.                 *)
LEMMA NextSessions ==
  ASSUME TypeOK, HasEmail, SessionInv, [Next]_vars
  PROVE  SessionInv'
<1>1. CASE UNCHANGED vars
  BY <1>1 DEF vars, SessionInv, RowInv, CopyInv, Begun
<1>2. CASE Next
  <2>1. now' \in Nat
    BY NextType, AccessAssumption DEF TypeOK, Time
  <2>2. ASSUME NEW k \in Key, store'[k] # None PROVE RowInv(store'[k])
    <3>1. CASE store'[k] = store[k]
      BY <2>2, <3>1 DEF SessionInv
    <3>2. ASSUME NEW r \in Request, request[r].pc = "save", store'[k] = Row(request[r].data)
          PROVE  RowInv(store'[k])
      BY <3>2 DEF SessionInv, CopyInv, RowInv, Row
    <3>3. ASSUME NEW d, store'[k] = Row([started |-> None, device |-> d, signedIn |-> now])
          PROVE  RowInv(store'[k])
      BY <3>3 DEF SessionInv, RowInv, Row
    <3> QED
      BY <1>2, <2>2, <3>1, <3>2, <3>3, RowSteps
  <2>3. ASSUME NEW r \in Request PROVE CopyInv(request'[r])
    <3>1. CASE Arrive(r)
      BY <3>1, Arrival, ArrivalClock DEF CopyInv
    <3>2. CASE request'[r] = Waiting
      BY <3>2 DEF CopyInv, Waiting
    <3>3. CASE /\ request'[r].pc = request[r].pc
                  \/ (request[r].pc = "loaded" /\ request'[r].pc = "save")
               /\ request'[r].verified = request[r].verified
               /\ request'[r].data.started = request[r].data.started
               /\ request'[r].data.signedIn = request[r].data.signedIn
      BY <3>3 DEF SessionInv, CopyInv, Begun
    <3> QED
      BY <1>2, <3>1, <3>2, <3>3, RequestSteps
  <2>4. /\ \A k \in Key : store'[k] # None => RowInv(store'[k])
        /\ \A r \in Request : CopyInv(request'[r])
    BY <2>2, <2>3
  <2> QED
    BY <2>1, <2>4 DEF SessionInv, RowInv, CopyInv, Begun
<1> QED
  BY <1>1, <1>2

-----------------------------------------------------------------------------
(* All of it, under Spec: concurrent runs of bootstrap_owner do not matter *)
(* to the sessions.                                                        *)
AccessInv == TypeOK /\ HasEmail /\ DeviceInv /\ SessionInv

(* The invariant holds at the start.                                       *)
LEMMA InitAccess ==
  ASSUME Init
  PROVE  AccessInv
<1>1. [started |-> None, device |-> None, signedIn |-> 0] \in Data /\ 0 \in Time
  BY AccessAssumption DEF Data, Time
<1>2. TypeOK /\ HasEmail
  BY <1>1 DEF Init, TypeOK, HasEmail, Waiting
<1>3. DeviceInv /\ SessionInv
  BY DEF Init, DeviceInv, SessionInv, CopyInv, Waiting
<1> QED
  BY <1>2, <1>3 DEF AccessInv

(* Every step keeps it.                                                    *)
LEMMA NextAccess ==
  ASSUME AccessInv, [Next]_vars
  PROVE  AccessInv'
<1>1. TypeOK' /\ HasEmail'
  BY NextType DEF AccessInv
<1>2. DeviceInv' /\ SessionInv'
  BY NextDevices, NextSessions DEF AccessInv
<1> QED
  BY <1>1, <1>2 DEF AccessInv

(* Every value the commands, the middleware and the pages write is of its  *)
(* type, and a request that is being handled has a session with a clock.   *)
THEOREM AccessTypes == Spec => []TypeOK
<1>1. AccessInv => TypeOK
  BY DEF AccessInv
<1> QED
  BY <1>1, InitAccess, NextAccess, PTL DEF Spec

(* SessionAbsoluteTimeoutMiddleware: no page later than Cap hours after    *)
(* the session's first request, which comes within Idle of the sign-in,    *)
(* however many requests overwrite each other's copies.                    *)
THEOREM CapIsKept == Spec => CapHolds
<1>1. ASSUME AccessInv, [Next]_vars
      PROVE  [\A r \in Request : request[r].pc = "idle" /\ request'[r].pc # "idle"
                => now < request'[r].data.signedIn + Idle + Cap]_vars
  <2>1. CASE UNCHANGED vars
    BY <2>1
  <2>2. ASSUME NEW r \in Request, Next, request[r].pc = "idle", request'[r].pc # "idle"
        PROVE  now < request'[r].data.signedIn + Idle + Cap
    <3>1. Arrive(r)
      BY <1>1, <2>2, RequestSteps DEF AccessInv
    <3> QED
      BY <1>1, <3>1, ArrivalClock DEF AccessInv
  <2> QED
    BY <1>1, <2>1, <2>2
<1> QED
  BY <1>1, InitAccess, NextAccess, PTL DEF Spec, CapHolds

(* reset_owner_2fa: once a reset has completed, no request is verified by  *)
(* a device it found, whatever copy of a session still names it.           *)
THEOREM ResetCutsOff == Spec => CutOff
<1>1. ASSUME AccessInv, [Next]_vars
      PROVE  [\A r \in Request : request[r].pc = "idle" /\ request'[r].verified
                => request'[r].data.device \notin revoked]_vars
  <2>1. CASE UNCHANGED vars
    BY <2>1
  <2>2. ASSUME NEW r \in Request, Next, request[r].pc = "idle", request'[r].verified
        PROVE  request'[r].data.device \notin revoked
    <3>1. ~request[r].verified
      BY <1>1, <2>2 DEF AccessInv, SessionInv, CopyInv
    <3>2. Arrive(r)
      BY <1>1, <2>2, <3>1, RequestSteps DEF AccessInv
    <3>3. store[cookie].data \in Data /\ now \in Time
      BY <1>1, <3>2, Arrival DEF AccessInv, RowsOf, TypeOK
    <3>4. request'[r].data.device \in Devices
      BY <1>1, <2>2, <3>2, <3>3, Arrival, StartedType DEF AccessInv
    <3> QED
      BY <1>1, <3>4 DEF AccessInv, DeviceInv, Devices
  <2> QED
    BY <1>1, <2>1, <2>2
<1> QED
  BY <1>1, InitAccess, NextAccess, PTL DEF Spec, CutOff
=============================================================================
