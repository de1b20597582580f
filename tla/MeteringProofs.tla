--------------------------- MODULE MeteringProofs ---------------------------
(***************************************************************************)
(* Proofs of the safety properties of PhoneNumbers and Metering, for all   *)
(* workspaces, numbers, calls, requests, handlers and connections.         *)
(*                                                                         *)
(* Neither StoredIsOurs nor DurationIsCharged is inductive: a row is right *)
(* when it is written because of what the request or the handler that      *)
(* writes it has seen, and others act between the two.                     *)
(***************************************************************************)
EXTENDS Metering, TLAPS

Busy(r) == pc[r] # "idle"

\* What a provision request knows of its number at each of its steps.
RequestInv(r) ==
    /\ Busy(r) => req[r] \in Request
    /\ pc[r] \in {"create", "usage"} => account[Num(r)] = "ours"
    /\ pc[r] = "usage" =>
           Stored(Num(r)) /\ phone[Num(r)].owner = req[r].ws

NInv ==
    /\ NumbersTypeOK
    /\ \A r \in Requests : RequestInv(r)
    /\ StoredIsOurs
    /\ CampaignOfOwner

\* A call is on a stored number of its workspace, and its duration is never
\* more than its age.
CallInv(c) ==
    Known(c) =>
        /\ Stored(call[c].number)
        /\ phone[call[c].number].owner = call[c].workspace
        /\ call[c].duration <= age[c]
        /\ call[c].duration # -1 => call[c].state \in EndStates

Holds(h) == step[h] \in {"usage", "commit"}

\* Minutes were charged for c.
Charge(u, c) == u.type = "CALL_MINUTE" /\ u.source = c
Charged(c) == \E u \in usage : Charge(u, c)

\* What a handler's transaction has read is still so while it holds the lock.
HandlerInv(h) ==
    LET c == of[h] IN
    /\ step[h] # "idle" => c \in Calls /\ Known(c)
    /\ step[h] = "recording" => c \in recording
    /\ Holds(h) =>
           /\ draft[h] \in Draft
           /\ draft[h].state = FinalState(c)
           /\ draft[h].duration \in 0..age[c]
           /\ call[c].duration # -1 => draft[h].duration = call[c].duration
           /\ \A u \in usage :
                 Charge(u, c) => u.quantity <= Minutes(draft[h].duration)
    /\ step[h] = "usage" => draft[h].duration > 0
    /\ step[h] = "commit" /\ draft[h].duration > 0 => Charged(c)

\* FOR UPDATE.
OneHolder ==
    \A g, h \in Handlers : Holds(g) /\ Holds(h) /\ of[g] = of[h] => g = h

\* A late callback computed no more than the row says, or may come to say.
LateInv(g) ==
    LET c == of[g] IN
    step[g] = "late" =>
        /\ draft[g] \in Draft
        /\ draft[g].duration \in 0..age[c]
        /\ call[c].duration # -1 => draft[g].duration <= call[c].duration
        /\ \A h \in Handlers :
              Holds(h) /\ of[h] = c => draft[g].duration <= draft[h].duration

\* A record is of a number that is stored or of a call there is.
Sourced(u) ==
    /\ Traceable(u)
    /\ u.type = "PHONE_NUMBER" => Stored(u.source)
    /\ u.type # "PHONE_NUMBER" => Known(u.source)

\* A charge is of a call there is, for no more than it lasted so far, and for
\* what its row says or is about to say unless a hangup was rolled back.
ChargeInv(u) ==
    u.type = "CALL_MINUTE" =>
        LET c == u.source IN
        /\ c \in Calls /\ Known(c)
        /\ u.quantity <= Minutes(age[c])
        /\ call[c].duration # -1 => u.quantity <= Minutes(call[c].duration)
        /\ \/ c \in rolledBack
           \/ call[c].duration # -1 /\ u.quantity = Minutes(call[c].duration)
           \/ \E h \in Handlers :
                 /\ step[h] = "commit" /\ of[h] = c
                 /\ u.quantity = Minutes(draft[h].duration)

EventInv(e) ==
    /\ Known(e.call)
    /\ \/ e.call \in rolledBack
       \/ /\ call[e.call].duration # -1
          /\ e.state = call[e.call].state /\ e.duration = call[e.call].duration

IInv ==
    /\ TypeOK
    /\ NInv
    /\ \A u \in usage : Sourced(u)
    /\ \A c \in Calls : CallInv(c)
    /\ \A h \in Handlers : HandlerInv(h)
    /\ OneHolder
    /\ \A h \in Handlers : LateInv(h)
    /\ \A u \in usage : ChargeInv(u)
    /\ \A c \in Calls : call[c].duration > 0 => Charged(c)
    /\ \A e \in events : EventInv(e)

-----------------------------------------------------------------------------
(* Minutes.                                                                *)

LEMMA MinutesNat == \A s \in Nat : Minutes(s) \in Nat
BY MeteringAssumption DEF Minutes

\* A longer call is charged no less.
LEMMA MinutesGrow == \A s, t \in Nat : s <= t => Minutes(s) <= Minutes(t)
<1> SUFFICES ASSUME NEW s \in Nat, NEW t \in Nat, s <= t
             PROVE  Minutes(s) <= Minutes(t)
  OBVIOUS
<1> DEFINE a == s + Minute - 1
           b == t + Minute - 1
<1>1. a \in Nat /\ b \in Nat /\ a <= b /\ Minute \in Nat \ {0}
  BY MeteringAssumption
<1> HIDE DEF a, b
<1>2. a \div Minute <= b \div Minute
  BY <1>1, Z3
<1> QED
  BY <1>2 DEF Minutes, a, b
-----------------------------------------------------------------------------
(* Tracking numbers.                                                       *)

\* No step takes a number from its workspace or from our account, and what
\* is charged for a number is charged to its workspace.
NumbersKept ==
    /\ \A n \in Numbers :
          Stored(n) => Stored(n)' /\ phone'[n].owner = phone[n].owner
                       /\ (phone[n].status = "RELEASED" =>
                               phone'[n].status = "RELEASED")
    /\ usage \subseteq usage'
    /\ \A u \in usage' \ usage :
          \E n \in Numbers :
             /\ u = Usage("PHONE_NUMBER", n, phone'[n].owner, 1)
             /\ Stored(n)'

LEMMA PhoneIs ==
    /\ \A p \in Phone : p.status # "absent"
    /\ NoPhone.status = "absent" /\ NoPhone.campaign = NULL
BY DEF Phone, NoPhone, PhoneNumberStatus

LEMMA RecordUsage ==
    ASSUME NEW u, recordUsage(u)
    PROVE  usage \subseteq usage' /\ usage' \subseteq usage \cup {u}
           /\ \E v \in usage' : SameKey(u, v)
<1>1. SameKey(u, u)
  BY DEF SameKey
<1> QED
  BY <1>1 DEF recordUsage

\* A request that only moves on, or ends, leaves every number alone.
LEMMA QuietStep ==
    ASSUME NInv, NEW r \in Requests, UNCHANGED <<phone, account, usage>>,
           NEW q \in Request \cup {NoRequest}, NEW st \in ProvisionSteps,
           NEW p \in 0..MaxPolls,
           pc' = [pc EXCEPT ![r] = st], req' = [req EXCEPT ![r] = q],
           polls' = [polls EXCEPT ![r] = p],
           st # "idle" => q \in Request,
           st = "create" => account[q.num] = "ours",
           st # "usage"
    PROVE  NInv' /\ NumbersKept
<1>1. NumbersTypeOK'
  BY DEF NInv, NumbersTypeOK
<1>2. \A s \in Requests : RequestInv(s)'
  BY DEF NInv, NumbersTypeOK, RequestInv, Busy, Num, Stored
<1> QED
  BY <1>1, <1>2 DEF NInv, StoredIsOurs, CampaignOfOwner, NumbersKept, Stored

LEMMA EndIsQuiet ==
    ASSUME NInv, NEW r \in Requests, End(r)
    PROVE  /\ "idle" \in ProvisionSteps /\ 0 \in 0..MaxPolls
           /\ pc' = [pc EXCEPT ![r] = "idle"]
           /\ req' = [req EXCEPT ![r] = NoRequest]
           /\ polls' = [polls EXCEPT ![r] = 0]
BY NumbersAssumption DEF End, GoTo, ProvisionSteps

LEMMA FindStep ==
    ASSUME NInv, NEW r \in Requests, NEW w \in Workspaces, NEW n \in Numbers,
           find(r, w, n)
    PROVE  NInv' /\ NumbersKept
<1>1. [ws |-> w, num |-> n] \in Request
  BY DEF Request
<1>2. polls' = [polls EXCEPT ![r] = polls[r]] /\ polls[r] \in 0..MaxPolls
  BY DEF find, NInv, NumbersTypeOK
<1>3. "order" \in ProvisionSteps
  BY DEF ProvisionSteps
<1> QED
  BY <1>1, <1>2, <1>3, QuietStep DEF find, GoTo

\* What the provider holds only grows towards ours or astray.
LEMMA AccountStep ==
    ASSUME NInv, NEW n \in Numbers, UNCHANGED <<phone, usage>>,
           account' \in [Numbers -> Account],
           \A m \in Numbers : account[m] = "ours" => account'[m] = "ours",
           \/ UNCHANGED <<pc, req, polls>>
           \/ \E r \in Requests :
                 \/ End(r)
                 \/ GoTo(r, "poll") /\ UNCHANGED <<req, polls>> /\ Busy(r)
    PROVE  NInv' /\ NumbersKept
<1>1. NumbersTypeOK'
  BY NumbersAssumption
     DEF NInv, NumbersTypeOK, End, GoTo, ProvisionSteps, Request, NoRequest
<1>2. \A r \in Requests :
         \/ pc'[r] = pc[r] /\ req'[r] = req[r]
         \/ pc'[r] = "idle"
         \/ pc'[r] = "poll" /\ req'[r] = req[r] /\ Busy(r)
  BY DEF End, GoTo, NInv, NumbersTypeOK
<1>3. \A r \in Requests : RequestInv(r)'
  BY <1>2 DEF NInv, NumbersTypeOK, RequestInv, Busy, Num, Stored, Request
<1> QED
  BY <1>1, <1>3 DEF NInv, StoredIsOurs, CampaignOfOwner, NumbersKept, Stored

LEMMA BoughtIs ==
    ASSUME NInv, NEW n \in Numbers
    PROVE  /\ Bought(n) \in [Numbers -> Account]
           /\ \A m \in Numbers : account[m] = "ours" => Bought(n)[m] = "ours"
BY DEF Bought, NInv, NumbersTypeOK, Account

LEMMA OrderStep ==
    ASSUME NInv, NEW r \in Requests, numberOrder(r) \/ numberOrderThrows(r)
    PROVE  NInv' /\ NumbersKept
<1>1. Num(r) \in Numbers /\ Busy(r)
  BY DEF NInv, RequestInv, Num, Busy, Request, numberOrder, numberOrderThrows
<1>2. account \in [Numbers -> Account]
  BY DEF NInv, NumbersTypeOK
<1>3. account' = account \/ account' = Bought(Num(r))
  BY DEF numberOrder, numberOrderThrows
<1>4. /\ account' \in [Numbers -> Account]
      /\ \A m \in Numbers : account[m] = "ours" => account'[m] = "ours"
  BY <1>1, <1>2, <1>3, BoughtIs
<1> QED
  BY <1>1, <1>4, AccountStep DEF numberOrder, numberOrderThrows

LEMMA DeliveredStep ==
    ASSUME NInv, NEW n \in Numbers, Delivered(n)
    PROVE  NInv' /\ NumbersKept
<1>1. /\ account' \in [Numbers -> Account]
      /\ \A m \in Numbers : account[m] = "ours" => account'[m] = "ours"
  BY DEF Delivered, NInv, NumbersTypeOK, Account
<1> QED
  BY <1>1, AccountStep DEF Delivered

LEMMA PollStep ==
    ASSUME NInv, NEW r \in Requests,
           pollFound(r) \/ pollAgain(r) \/ pollThrows(r) \/ createThrows(r)
               \/ recordNumberThrows(r)
    PROVE  NInv' /\ NumbersKept
<1> USE DEF ProvisionSteps
<1>1. req[r] \in Request /\ polls[r] \in 0..MaxPolls
      /\ pc = [pc EXCEPT ![r] = pc[r]] /\ req = [req EXCEPT ![r] = req[r]]
      /\ polls = [polls EXCEPT ![r] = polls[r]]
  BY DEF NInv, NumbersTypeOK, RequestInv, Busy, pollFound, pollAgain,
         pollThrows, createThrows, recordNumberThrows
<1>2. CASE pollFound(r)
  BY <1>1, <1>2, QuietStep DEF pollFound, GoTo, Num
<1>3. CASE pollAgain(r)
  <2>1. polls[r] + 1 \in 0..MaxPolls
    BY <1>1, <1>3, NumbersAssumption DEF pollAgain
  <2>2. polls' = [polls EXCEPT ![r] = polls[r] + 1]
    BY <1>3 DEF pollAgain
  <2>3. pc[r] \in ProvisionSteps /\ pc[r] = "poll"
        /\ UNCHANGED <<phone, account, pc, req, usage>>
    BY <1>3 DEF pollAgain
  <2>4. pc' = [pc EXCEPT ![r] = pc[r]] /\ req' = [req EXCEPT ![r] = req[r]]
    BY <1>1, <2>3
  <2> HIDE DEF ProvisionSteps
  <2> QED
    BY <1>1, <2>1, <2>2, <2>3, <2>4, QuietStep
<1>4. CASE End(r) /\ UNCHANGED <<phone, account, usage>>
  BY <1>4, EndIsQuiet, QuietStep
<1> QED
  BY <1>2, <1>3, <1>4 DEF pollThrows, createThrows, recordNumberThrows

LEMMA CreateStep ==
    ASSUME NInv, NEW r \in Requests, create(r)
    PROVE  NInv' /\ NumbersKept
<1> DEFINE n == Num(r)
           row == [status |-> "ACTIVE", owner |-> req[r].ws, campaign |-> NULL]
<1>1. /\ req[r] \in Request /\ n \in Numbers /\ ~Stored(n)
      /\ account[n] = "ours"
  BY DEF create, NInv, RequestInv, Busy, Num, Request
<1>2. row \in Phone
  BY <1>1 DEF Phone, PhoneNumberStatus, Request
<1>3. row.owner = req[r].ws /\ row.campaign = NULL /\ row.status # "absent"
  OBVIOUS
<1> HIDE DEF row
<1>4. /\ phone' = [phone EXCEPT ![n] = row]
      /\ pc' = [pc EXCEPT ![r] = "usage"]
      /\ UNCHANGED <<account, req, polls, usage>>
  BY DEF create, GoTo, row
<1>5. NumbersTypeOK'
  BY <1>2, <1>4 DEF NInv, NumbersTypeOK, ProvisionSteps
<1>6. /\ phone'[n] = row
      /\ phone'[n].status # "absent" /\ phone'[n].owner = req[r].ws
  BY <1>1, <1>3, <1>4 DEF NInv, NumbersTypeOK
<1>7. \A m \in Numbers : m # n => phone'[m] = phone[m]
  BY <1>4 DEF NInv, NumbersTypeOK
<1>8. \A s \in Requests : RequestInv(s)'
  <2> SUFFICES ASSUME NEW s \in Requests PROVE RequestInv(s)'
    OBVIOUS
  <2>1. CASE s = r
    <3>1. req'[r] = req[r] /\ account'[n] = "ours" /\ n = req[r].num
      BY <1>1, <1>4 DEF Num
    <3>2. phone'[n].status # "absent" /\ phone'[n].owner = req'[r].ws
      BY <1>4, <1>6
    <3> HIDE DEF n
    <3> QED
      BY <1>1, <2>1, <3>1, <3>2 DEF RequestInv, Busy, Num, Stored
  <2>2. CASE s # r
    <3>1. RequestInv(s) /\ pc'[s] = pc[s] /\ req'[s] = req[s]
      BY <1>4, <2>2 DEF NInv, NumbersTypeOK
    <3>2. Busy(s) => Num(s) \in Numbers
      BY <3>1 DEF RequestInv, Num, Request
    <3> QED
      BY <1>1, <1>4, <1>7, <3>1, <3>2 DEF RequestInv, Busy, Num, Stored
  <2> QED
    BY <2>1, <2>2
<1> QED
  BY <1>1, <1>3, <1>4, <1>5, <1>6, <1>7, <1>8
     DEF NInv, StoredIsOurs, CampaignOfOwner, NumbersKept, Stored, NumbersTypeOK

LEMMA RecordNumberStep ==
    ASSUME NInv, NEW r \in Requests, recordNumber(r)
    PROVE  NInv' /\ NumbersKept
<1>1. /\ Num(r) \in Numbers /\ Stored(Num(r))
      /\ phone[Num(r)].owner = req[r].ws
  BY DEF recordNumber, NInv, RequestInv, Busy, Num, Request
<1>2. End(r) /\ UNCHANGED <<phone, account>>
  BY DEF recordNumber
<1>3. /\ usage \subseteq usage'
      /\ usage' \subseteq
             usage \cup {Usage("PHONE_NUMBER", Num(r), phone'[Num(r)].owner, 1)}
  BY <1>1, <1>2, RecordUsage DEF recordNumber
<1>4. NumbersTypeOK'
  BY <1>2, NumbersAssumption
     DEF NInv, NumbersTypeOK, End, GoTo, ProvisionSteps
<1>5. \A s \in Requests : RequestInv(s)'
  BY <1>2 DEF NInv, NumbersTypeOK, RequestInv, Busy, Num, Stored, End, GoTo
<1> QED
  BY <1>1, <1>2, <1>3, <1>4, <1>5
     DEF NInv, StoredIsOurs, CampaignOfOwner, NumbersKept, Stored

\* Releasing or assigning a number keeps it its workspace's.
LEMMA RowStep ==
    ASSUME NInv, NEW n \in Numbers, NEW row \in Phone, Stored(n),
           phone' = [phone EXCEPT ![n] = row],
           row.owner = phone[n].owner,
           row.status = phone[n].status \/ row.status = "RELEASED",
           row.campaign # NULL => CampaignOwner[row.campaign] = row.owner,
           UNCHANGED <<account, pc, req, polls, usage>>
    PROVE  NInv' /\ NumbersKept
<1>1. NumbersTypeOK'
  BY DEF NInv, NumbersTypeOK
<1>2. /\ phone'[n] = row /\ Stored(n)'
      /\ \A m \in Numbers : m # n => phone'[m] = phone[m]
  BY PhoneIs DEF NInv, NumbersTypeOK, Stored
<1>3. \A s \in Requests : RequestInv(s)'
  <2> SUFFICES ASSUME NEW s \in Requests PROVE RequestInv(s)'
    OBVIOUS
  <2>1. RequestInv(s) /\ (Busy(s) => Num(s) \in Numbers)
    BY DEF NInv, RequestInv, Num, Request
  <2> QED
    BY <1>2, <2>1 DEF RequestInv, Busy, Num, Stored
<1> QED
  BY <1>1, <1>2, <1>3
     DEF NInv, StoredIsOurs, CampaignOfOwner, NumbersKept, Stored

LEMMA ReleaseStep ==
    ASSUME NInv, NEW w \in Workspaces, NEW n \in Numbers, releaseNumber(w, n)
    PROVE  NInv' /\ NumbersKept
<1> DEFINE row == [phone[n] EXCEPT !.status = "RELEASED"]
<1>1. phone[n] \in Phone
  BY PhoneIs DEF releaseNumber, NInv, NumbersTypeOK, Stored
<1>2. /\ row \in Phone /\ row.owner = phone[n].owner /\ row.status = "RELEASED"
      /\ row.campaign = phone[n].campaign
  BY <1>1 DEF Phone, PhoneNumberStatus
<1>3. row.campaign # NULL => CampaignOwner[row.campaign] = row.owner
  BY <1>2 DEF NInv, CampaignOfOwner
<1>4. phone' = [phone EXCEPT ![n] = row]
  BY DEF releaseNumber, NInv, NumbersTypeOK
<1> HIDE DEF row
<1> QED
  BY <1>2, <1>3, <1>4, RowStep DEF releaseNumber

LEMMA AssignStep ==
    ASSUME NInv, NEW w \in Workspaces, NEW c \in Campaigns, NEW n \in Numbers,
           assignPhoneNumber(w, c, n)
    PROVE  NInv' /\ NumbersKept
<1> DEFINE row == [phone[n] EXCEPT !.campaign = c]
<1>1. phone[n] \in Phone
  BY PhoneIs DEF assignPhoneNumber, NInv, NumbersTypeOK, Stored
<1>2. /\ row \in Phone /\ row.owner = phone[n].owner
      /\ row.status = phone[n].status /\ row.campaign = c
  BY <1>1 DEF Phone, PhoneNumberStatus
<1>3. CampaignOwner[c] = row.owner
  BY <1>2 DEF assignPhoneNumber
<1>4. phone' = [phone EXCEPT ![n] = row]
  BY DEF assignPhoneNumber, NInv, NumbersTypeOK
<1> HIDE DEF row
<1> QED
  BY <1>2, <1>3, <1>4, RowStep DEF assignPhoneNumber

LEMMA NumbersStep ==
    ASSUME NInv, NumbersNext
    PROVE  NInv' /\ NumbersKept
BY FindStep, OrderStep, PollStep, CreateStep, RecordNumberStep, DeliveredStep,
   ReleaseStep, AssignStep DEF NumbersNext, provisionNumber
-----------------------------------------------------------------------------
(* Steps that write neither a call's row nor a charge for its minutes.     *)

LEMMA CallIs ==
    ASSUME TypeOK, NEW c \in Calls
    PROVE  /\ Known(c) => call[c] \in Call
           /\ call[c].duration \in Int /\ age[c] \in Nat
           /\ call[c].duration # -1 => call[c].duration \in Nat /\ Known(c)
<1>1. MaxAge \in Nat
  BY MeteringAssumption
<1>2. call[c] \in Call \cup {NoCall} /\ age[c] \in 0..MaxAge
  BY DEF TypeOK
<1>3. age[c] \in Nat
  BY <1>1, <1>2
<1>4. CASE call[c] = NoCall
  BY <1>3, <1>4 DEF NoCall, Known
<1>5. CASE call[c] \in Call
  <2>1. call[c].state # "absent"
    BY <1>5 DEF Call, CallStates, EndStates
  <2>2. call[c].duration \in (0..MaxAge) \cup {-1}
    BY <1>5 DEF Call, Durations
  <2> QED
    BY <1>1, <1>3, <1>5, <2>1, <2>2 DEF Known
<1> QED
  BY <1>2, <1>4, <1>5

RowsKept ==
    /\ call' = call
    /\ \A n \in Numbers :
          Stored(n) => Stored(n)' /\ phone'[n].owner = phone[n].owner
    /\ \A c \in Calls : age[c] <= age'[c]
    /\ recording \subseteq recording'
    /\ rolledBack \subseteq rolledBack'
    /\ usage \subseteq usage'
    /\ \A u \in usage' \ usage : u.type # "CALL_MINUTE" /\ Sourced(u)'
    /\ \A e \in events' \ events : Known(e.call) /\ e.call \in rolledBack'

\* A handler stays where it is, or outlives its transaction, or leaves it, or
\* begins.
HandlerMoves(h) ==
    \/ step'[h] = step[h] /\ of'[h] = of[h] /\ draft'[h] = draft[h]
    \/ /\ step[h] = "usage" /\ step'[h] = "late"
       /\ of'[h] = of[h] /\ draft'[h] = draft[h]
    \/ /\ step'[h] \in {"idle", "lock", "recording"}
       /\ step[h] = "commit" => of[h] \in rolledBack'
       /\ step'[h] # "idle" => of'[h] \in Calls /\ Known(of'[h])
       /\ step'[h] = "recording" => of'[h] \in recording'

HandlersMove == \A h \in Handlers : HandlerMoves(h)

\* A handler that takes the lock.
HandlerLocks(h) == ~Holds(h) /\ HandlerInv(h)'

LEMMA LockKeptStep ==
    ASSUME IInv, TypeOK', NInv', RowsKept, OneHolder',
           \A h \in Handlers : LateInv(h)',
           \A h \in Handlers : HandlerMoves(h) \/ HandlerLocks(h)
    PROVE  IInv'
<1> USE DEF RowsKept
<1>1. \A c \in Calls : CallInv(c)'
  <2> SUFFICES ASSUME NEW c \in Calls, Known(c) PROVE CallInv(c)'
    BY DEF CallInv, Known
  <2>1. call[c] \in Call /\ CallInv(c)
    BY CallIs DEF IInv
  <2>2. call[c].duration \in Int /\ age[c] \in Nat /\ age'[c] \in Int
    BY CallIs, MeteringAssumption DEF IInv, TypeOK
  <2>3. call[c].duration <= age[c] /\ age[c] <= age'[c]
    BY <2>1 DEF CallInv
  <2>4. call[c].duration <= age'[c]
    BY <2>2, <2>3
  <2>5. call[c].number \in Numbers
    BY <2>1 DEF Call
  <2> QED
    BY <2>1, <2>4, <2>5 DEF CallInv, Known
<1>2. \A h \in Handlers : HandlerInv(h)'
  <2> SUFFICES ASSUME NEW h \in Handlers, HandlerMoves(h) PROVE HandlerInv(h)'
    BY DEF HandlerLocks
  <2>1. CASE step'[h] \in {"idle", "lock", "recording"} /\ step'[h] # step[h]
    BY <2>1 DEF HandlerInv, HandlerMoves, Holds, Known
  <2>2. CASE step'[h] = step[h] /\ of'[h] = of[h] /\ draft'[h] = draft[h]
    <3> DEFINE c == of[h]
    <3>1. HandlerInv(h)
      BY DEF IInv
    <3>2. ASSUME Holds(h) PROVE draft[h].duration \in 0..age'[c]
      <4>1. c \in Calls /\ draft[h].duration \in 0..age[c]
        BY <3>1, <3>2 DEF HandlerInv, Holds
      <4>2. age[c] <= age'[c] /\ age[c] \in Nat /\ age'[c] \in Int
        BY <4>1, MeteringAssumption, CallIs DEF IInv, TypeOK
      <4> QED
        BY <4>1, <4>2
    <3>3. ASSUME Holds(h), NEW u \in usage', Charge(u, c)
          PROVE  u.quantity <= Minutes(draft[h].duration)
      BY <3>1, <3>3 DEF HandlerInv, Charge
    <3>4. \A d : Charged(d) => Charged(d)'
      BY DEF Charged, Charge
    <3>5. \A d : (Known(d)' <=> Known(d)) /\ FinalState(d)' = FinalState(d)
      BY DEF Known, FinalState
    <3>6. of'[h] = of[h] /\ Holds(h)' = Holds(h) /\ c = of[h]
      BY <2>2 DEF Holds
    <3> HIDE DEF c
    <3> QED
      BY <2>2, <3>1, <3>2, <3>3, <3>4, <3>5, <3>6
         DEF HandlerInv, Charge, Minutes
  <2>3. CASE /\ step'[h] \in {"idle", "lock", "recording"} /\ step'[h] = step[h]
             /\ step'[h] # "idle" => of'[h] \in Calls /\ Known(of'[h])
             /\ step'[h] = "recording" => of'[h] \in recording'
    BY <2>3 DEF HandlerInv, Holds, Known
  <2>4. CASE /\ step[h] = "usage" /\ step'[h] = "late"
             /\ of'[h] = of[h] /\ draft'[h] = draft[h]
    BY <2>4 DEF IInv, HandlerInv, Holds, Known
  <2> QED
    BY <2>1, <2>2, <2>3, <2>4 DEF HandlerMoves
<1>4. \A u \in usage' : Sourced(u)'
  <2> SUFFICES ASSUME NEW u \in usage PROVE Sourced(u)'
    OBVIOUS
  <2>1. Sourced(u)
    BY DEF IInv
  <2>2. CASE u.type = "PHONE_NUMBER"
    BY <2>1, <2>2 DEF Sourced, Traceable
  <2>3. CASE u.type # "PHONE_NUMBER"
    <3>1. u.source \in Calls /\ call[u.source] \in Call
      BY <2>1, <2>3, CallIs DEF Sourced, Traceable, IInv
    <3>2. call[u.source].number \in Numbers /\ CallInv(u.source)
      BY <3>1 DEF Call, IInv
    <3> QED
      BY <2>1, <2>3, <3>1, <3>2 DEF Sourced, Traceable, CallInv, Known
  <2> QED
    BY <2>2, <2>3
<1>5. \A u \in usage' : ChargeInv(u)'
  <2> SUFFICES ASSUME NEW u \in usage', u.type = "CALL_MINUTE"
               PROVE  ChargeInv(u)'
    BY DEF ChargeInv
  <2> DEFINE c == u.source
  <2>1. u \in usage /\ ChargeInv(u)
    BY DEF IInv
  <2>2. c \in Calls /\ Known(c) /\ u.quantity <= Minutes(age[c])
    BY <2>1 DEF ChargeInv
  <2>3. u.quantity <= Minutes(age'[c])
    <3>1. age[c] \in Nat /\ age'[c] \in Nat /\ age[c] <= age'[c]
      BY <2>2, MeteringAssumption DEF IInv, TypeOK
    <3>2. Minutes(age[c]) \in Nat /\ Minutes(age'[c]) \in Nat
          /\ Minutes(age[c]) <= Minutes(age'[c])
      BY <3>1, MinutesNat, MinutesGrow
    <3>3. u.quantity \in Nat
      BY <2>1 DEF IInv, TypeOK
    <3> QED
      BY <2>2, <3>2, <3>3
  <2>4. ASSUME NEW h \in Handlers, step[h] = "commit", of[h] = c,
               u.quantity = Minutes(draft[h].duration)
        PROVE  \/ c \in rolledBack'
               \/ /\ step'[h] = "commit" /\ of'[h] = c
                  /\ u.quantity = Minutes(draft'[h].duration)
    BY <2>4 DEF HandlerMoves, HandlerLocks, Holds
  <2> HIDE DEF c
  <2> QED
    BY <2>1, <2>2, <2>3, <2>4 DEF ChargeInv, Known, c, Minutes
<1>6. \A c \in Calls : call'[c].duration > 0 => Charged(c)'
  BY DEF IInv, Charged, Charge
<1>7. \A e \in events' : EventInv(e)'
  BY DEF IInv, EventInv, Known
<1> QED
  BY <1>1, <1>2, <1>4, <1>5, <1>6, <1>7 DEF IInv

\* No handler takes the lock.
LEMMA RowsKeptStep ==
    ASSUME IInv, TypeOK', NInv', RowsKept, HandlersMove
    PROVE  IInv'
<1>1. OneHolder'
  BY DEF IInv, OneHolder, Holds, HandlersMove, HandlerMoves
<1>2. ASSUME NEW g \in Handlers, step'[g] = "late" PROVE LateInv(g)'
  <2> DEFINE c == of[g]
  <2>1. /\ of'[g] = c /\ draft'[g] = draft[g]
        /\ step[g] \in {"late", "usage"}
    BY <1>2 DEF HandlersMove, HandlerMoves
  <2>2. c \in Calls /\ Known(c) /\ HandlerInv(g) /\ LateInv(g)
    BY <2>1 DEF IInv, HandlerInv
  <2>3. draft[g] \in Draft /\ draft[g].duration \in 0..age[c]
    BY <2>1, <2>2 DEF HandlerInv, LateInv, Holds
  <2>4. call[c].duration # -1 => draft[g].duration <= call[c].duration
    BY <2>1, <2>2, <2>3, CallIs DEF HandlerInv, LateInv, Holds, IInv
  <2>5. age[c] \in Nat /\ age'[c] \in Nat /\ age[c] <= age'[c]
    BY <2>2, MeteringAssumption, CallIs DEF IInv, TypeOK, RowsKept
  <2>6. draft[g].duration \in 0..age'[c]
    BY <2>3, <2>5
  <2>7. ASSUME NEW h \in Handlers, Holds(h)', of'[h] = c
        PROVE  draft[g].duration <= draft'[h].duration
    <3>1. Holds(h) /\ of[h] = c /\ draft'[h] = draft[h] /\ step'[h] = step[h]
      BY <2>7 DEF Holds, HandlersMove, HandlerMoves
    <3>2. step[g] # "usage"
      BY <1>2, <3>1 DEF IInv, OneHolder, Holds
    <3> QED
      BY <2>1, <2>2, <3>1, <3>2 DEF LateInv
  <2> HIDE DEF c
  <2>8. call'[c].duration = call[c].duration
    BY DEF RowsKept
  <2> QED
    BY <2>1, <2>3, <2>4, <2>6, <2>7, <2>8 DEF LateInv
<1>3. \A g \in Handlers : LateInv(g)'
  BY <1>2 DEF LateInv
<1> QED
  BY <1>1, <1>3, LockKeptStep DEF HandlersMove

LEMMA NInvStays == ASSUME NInv, UNCHANGED numberVars PROVE NInv'
BY DEF NInv, numberVars, NumbersTypeOK, RequestInv, Busy, Num, Stored,
       StoredIsOurs, CampaignOfOwner

\* The handlers' variables after one of them moves.
LEMMA LeaveTypes ==
    ASSUME TypeOK, NEW h \in Handlers, Leave(h)
    PROVE  /\ step' \in [Handlers -> Steps]
           /\ of' \in [Handlers -> Calls \cup {NULL}]
           /\ draft' \in [Handlers -> Draft \cup {NoDraft}]
           /\ step'[h] = "idle"
           /\ \A g \in Handlers : g # h =>
                 step'[g] = step[g] /\ of'[g] = of[g] /\ draft'[g] = draft[g]
BY DEF TypeOK, Leave, Move, Steps

LEMMA StartTypes ==
    ASSUME TypeOK, NEW h \in Handlers, NEW c \in Calls, NEW st \in Steps,
           Move(h, st), of' = [of EXCEPT ![h] = c], UNCHANGED draft
    PROVE  /\ step' \in [Handlers -> Steps]
           /\ of' \in [Handlers -> Calls \cup {NULL}]
           /\ draft' \in [Handlers -> Draft \cup {NoDraft}]
           /\ step'[h] = st /\ of'[h] = c
           /\ \A g \in Handlers : g # h =>
                 step'[g] = step[g] /\ of'[g] = of[g] /\ draft'[g] = draft[g]
BY DEF TypeOK, Move

LEMMA NumbersInvStep ==
    ASSUME IInv, NumbersNext, UNCHANGED callVars
    PROVE  IInv'
<1>1. NInv' /\ NumbersKept
  BY NumbersStep DEF IInv
<1>2. TypeOK'
  <2>1. usage' \subseteq [type : UsageType, source : Calls \cup Numbers,
                          workspace : Workspaces, quantity : Nat]
    <3> SUFFICES ASSUME NEW u \in usage' \ usage
                 PROVE  u \in [type : UsageType, source : Calls \cup Numbers,
                               workspace : Workspaces, quantity : Nat]
      BY DEF IInv, TypeOK
    <3>1. PICK n \in Numbers :
              u = Usage("PHONE_NUMBER", n, phone'[n].owner, 1) /\ Stored(n)'
      BY <1>1 DEF NumbersKept
    <3>2. phone'[n] \in Phone
      BY <1>1, <3>1, PhoneIs DEF NInv, NumbersTypeOK, Stored
    <3>3. phone'[n].owner \in Workspaces
      BY <3>2 DEF Phone
    <3> QED
      BY <3>1, <3>3 DEF Usage, UsageType
  <2> QED
    BY <1>1, <2>1 DEF IInv, TypeOK, NInv, callVars
<1>3. \A u \in usage' \ usage : u.type # "CALL_MINUTE" /\ Sourced(u)'
  <2> SUFFICES ASSUME NEW u \in usage' \ usage
               PROVE  u.type # "CALL_MINUTE" /\ Sourced(u)'
    OBVIOUS
  <2>1. PICK n \in Numbers :
            u = Usage("PHONE_NUMBER", n, phone'[n].owner, 1) /\ Stored(n)'
    BY <1>1 DEF NumbersKept
  <2>2. u.type = "PHONE_NUMBER" /\ u.source = n /\ u.workspace = phone'[n].owner
    BY <2>1 DEF Usage
  <2> QED
    BY <2>1, <2>2 DEF Sourced, Traceable, Stored
<1>4. \A c \in Calls : age[c] <= age'[c]
  BY CallIs DEF callVars, IInv
<1>5. RowsKept
  BY <1>1, <1>3, <1>4 DEF RowsKept, NumbersKept, callVars
<1>6. HandlersMove
  BY DEF HandlersMove, HandlerMoves, callVars
<1> QED
  BY <1>1, <1>2, <1>5, <1>6, RowsKeptStep

LEMMA SecondStep ==
    ASSUME IInv, NEW c \in Calls, SecondPasses(c)
    PROVE  IInv'
<1>1. \A d \in Calls : age[d] \in Nat /\ age[d] \in 0..MaxAge
  BY CallIs DEF IInv, TypeOK
<1>2. age' \in [Calls -> 0..MaxAge] /\ \A d \in Calls : age[d] <= age'[d]
  BY <1>1, MeteringAssumption DEF SecondPasses, IInv, TypeOK
<1>3. UNCHANGED <<numberVars, usage, call, recording, step, of, draft, events,
                  rolledBack>>
  BY DEF SecondPasses
<1>4. NInv'
  BY <1>3, NInvStays DEF IInv
<1>5. TypeOK'
  BY <1>2, <1>3, <1>4 DEF IInv, TypeOK, NInv
<1>6. RowsKept /\ HandlersMove
  BY <1>2, <1>3 DEF RowsKept, HandlersMove, HandlerMoves, numberVars, Stored
<1> QED
  BY <1>4, <1>5, <1>6, RowsKeptStep

LEMMA BeginHangupStep ==
    ASSUME IInv, NEW h \in Handlers, NEW c \in Calls, beginHangup(h, c)
    PROVE  IInv'
<1>1. UNCHANGED <<numberVars, usage, call, age, recording, draft, events,
                  rolledBack>>
  BY DEF beginHangup
<1>2. NInv'
  BY <1>1, NInvStays DEF IInv
<1>3. /\ step' \in [Handlers -> Steps]
      /\ of' \in [Handlers -> Calls \cup {NULL}]
      /\ draft' \in [Handlers -> Draft \cup {NoDraft}]
      /\ step'[h] = "lock" /\ of'[h] = c
      /\ \A g \in Handlers : g # h =>
            step'[g] = step[g] /\ of'[g] = of[g] /\ draft'[g] = draft[g]
  BY StartTypes DEF beginHangup, Steps, IInv
<1>4. TypeOK'
  BY <1>1, <1>2, <1>3 DEF IInv, TypeOK, NInv
<1>5. HandlersMove
  BY <1>1, <1>3 DEF HandlersMove, HandlerMoves, Known, beginHangup
<1>6. RowsKept
  BY <1>1, CallIs DEF RowsKept, IInv, numberVars, Stored
<1> QED
  BY <1>2, <1>4, <1>5, <1>6, RowsKeptStep

LEMMA SaveRecordingStep ==
    ASSUME IInv, NEW h \in Handlers, NEW c \in Calls, saveRecording(h, c)
    PROVE  IInv'
<1>1. /\ UNCHANGED <<numberVars, usage, call, age, draft, events, rolledBack>>
      /\ recording' = recording \cup {c}
  BY DEF saveRecording
<1>2. NInv'
  BY <1>1, NInvStays DEF IInv
<1>3. /\ step' \in [Handlers -> Steps]
      /\ of' \in [Handlers -> Calls \cup {NULL}]
      /\ draft' \in [Handlers -> Draft \cup {NoDraft}]
      /\ step'[h] = "recording" /\ of'[h] = c
      /\ \A g \in Handlers : g # h =>
            step'[g] = step[g] /\ of'[g] = of[g] /\ draft'[g] = draft[g]
  BY StartTypes DEF saveRecording, Steps, IInv
<1>4. TypeOK'
  BY <1>1, <1>2, <1>3 DEF IInv, TypeOK, NInv
<1>5. HandlersMove
  BY <1>1, <1>3 DEF HandlersMove, HandlerMoves, Known, saveRecording
<1>6. RowsKept
  BY <1>1, CallIs DEF RowsKept, IInv, numberVars, Stored
<1> QED
  BY <1>2, <1>4, <1>5, <1>6, RowsKeptStep

LEMMA RecordingChargeStep ==
    ASSUME IInv, NEW h \in Handlers,
           recordRecording(h) \/ recordRecordingThrows(h)
    PROVE  IInv'
<1>a. PICK c : c = of[h]
  OBVIOUS
<1>b. PICK u : u = Usage("RECORDING_STORAGE", c, call[c].workspace, 1)
  OBVIOUS
<1>1. /\ Leave(h) /\ step[h] = "recording"
      /\ UNCHANGED <<numberVars, call, age, recording, events, rolledBack>>
  BY DEF recordRecording, recordRecordingThrows
<1>2. NInv'
  BY <1>1, NInvStays DEF IInv
<1>3. c \in Calls /\ Known(c) /\ c \in recording
  BY <1>a, <1>1 DEF IInv, HandlerInv
<1>4. call[c] \in Call /\ CallInv(c)
  BY <1>3, CallIs DEF IInv
<1>5. usage \subseteq usage' /\ usage' \subseteq usage \cup {u}
  BY <1>a, <1>b, RecordUsage DEF recordRecording, recordRecordingThrows
<1>6. u \in [type : UsageType, source : Calls \cup Numbers,
             workspace : Workspaces, quantity : Nat]
  BY <1>b, <1>3, <1>4 DEF Usage, UsageType, Call
<1>7. /\ u.type = "RECORDING_STORAGE" /\ u.source = c
      /\ u.workspace = call[c].workspace
  BY <1>b DEF Usage
<1>8. TypeOK'
  BY <1>1, <1>2, <1>5, <1>6, LeaveTypes DEF IInv, TypeOK, NInv
<1>9. Sourced(u)'
  BY <1>1, <1>3, <1>4, <1>7
     DEF Sourced, Traceable, CallInv, Known, numberVars
<1>10. RowsKept
  BY <1>1, <1>5, <1>7, <1>9, CallIs DEF RowsKept, IInv, numberVars, Stored
<1>11. HandlersMove
  BY <1>1, LeaveTypes DEF HandlersMove, HandlerMoves, IInv
<1> QED
  BY <1>2, <1>8, <1>10, <1>11, RowsKeptStep
-----------------------------------------------------------------------------
(* The hangup transaction.                                                 *)

\* What a handler that holds the lock, or held it, would announce.
LEMMA QueueEnded ==
    ASSUME IInv, NEW h \in Handlers, Holds(h) \/ step[h] = "late", queueEnded(h)
    PROVE  /\ events' \subseteq events \cup {Event(of[h], draft[h])}
           /\ events' \subseteq
                  [call : Calls, state : CallStates, duration : Durations]
<1>1. of[h] \in Calls /\ draft[h] \in Draft
  BY DEF IInv, HandlerInv, LateInv, Holds
<1>2. Event(of[h], draft[h])
          \in [call : Calls, state : CallStates, duration : Durations]
  BY <1>1 DEF Event, Draft
<1>3. events' \subseteq events \cup {Event(of[h], draft[h])}
  BY DEF queueEnded
<1> QED
  BY <1>2, <1>3 DEF IInv, TypeOK

LEMMA RollbackStep ==
    ASSUME IInv, NEW h \in Handlers, rollback(h)
    PROVE  IInv'
<1>1. /\ UNCHANGED <<numberVars, usage, call, age, recording>>
      /\ Leave(h) /\ step[h] # "idle"
  BY DEF rollback
<1>2. of[h] \in Calls /\ Known(of[h])
  BY <1>1 DEF IInv, HandlerInv
<1>3. NInv'
  BY <1>1, NInvStays DEF IInv
<1>4. /\ rolledBack \subseteq rolledBack' /\ rolledBack' \subseteq Calls
      /\ step[h] = "commit" => of[h] \in rolledBack'
  BY <1>2 DEF rollback, IInv, TypeOK
<1>5. /\ events' \subseteq [call : Calls, state : CallStates, duration : Durations]
      /\ \A e \in events' \ events : Known(e.call) /\ e.call \in rolledBack'
  <2>1. CASE step[h] = "commit"
    <3>1. Holds(h) /\ queueEnded(h)
      BY <2>1 DEF rollback, Holds
    <3>2. Event(of[h], draft[h]).call = of[h]
      BY DEF Event
    <3> QED
      BY <1>2, <1>4, <2>1, <3>1, <3>2, QueueEnded
  <2>2. CASE step[h] # "commit"
    BY <2>2 DEF rollback, IInv, TypeOK
  <2> QED
    BY <2>1, <2>2
<1>6. TypeOK'
  BY <1>1, <1>3, <1>4, <1>5, LeaveTypes DEF IInv, TypeOK, NInv
<1>7. RowsKept
  BY <1>1, <1>4, <1>5, CallIs DEF RowsKept, IInv, numberVars, Stored
<1>8. HandlersMove
  BY <1>1, <1>4, LeaveTypes DEF HandlersMove, HandlerMoves, IInv
<1> QED
  BY <1>3, <1>6, <1>7, <1>8, RowsKeptStep

LEMMA TimeOutStep ==
    ASSUME IInv, NEW h \in Handlers, timeOut(h) \/ lateThrows(h)
    PROVE  IInv'
<1>1. UNCHANGED <<numberVars, usage, call, age, recording, events, rolledBack>>
  BY DEF timeOut, lateThrows
<1>2. NInv'
  BY <1>1, NInvStays DEF IInv
<1>3. CASE timeOut(h)
  <2>1. TypeOK'
    BY <1>1, <1>2, <1>3 DEF IInv, TypeOK, NInv, Steps, timeOut, Move
  <2>2. HandlersMove
    BY <1>3 DEF HandlersMove, HandlerMoves, timeOut, Move, IInv, TypeOK
  <2>3. RowsKept
    BY <1>1, CallIs DEF RowsKept, IInv, numberVars, Stored
  <2> QED
    BY <1>2, <2>1, <2>2, <2>3, RowsKeptStep
<1>4. CASE lateThrows(h)
  <2>1. TypeOK'
    BY <1>1, <1>2, <1>4, LeaveTypes DEF IInv, TypeOK, NInv, lateThrows
  <2>2. HandlersMove
    BY <1>4, LeaveTypes DEF HandlersMove, HandlerMoves, lateThrows, IInv
  <2>3. RowsKept
    BY <1>1, CallIs DEF RowsKept, IInv, numberVars, Stored
  <2> QED
    BY <1>2, <2>1, <2>2, <2>3, RowsKeptStep
<1> QED
  BY <1>3, <1>4

LEMMA RestartStep ==
    ASSUME IInv, Restart
    PROVE  IInv'
<1>1. /\ UNCHANGED <<phone, account, usage, call, age, recording, events>>
      /\ step' = [h \in Handlers |-> "idle"]
  BY DEF Restart, NumbersRestart
<1>2. NInv'
  BY NumbersAssumption
     DEF Restart, NumbersRestart, IInv, NInv, NumbersTypeOK, ProvisionSteps,
         RequestInv, Busy, StoredIsOurs, Stored, CampaignOfOwner
<1>3. /\ rolledBack \subseteq rolledBack' /\ rolledBack' \subseteq Calls
      /\ \A h \in Handlers : step[h] = "commit" => of[h] \in rolledBack'
  BY DEF Restart, IInv, HandlerInv, TypeOK
<1>4. TypeOK'
  BY <1>1, <1>2, <1>3 DEF Restart, IInv, TypeOK, NInv, Steps
<1>5. RowsKept
  BY <1>1, <1>3, CallIs DEF RowsKept, IInv, Stored
<1>6. HandlersMove
  BY <1>1, <1>3 DEF HandlersMove, HandlerMoves
<1> QED
  BY <1>2, <1>4, <1>5, <1>6, RowsKeptStep

LEMMA LockStep ==
    ASSUME IInv, NEW h \in Handlers, lockCall(h)
    PROVE  IInv'
<1>a. PICK c : c = of[h]
  OBVIOUS
<1>b. PICK d : d = [read |-> call[c].state, state |-> FinalState(c),
                    duration |-> NewDuration(c)]
  OBVIOUS
<1>1. /\ UNCHANGED <<numberVars, usage, call, age, recording, of, events,
                     rolledBack>>
      /\ step[h] = "lock" /\ ~Locked(c)
      /\ draft' = [draft EXCEPT ![h] = d]
      /\ step' = [step EXCEPT ![h] = IF d.duration > 0 THEN "usage" ELSE "commit"]
  BY <1>a, <1>b DEF lockCall, Move
<1>2. c \in Calls /\ Known(c) /\ call[c] \in Call /\ CallInv(c)
  BY <1>a, <1>1, CallIs DEF IInv, HandlerInv
<1>3. age[c] \in Nat /\ age[c] \in 0..MaxAge /\ call[c].duration \in Int
      /\ (call[c].duration # -1 => call[c].duration \in Nat)
      /\ call[c].duration <= age[c]
  BY <1>2, CallIs DEF IInv, TypeOK, CallInv
<1>4. /\ d.duration \in 0..age[c] /\ d.duration \in Nat
      /\ d.duration \in Durations
      /\ call[c].duration # -1 => d.duration = call[c].duration
      /\ call[c].duration = -1 => d.duration = age[c]
  BY <1>b, <1>3, MeteringAssumption DEF NewDuration, Durations
<1>5. /\ d.state = FinalState(c) /\ d.state \in CallStates
      /\ d.read \in CallStates
  BY <1>b, <1>2 DEF FinalState, Call, CallStates, EndStates
<1>6. d \in Draft
  BY <1>b, <1>4, <1>5 DEF Draft
<1>7. NInv'
  BY <1>1, NInvStays DEF IInv
<1>8. TypeOK'
  BY <1>1, <1>6, <1>7 DEF IInv, TypeOK, NInv, Steps
<1>9. RowsKept
  BY <1>1, CallIs DEF RowsKept, IInv, numberVars, Stored
<1>10. /\ draft'[h] = d /\ of'[h] = c
       /\ step'[h] = IF d.duration > 0 THEN "usage" ELSE "commit"
  BY <1>a, <1>1 DEF IInv, TypeOK
<1>11. ASSUME NEW u \in usage, Charge(u, c)
       PROVE  u.quantity <= Minutes(d.duration)
  <2>1. ChargeInv(u) /\ u.source = c /\ u.type = "CALL_MINUTE"
    BY <1>11 DEF IInv, Charge
  <2> QED
    BY <1>4, <2>1 DEF ChargeInv
<1>12. HandlerInv(h)'
  <2>1. FinalState(c)' = FinalState(c) /\ Known(c)'
    BY <1>1, <1>2 DEF FinalState, Known
  <2>2. \A u \in usage' : Charge(u, c) => u.quantity <= Minutes(d.duration)
    BY <1>1, <1>11
  <2>3. age'[c] = age[c] /\ call'[c] = call[c]
    BY <1>1
  <2>4. (step'[h] = "commit") => ~(d.duration > 0)
    BY <1>10
  <2>5. step'[h] # "recording" /\ (step'[h] = "usage" => d.duration > 0)
    BY <1>10
  <2> QED
    BY <1>2, <1>4, <1>5, <1>6, <1>10, <2>1, <2>2, <2>3, <2>4, <2>5
       DEF HandlerInv, Minutes, Charge
<1>13. \A g \in Handlers : g # h =>
           step'[g] = step[g] /\ of'[g] = of[g] /\ draft'[g] = draft[g]
  BY <1>1 DEF IInv, TypeOK
<1>14. OneHolder'
  <2>1. \A g \in Handlers : g # h => Holds(g)' = Holds(g) /\ (Holds(g) => of[g] # c)
    BY <1>1, <1>13 DEF Holds, Locked
  <2> QED
    BY <1>10, <1>13, <2>1 DEF IInv, OneHolder
<1>15. HandlerLocks(h) /\ \A g \in Handlers : g # h => HandlerMoves(g)
  BY <1>1, <1>12, <1>13 DEF HandlerLocks, HandlerMoves, Holds
<1>16. \A g \in Handlers : HandlerMoves(g) \/ HandlerLocks(g)
  BY <1>15
<1>17. ASSUME NEW g \in Handlers, step'[g] = "late" PROVE LateInv(g)'
  <2>1. g # h
    BY <1>10, <1>17
  <2>2. /\ step[g] = "late" /\ LateInv(g) /\ of'[g] = of[g]
        /\ draft'[g] = draft[g] /\ of[g] \in Calls
    BY <1>13, <1>17, <2>1 DEF IInv, HandlerInv
  <2>3. of[g] = c => draft[g].duration <= d.duration
    BY <1>4, <2>2, <1>3 DEF LateInv
  <2>4. ASSUME NEW k \in Handlers, Holds(k)', of'[k] = of[g]
        PROVE  draft[g].duration <= draft'[k].duration
    <3>1. CASE k = h
      BY <1>10, <2>3, <2>4, <3>1
    <3>2. CASE k # h
      BY <1>13, <2>2, <2>4, <3>2 DEF LateInv, Holds
    <3> QED
      BY <3>1, <3>2
  <2> QED
    BY <1>1, <2>2, <2>4 DEF LateInv
<1>18. \A g \in Handlers : LateInv(g)'
  BY <1>17 DEF LateInv
<1> QED
  BY <1>7, <1>8, <1>9, <1>14, <1>16, <1>18, LockKeptStep

\* The first charge stays, and is for what the lock holder has read.
LEMMA RecordMinutesStep ==
    ASSUME IInv, NEW h \in Handlers, recordMinutes(h)
    PROVE  IInv'
<1>a. PICK c : c = of[h]
  OBVIOUS
<1>b. PICK n : n = Minutes(draft[h].duration)
  OBVIOUS
<1>c. PICK u : u = Usage("CALL_MINUTE", c, call[c].workspace, n)
  OBVIOUS
<1>1. /\ UNCHANGED <<numberVars, call, age, recording, of, draft, events,
                     rolledBack>>
      /\ step[h] = "usage" /\ step' = [step EXCEPT ![h] = "commit"]
      /\ recordUsage(u)
  BY <1>a, <1>b, <1>c DEF recordMinutes, Move
<1>2. /\ c \in Calls /\ Known(c) /\ call[c] \in Call /\ CallInv(c)
      /\ draft[h].duration \in 0..age[c] /\ draft[h].duration > 0
      /\ call[c].duration # -1 => draft[h].duration = call[c].duration
      /\ \A v \in usage : Charge(v, c) => v.quantity <= n
  BY <1>a, <1>b, <1>1, CallIs DEF IInv, HandlerInv, Holds
<1>3. /\ draft[h].duration \in Nat /\ age[c] \in Nat
      /\ draft[h].duration <= age[c]
  BY <1>2, CallIs DEF IInv
<1>4. n \in Nat /\ Minutes(age[c]) \in Nat /\ n <= Minutes(age[c])
  BY <1>b, <1>3, MinutesNat, MinutesGrow
<1>5. /\ usage \subseteq usage' /\ usage' \subseteq usage \cup {u}
      /\ \E v \in usage' : SameKey(u, v)
  BY <1>1, RecordUsage
<1>6. /\ u.type = "CALL_MINUTE" /\ u.source = c /\ u.quantity = n
      /\ u.workspace = call[c].workspace
  BY <1>c DEF Usage
<1>7. NInv'
  BY <1>1, NInvStays DEF IInv
<1>8. u \in [type : UsageType, source : Calls \cup Numbers,
             workspace : Workspaces, quantity : Nat]
  BY <1>2, <1>4, <1>c DEF Usage, UsageType, Call
<1>9. TypeOK'
  BY <1>1, <1>5, <1>7, <1>8 DEF IInv, TypeOK, NInv, Steps
<1>10. step'[h] = "commit" /\ \A g \in Handlers : g # h => step'[g] = step[g]
  BY <1>1 DEF IInv, TypeOK
<1>11. \A d \in Calls : CallInv(d)'
  BY <1>1 DEF IInv, CallInv, Known, Stored, numberVars
<1>12. \A d : Charged(d) => Charged(d)'
  BY <1>5 DEF Charged, Charge
<1>13. \A g \in Handlers : HandlerInv(g)'
  <2>1. ASSUME NEW g \in Handlers, g # h PROVE HandlerInv(g)'
    <3>1. HandlerInv(g) /\ step'[g] = step[g] /\ Holds(g)' = Holds(g)
      BY <1>10, <2>1 DEF IInv, Holds
    <3>2. Holds(g) => of[g] # c
      BY <1>a, <1>1, <2>1 DEF IInv, OneHolder, Holds
    <3>3. Holds(g) => \A v \in usage' :
                         Charge(v, of[g]) => v \in usage
      BY <1>5, <1>6, <3>2 DEF Charge
    <3> QED
      BY <1>1, <1>12, <3>1, <3>3
         DEF HandlerInv, Known, FinalState, Minutes, Charge
  <2>2. HandlerInv(h)'
    <3>1. HandlerInv(h) /\ Holds(h)
      BY <1>1 DEF IInv, Holds
    <3>2. \A v \in usage' : Charge(v, c) => v.quantity <= n
      BY <1>2, <1>4, <1>5, <1>6
    <3>3. Charged(c)'
      BY <1>5, <1>6 DEF Charged, Charge, SameKey
    <3> QED
      BY <1>a, <1>b, <1>1, <1>10, <3>1, <3>2, <3>3
         DEF HandlerInv, Known, FinalState, Minutes, Charge, Holds
  <2> QED
    BY <2>1, <2>2
<1>14. OneHolder'
  BY <1>1, <1>10 DEF IInv, OneHolder, Holds
<1>15. \A v \in usage' : Sourced(v)' /\ ChargeInv(v)'
  <2>1. ASSUME NEW v \in usage PROVE Sourced(v)'
    BY <1>1, <2>1 DEF IInv, Sourced, Traceable, Known, Stored, numberVars
  <2>2. ASSUME NEW v \in usage PROVE ChargeInv(v)'
    <3>1. ChargeInv(v)
      BY DEF IInv
    <3>2. \A g \in Handlers : step[g] = "commit" => step'[g] = "commit"
      BY <1>10
    <3> QED
      BY <1>1, <3>1, <3>2 DEF ChargeInv, Known, Minutes
  <2>3. Sourced(u)'
    BY <1>1, <1>2, <1>6 DEF Sourced, Traceable, CallInv, Known, numberVars
  <2>4. ChargeInv(u)'
    <3>1. u.quantity = Minutes(draft'[h].duration) /\ of'[h] = c
      BY <1>a, <1>b, <1>1, <1>6 DEF Minutes
    <3>2. /\ u.quantity <= Minutes(age[c])
          /\ call[c].duration # -1 => u.quantity <= Minutes(call[c].duration)
      BY <1>b, <1>2, <1>4, <1>6
    <3> QED
      BY <1>1, <1>2, <1>6, <1>10, <3>1, <3>2 DEF ChargeInv, Known, Minutes
  <2> QED
    BY <1>5, <2>1, <2>2, <2>3, <2>4
<1>16. \A d \in Calls : call'[d].duration > 0 => Charged(d)'
  BY <1>1, <1>12 DEF IInv
<1>17. \A e \in events' : EventInv(e)'
  BY <1>1 DEF IInv, EventInv, Known
<1>18. \A g \in Handlers : LateInv(g)'
  <2>1. \A g \in Handlers : /\ Holds(g)' = Holds(g)
                           /\ (step'[g] = "late") = (step[g] = "late")
    BY <1>1, <1>10 DEF Holds
  <2> QED
    BY <1>1, <2>1 DEF IInv, LateInv
<1> QED
  BY <1>7, <1>9, <1>11, <1>13, <1>14, <1>15, <1>16, <1>17, <1>18 DEF IInv

\* A charge of a callback whose transaction is gone: it is for no more than
\* any handler has read since, and its call counts as rolled back.
LEMMA LateChargeStep ==
    ASSUME IInv, NEW h \in Handlers, recordMinutesLate(h)
    PROVE  IInv'
<1>a. PICK c : c = of[h]
  OBVIOUS
<1>b. PICK n : n = Minutes(draft[h].duration)
  OBVIOUS
<1>c. PICK u : u = Usage("CALL_MINUTE", c, call[c].workspace, n)
  OBVIOUS
<1>d. PICK e : e = Event(c, draft[h])
  OBVIOUS
<1>1. /\ UNCHANGED <<numberVars, call, age, recording>>
      /\ step[h] = "late" /\ Leave(h) /\ queueEnded(h)
      /\ rolledBack' = rolledBack \cup {c} /\ recordUsage(u)
  BY <1>a, <1>b, <1>c DEF recordMinutesLate
<1>2. /\ c \in Calls /\ Known(c) /\ call[c] \in Call /\ CallInv(c)
      /\ LateInv(h)
  BY <1>a, <1>1, CallIs DEF IInv, HandlerInv
<1>3. /\ draft[h].duration \in Nat /\ age[c] \in Nat
      /\ draft[h].duration <= age[c]
  BY <1>a, <1>1, <1>2, CallIs DEF IInv, LateInv
<1>4. n \in Nat /\ Minutes(age[c]) \in Nat /\ n <= Minutes(age[c])
  BY <1>b, <1>3, MinutesNat, MinutesGrow
<1>5. call[c].duration # -1 => n <= Minutes(call[c].duration)
  BY <1>a, <1>b, <1>1, <1>2, <1>3, MinutesGrow, CallIs DEF IInv, LateInv
<1>6. /\ usage \subseteq usage' /\ usage' \subseteq usage \cup {u}
      /\ \E v \in usage' : SameKey(u, v)
  BY <1>1, RecordUsage
<1>7. /\ u.type = "CALL_MINUTE" /\ u.source = c /\ u.quantity = n
      /\ u.workspace = call[c].workspace
  BY <1>c DEF Usage
<1>8. NInv'
  BY <1>1, NInvStays DEF IInv
<1>9. u \in [type : UsageType, source : Calls \cup Numbers,
             workspace : Workspaces, quantity : Nat]
  BY <1>2, <1>4, <1>c DEF Usage, UsageType, Call
<1>10. /\ step' \in [Handlers -> Steps]
       /\ of' \in [Handlers -> Calls \cup {NULL}]
       /\ draft' \in [Handlers -> Draft \cup {NoDraft}]
       /\ step'[h] = "idle"
       /\ \A g \in Handlers : g # h =>
             step'[g] = step[g] /\ of'[g] = of[g] /\ draft'[g] = draft[g]
  BY <1>1, LeaveTypes DEF IInv
<1>11. /\ events' \subseteq events \cup {e}
       /\ events' \subseteq [call : Calls, state : CallStates, duration : Durations]
  BY <1>a, <1>d, <1>1, QueueEnded
<1>12. TypeOK'
  BY <1>1, <1>2, <1>6, <1>8, <1>9, <1>10, <1>11 DEF IInv, TypeOK, NInv
<1>13. \A d \in Calls : CallInv(d)'
  BY <1>1 DEF IInv, CallInv, Known, Stored, numberVars
<1>14. \A d : Charged(d) => Charged(d)'
  BY <1>6 DEF Charged, Charge
<1>15. ASSUME NEW g \in Handlers, g # h PROVE HandlerInv(g)'
  <2>1. /\ HandlerInv(g) /\ step'[g] = step[g] /\ Holds(g)' = Holds(g)
        /\ of'[g] = of[g] /\ draft'[g] = draft[g]
    BY <1>10, <1>15 DEF IInv, Holds
  <2>2. ASSUME Holds(g), of[g] = c
        PROVE  n <= Minutes(draft[g].duration)
    <3>1. draft[h].duration <= draft[g].duration
      BY <1>a, <1>1, <1>2, <2>2 DEF LateInv
    <3>2. draft[g].duration \in Nat
      BY <1>3, <2>1, <2>2 DEF HandlerInv
    <3> QED
      BY <1>b, <1>3, <3>1, <3>2, MinutesGrow
  <2>3. ASSUME Holds(g), NEW v \in usage', Charge(v, of[g])
        PROVE  v.quantity <= Minutes(draft[g].duration)
    <3>1. CASE v \in usage
      BY <2>1, <2>3, <3>1 DEF HandlerInv
    <3>2. CASE v = u
      BY <1>7, <2>2, <2>3, <3>2 DEF Charge
    <3> QED
      BY <1>6, <3>1, <3>2
  <2> QED
    BY <1>1, <1>14, <2>1, <2>3
       DEF HandlerInv, Known, FinalState, Minutes, Charge
<1>16. \A g \in Handlers : HandlerInv(g)'
  <2>1. HandlerInv(h)'
    BY <1>10 DEF HandlerInv, Holds
  <2> QED
    BY <1>15, <2>1
<1>17. OneHolder'
  BY <1>10 DEF IInv, OneHolder, Holds
<1>18. \A v \in usage' : Sourced(v)'
  <2>1. ASSUME NEW v \in usage PROVE Sourced(v)'
    BY <1>1, <2>1 DEF IInv, Sourced, Traceable, Known, Stored, numberVars
  <2>2. Sourced(u)'
    BY <1>1, <1>2, <1>7 DEF Sourced, Traceable, CallInv, Known, numberVars
  <2> QED
    BY <1>6, <2>1, <2>2
<1>19. \A v \in usage' : ChargeInv(v)'
  <2>1. ASSUME NEW v \in usage PROVE ChargeInv(v)'
    <3>1. ChargeInv(v)
      BY DEF IInv
    <3>2. \A g \in Handlers : step[g] = "commit" =>
             step'[g] = "commit" /\ of'[g] = of[g] /\ draft'[g] = draft[g]
      BY <1>1, <1>10
    <3>3. \A x : x \in rolledBack => x \in rolledBack'
      BY <1>1
    <3> QED
      BY <1>1, <3>1, <3>2, <3>3 DEF ChargeInv, Known, Minutes
  <2>2. ChargeInv(u)'
    BY <1>1, <1>2, <1>4, <1>5, <1>7 DEF ChargeInv, Known, Minutes
  <2> QED
    BY <1>6, <2>1, <2>2
<1>20. \A d \in Calls : call'[d].duration > 0 => Charged(d)'
  BY <1>1, <1>14 DEF IInv
<1>21. \A f \in events' : EventInv(f)'
  <2>1. ASSUME NEW f \in events PROVE EventInv(f)'
    BY <1>1 DEF IInv, EventInv, Known
  <2>2. EventInv(e)'
    BY <1>d, <1>1, <1>2 DEF EventInv, Event, Known
  <2> QED
    BY <1>11, <2>1, <2>2
<1>22. \A g \in Handlers : LateInv(g)'
  <2>1. ASSUME NEW g \in Handlers, step'[g] = "late" PROVE LateInv(g)'
    <3>1. /\ g # h /\ step[g] = "late" /\ LateInv(g)
          /\ of'[g] = of[g] /\ draft'[g] = draft[g]
      BY <1>10, <2>1 DEF IInv
    <3>2. \A k \in Handlers : Holds(k)' =>
             Holds(k) /\ of'[k] = of[k] /\ draft'[k] = draft[k]
      BY <1>10 DEF Holds
    <3> QED
      BY <1>1, <3>1, <3>2 DEF LateInv
  <2> QED
    BY <2>1 DEF LateInv
<1> QED
  BY <1>8, <1>12, <1>13, <1>16, <1>17, <1>18, <1>19, <1>20, <1>21, <1>22
     DEF IInv

\* A call that no transaction works on arrives or is routed on.
LEMMA CallRowStep ==
    ASSUME IInv, NEW c \in Calls, NEW row \in Call, ~Locked(c),
           call' = [call EXCEPT ![c] = row],
           UNCHANGED <<numberVars, usage, age, recording, step, of, draft,
                       events, rolledBack>>,
           call[c].duration = -1, row.duration = -1, Stored(row.number),
           phone[row.number].owner = row.workspace,
           Known(c) => /\ row.workspace = call[c].workspace
                       /\ row.number = call[c].number
    PROVE  IInv'
<1>1. /\ call'[c] = row /\ \A d \in Calls : d # c => call'[d] = call[d]
      /\ Known(c)' /\ age[c] \in Nat
  BY CallIs DEF IInv, TypeOK, Known, Call, CallStates, EndStates
<1>2. NInv'
  BY NInvStays DEF IInv
<1>3. TypeOK'
  BY <1>2 DEF IInv, TypeOK, NInv
<1>4. \A d \in Calls : CallInv(d)'
  <2>1. CallInv(c)'
    BY <1>1 DEF CallInv, Stored, numberVars
  <2>2. \A d \in Calls : d # c => CallInv(d)'
    BY <1>1 DEF IInv, CallInv, Known, Stored, numberVars
  <2> QED
    BY <2>1, <2>2
<1>5. \A d \in Calls : Known(d) => Known(d)'
  BY <1>1 DEF Known
<1>6. \A h \in Handlers : HandlerInv(h)'
  <2> SUFFICES ASSUME NEW h \in Handlers PROVE HandlerInv(h)'
    OBVIOUS
  <2>1. HandlerInv(h) /\ Holds(h)' = Holds(h) /\ (Holds(h) => of[h] # c)
    BY DEF IInv, Holds, Locked
  <2>2. Holds(h) => of[h] \in Calls /\ call'[of[h]] = call[of[h]]
    BY <1>1, <2>1 DEF HandlerInv, Holds
  <2>3. Charged(of[h])' = Charged(of[h])
    BY DEF Charged, Charge
  <2> QED
    BY <1>5, <2>1, <2>2, <2>3
       DEF HandlerInv, FinalState, Minutes, Charge, Holds
<1>7. OneHolder'
  BY DEF IInv, OneHolder, Holds
<1>8. \A u \in usage' : Sourced(u)'
  <2> SUFFICES ASSUME NEW u \in usage PROVE Sourced(u)'
    OBVIOUS
  <2>1. Sourced(u)
    BY DEF IInv
  <2> QED
    BY <1>1, <2>1 DEF Sourced, Traceable, Known, Stored, numberVars
<1>9. \A u \in usage' : ChargeInv(u)'
  <2> SUFFICES ASSUME NEW u \in usage PROVE ChargeInv(u)'
    OBVIOUS
  <2>1. ChargeInv(u)
    BY DEF IInv
  <2>2. u.type = "CALL_MINUTE" => call'[u.source].duration = call[u.source].duration
    BY <1>1, <2>1 DEF ChargeInv
  <2> QED
    BY <1>5, <2>1, <2>2 DEF ChargeInv, Minutes
<1>10. \A d \in Calls : call'[d].duration > 0 => Charged(d)'
  <2>1. \A d : Charged(d)' = Charged(d)
    BY DEF Charged, Charge
  <2> QED
    BY <1>1, <2>1 DEF IInv
<1>11. \A e \in events' : EventInv(e)'
  BY <1>1, <1>5 DEF IInv, EventInv, TypeOK
<1>12. \A h \in Handlers : LateInv(h)'
  <2>1. \A h \in Handlers : step[h] = "late" =>
           LateInv(h) /\ call'[of[h]].duration = call[of[h]].duration
    BY <1>1 DEF IInv, HandlerInv
  <2>2. \A h \in Handlers : Holds(h)' = Holds(h)
    BY DEF Holds
  <2> QED
    BY <2>1, <2>2 DEF LateInv
<1> QED
  BY <1>2, <1>3, <1>4, <1>6, <1>7, <1>8, <1>9, <1>10, <1>11, <1>12 DEF IInv

LEMMA CallArrivesStep ==
    ASSUME IInv, NEW c \in Calls, NEW n \in Numbers, callArrives(c, n)
    PROVE  IInv'
<1>1. phone[n] \in Phone
  BY PhoneIs DEF callArrives, IInv, TypeOK, NumbersTypeOK, Stored
<1>2. PICK s \in {"INITIATED", "FAILED"} :
          call' = [call EXCEPT ![c] =
              [state |-> s, duration |-> -1,
               workspace |-> phone[n].owner, number |-> n]]
  BY DEF callArrives
<1>3. PICK row : row = [state |-> s, duration |-> -1,
                        workspace |-> phone[n].owner, number |-> n]
  OBVIOUS
<1>4. row \in Call
  BY <1>1, <1>3 DEF Call, Phone, CallStates, EndStates, Durations
<1>5. call[c].duration = -1 /\ ~Known(c)
  BY CallIs DEF callArrives, IInv
<1>6. ~Locked(c)
  BY <1>5 DEF IInv, HandlerInv, Locked
<1>7. row.duration = -1 /\ row.number = n /\ row.workspace = phone[n].owner
  BY <1>3
<1> QED
  BY <1>2, <1>3, <1>4, <1>5, <1>6, <1>7, CallRowStep DEF callArrives

LEMMA TransitionStep ==
    ASSUME IInv, NEW c \in Calls, NEW s \in CallStates, transition(c, s)
    PROVE  IInv'
<1>1. /\ call[c].state \in {"INITIATED", "ROUTING"}
      /\ call' = [call EXCEPT ![c].state = s] /\ ~Locked(c)
      /\ UNCHANGED <<numberVars, usage, age, recording, step, of, draft,
                     events, rolledBack>>
  BY DEF transition
<1>2. Known(c) /\ call[c] \in Call /\ CallInv(c)
  BY <1>1, CallIs DEF Known, IInv
<1>3. call[c].duration = -1
  BY <1>1, <1>2 DEF CallInv, EndStates
<1>4. PICK row : row = [call[c] EXCEPT !.state = s]
  OBVIOUS
<1>5. /\ row \in Call /\ row.duration = -1
      /\ row.workspace = call[c].workspace /\ row.number = call[c].number
  BY <1>2, <1>3, <1>4 DEF Call
<1>6. call' = [call EXCEPT ![c] = row]
  BY <1>1, <1>4
<1>7. Stored(row.number) /\ phone[row.number].owner = row.workspace
  BY <1>2, <1>5 DEF CallInv
<1> QED
  BY <1>1, <1>3, <1>5, <1>6, <1>7, CallRowStep
\* What the lock holder has read is still what the row says, or what it may say.
LEMMA CommitStep ==
    ASSUME IInv, NEW h \in Handlers, commit(h)
    PROVE  IInv'
<1>a. PICK c : c = of[h]
  OBVIOUS
<1>b. PICK d : d = draft[h]
  OBVIOUS
<1>c. PICK row : row = [call[c] EXCEPT !.state = d.state, !.duration = d.duration]
  OBVIOUS
<1>1. /\ UNCHANGED <<numberVars, usage, age, recording, rolledBack>>
      /\ step[h] = "commit" /\ Leave(h) /\ queueEnded(h)
      /\ call' = [call EXCEPT ![c].state = d.state, ![c].duration = d.duration]
  BY <1>a, <1>b DEF commit
<1>2. /\ c \in Calls /\ Known(c) /\ call[c] \in Call /\ CallInv(c)
      /\ d \in Draft /\ d.state = FinalState(c) /\ d.duration \in 0..age[c]
      /\ call[c].duration # -1 => d.duration = call[c].duration
      /\ \A v \in usage : Charge(v, c) => v.quantity <= Minutes(d.duration)
      /\ d.duration > 0 => Charged(c)
  BY <1>a, <1>b, <1>1, CallIs DEF IInv, HandlerInv, Holds
<1>3. age[c] \in Nat /\ d.duration \in Nat /\ d.duration <= age[c]
      /\ d.duration # -1
  BY <1>2, CallIs DEF IInv
<1>4. d.state \in EndStates
  BY <1>2 DEF FinalState, Call, CallStates, EndStates
<1>5. /\ row \in Call /\ row.state = d.state /\ row.duration = d.duration
      /\ row.workspace = call[c].workspace /\ row.number = call[c].number
  BY <1>c, <1>2 DEF Call, Draft
<1>6. /\ call' = [call EXCEPT ![c] = row]
      /\ call'[c] = row /\ \A x \in Calls : x # c => call'[x] = call[x]
  BY <1>c, <1>1, <1>2 DEF IInv, TypeOK
<1>7. Known(c)' /\ \A x \in Calls : Known(x) => Known(x)'
  BY <1>4, <1>5, <1>6 DEF Known, EndStates
<1>8. /\ events' \subseteq events \cup {Event(c, d)}
      /\ events' \subseteq [call : Calls, state : CallStates, duration : Durations]
  BY <1>a, <1>b, <1>1, QueueEnded DEF Holds
<1>9. NInv'
  BY <1>1, NInvStays DEF IInv
<1>10. /\ step' \in [Handlers -> Steps]
       /\ of' \in [Handlers -> Calls \cup {NULL}]
       /\ draft' \in [Handlers -> Draft \cup {NoDraft}]
       /\ step'[h] = "idle"
       /\ \A g \in Handlers : g # h =>
             step'[g] = step[g] /\ of'[g] = of[g] /\ draft'[g] = draft[g]
  BY <1>1, LeaveTypes DEF IInv
<1>11. TypeOK'
  BY <1>1, <1>5, <1>6, <1>8, <1>9, <1>10 DEF IInv, TypeOK, NInv
<1>12. \A x \in Calls : CallInv(x)'
  <2>1. CallInv(c)'
    BY <1>1, <1>2, <1>3, <1>4, <1>5, <1>6 DEF CallInv, Stored, numberVars
  <2>2. \A x \in Calls : x # c => CallInv(x)'
    BY <1>1, <1>6 DEF IInv, CallInv, Known, Stored, numberVars
  <2> QED
    BY <2>1, <2>2
<1>13. \A x : Charged(x)' = Charged(x)
  BY <1>1 DEF Charged, Charge
<1>14. \A g \in Handlers : HandlerInv(g)'
  <2>1. HandlerInv(h)'
    BY <1>10 DEF HandlerInv, Holds
  <2>2. ASSUME NEW g \in Handlers, g # h PROVE HandlerInv(g)'
    <3>1. /\ HandlerInv(g) /\ Holds(g)' = Holds(g)
          /\ step'[g] = step[g] /\ of'[g] = of[g] /\ draft'[g] = draft[g]
      BY <1>10, <2>2 DEF IInv, Holds
    <3>2. Holds(g) => of[g] # c
      BY <1>a, <1>1, <2>2 DEF IInv, OneHolder, Holds
    <3>3. Holds(g) => of[g] \in Calls /\ call'[of[g]] = call[of[g]]
      BY <1>6, <3>1, <3>2 DEF HandlerInv, Holds
    <3>4. step[g] # "idle" => of[g] \in Calls /\ call'[of[g]].state # "absent"
      BY <1>7, <3>1 DEF HandlerInv, Known
    <3> QED
      BY <1>1, <1>13, <3>1, <3>3, <3>4
         DEF HandlerInv, Known, FinalState, Minutes, Charge, Holds
  <2> QED
    BY <2>1, <2>2
<1>15. OneHolder'
  BY <1>10 DEF IInv, OneHolder, Holds
<1>16. \A u \in usage' : Sourced(u)'
  <2> SUFFICES ASSUME NEW u \in usage PROVE Sourced(u)'
    BY <1>1
  <2>1. Sourced(u)
    BY DEF IInv
  <2>2. \A x \in Calls : /\ call'[x].workspace = call[x].workspace
                         /\ call'[x].number = call[x].number
    BY <1>5, <1>6
  <2>3. phone' = phone /\ recording' = recording
    BY <1>1 DEF numberVars
  <2>4. Traceable(u)'
    BY <2>1, <2>2, <2>3 DEF Sourced, Traceable
  <2>5. u.type # "PHONE_NUMBER" => Known(u.source)'
    BY <1>7, <2>1 DEF Sourced, Traceable
  <2> QED
    BY <2>1, <2>3, <2>4, <2>5 DEF Sourced, Stored
<1>17. \A u \in usage' : ChargeInv(u)'
  <2> SUFFICES ASSUME NEW u \in usage, u.type = "CALL_MINUTE"
               PROVE  ChargeInv(u)'
    BY <1>1 DEF ChargeInv
  <2>1. ChargeInv(u) /\ u.source \in Calls /\ Known(u.source)'
    BY <1>7 DEF IInv, ChargeInv
  <2>2. CASE u.source # c
    <3>1. \A g \in Handlers : of[g] = u.source =>
             step'[g] = step[g] /\ of'[g] = of[g] /\ draft'[g] = draft[g]
      BY <1>a, <1>10, <2>2
    <3>2. call'[u.source] = call[u.source]
      BY <1>6, <2>1, <2>2
    <3> QED
      BY <1>1, <2>1, <3>1, <3>2 DEF ChargeInv, Minutes
  <2>3. CASE u.source = c
    <3>1. u.quantity <= Minutes(d.duration)
      BY <1>2, <2>3 DEF Charge
    <3>2. \/ c \in rolledBack
          \/ u.quantity = Minutes(d.duration)
      <4>1. ASSUME NEW g \in Handlers, step[g] = "commit", of[g] = c
            PROVE  draft[g] = d
        BY <1>a, <1>b, <1>1, <4>1 DEF IInv, OneHolder, Holds
      <4> QED
        BY <1>2, <2>1, <2>3, <4>1 DEF ChargeInv
    <3> QED
      BY <1>1, <1>3, <1>5, <1>6, <2>1, <2>3, <3>1, <3>2 DEF ChargeInv, Minutes
  <2> QED
    BY <2>2, <2>3
<1>18. \A x \in Calls : call'[x].duration > 0 => Charged(x)'
  BY <1>2, <1>5, <1>6, <1>13 DEF IInv
<1>19. \A e \in events' : EventInv(e)'
  <2>1. ASSUME NEW e \in events PROVE EventInv(e)'
    <3>1. EventInv(e) /\ e.call \in Calls
      BY DEF IInv, TypeOK
    <3>2. CASE e.call = c /\ e.call \notin rolledBack
      <4>1. call[c].duration # -1 /\ call[c].state \in EndStates
        BY <1>2, <3>1, <3>2 DEF EventInv, CallInv
      <4>2. d.state = call[c].state /\ d.duration = call[c].duration
        BY <1>2, <4>1 DEF FinalState, EndStates
      <4> QED
        BY <1>3, <1>5, <1>6, <1>7, <3>1, <3>2, <4>2 DEF EventInv
    <3>3. CASE e.call # c \/ e.call \in rolledBack
      BY <1>1, <1>6, <1>7, <3>1, <3>3 DEF EventInv
    <3> QED
      BY <3>2, <3>3
  <2>2. EventInv(Event(c, d))'
    BY <1>3, <1>5, <1>6, <1>7 DEF EventInv, Event
  <2> QED
    BY <1>8, <2>1, <2>2
<1>20. ASSUME NEW g \in Handlers, step'[g] = "late" PROVE LateInv(g)'
  <2>1. /\ g # h /\ step[g] = "late" /\ LateInv(g) /\ of[g] \in Calls
        /\ of'[g] = of[g] /\ draft'[g] = draft[g]
    BY <1>10, <1>20 DEF IInv, HandlerInv
  <2>2. of[g] = c => draft[g].duration <= d.duration
    BY <1>a, <1>b, <1>1, <2>1 DEF LateInv, Holds
  <2>3. call'[of[g]].duration # -1 =>
            draft[g].duration <= call'[of[g]].duration
    BY <1>5, <1>6, <2>1, <2>2 DEF LateInv
  <2>4. \A k \in Handlers : Holds(k)' =>
           Holds(k) /\ of'[k] = of[k] /\ draft'[k] = draft[k]
    BY <1>10 DEF Holds
  <2> QED
    BY <1>1, <2>1, <2>3, <2>4 DEF LateInv
<1>21. \A g \in Handlers : LateInv(g)'
  BY <1>20 DEF LateInv
<1> QED
  BY <1>9, <1>11, <1>12, <1>14, <1>15, <1>16, <1>17, <1>18, <1>19, <1>21
     DEF IInv

-----------------------------------------------------------------------------
(* The invariant, and what it gives.                                       *)

LEMMA InvInit == Init => IInv
<1> SUFFICES ASSUME Init PROVE IInv
  OBVIOUS
<1>1. NInv
  BY NumbersAssumption, PhoneIs
     DEF Init, NumbersInit, NInv, NumbersTypeOK, Account, ProvisionSteps,
         RequestInv, Busy, StoredIsOurs, Stored, CampaignOfOwner
<1>2. TypeOK
  BY <1>1, MeteringAssumption DEF Init, TypeOK, NInv, Steps
<1>3. \A c \in Calls : ~Known(c) /\ call[c].duration = -1
  BY DEF Init, Known, NoCall
<1>4. \A h \in Handlers : HandlerInv(h)
  BY DEF Init, HandlerInv, Holds
<1>5. OneHolder
  BY DEF Init, OneHolder, Holds
<1>6. \A c \in Calls : CallInv(c) /\ ~(call[c].duration > 0)
  BY <1>3 DEF CallInv
<1>7. \A h \in Handlers : LateInv(h)
  BY DEF Init, LateInv
<1> QED
  BY <1>1, <1>2, <1>4, <1>5, <1>6, <1>7 DEF IInv, Init

LEMMA InvStep == IInv /\ [Next]_vars => IInv'
<1> SUFFICES ASSUME IInv, [Next]_vars PROVE IInv'
  OBVIOUS
<1>1. CASE NumbersNext /\ UNCHANGED callVars
  BY <1>1, NumbersInvStep
<1>2. ASSUME NEW c \in Calls,
             \/ \E n \in Numbers : callArrives(c, n)
             \/ \E s \in CallStates : transition(c, s)
             \/ SecondPasses(c)
             \/ \E h \in Handlers : beginHangup(h, c) \/ saveRecording(h, c)
      PROVE  IInv'
  BY <1>2, CallArrivesStep, TransitionStep, SecondStep, BeginHangupStep,
     SaveRecordingStep
<1>3. ASSUME NEW h \in Handlers, Handle(h) PROVE IInv'
  BY <1>3, LockStep, RecordMinutesStep, CommitStep, RollbackStep,
     TimeOutStep, LateChargeStep, RecordingChargeStep DEF Handle
<1>4. CASE Restart
  BY <1>4, RestartStep
<1>5. CASE UNCHANGED vars
  <2>1. UNCHANGED callVars /\ UNCHANGED numberVars /\ UNCHANGED usage
    BY <1>5 DEF vars, callVars, numberVars
  <2>2. NInv'
    BY <2>1, NInvStays DEF IInv
  <2>3. TypeOK'
    BY <2>1, <2>2 DEF IInv, TypeOK, NInv, callVars
  <2>4. RowsKept /\ HandlersMove
    BY <2>1, CallIs
       DEF RowsKept, HandlersMove, HandlerMoves, IInv, callVars, numberVars, Stored
  <2> QED
    BY <2>2, <2>3, <2>4, RowsKeptStep
<1> QED
  BY <1>1, <1>2, <1>3, <1>4, <1>5 DEF Next

THEOREM Inductive == Spec => []IInv
BY InvInit, InvStep, PTL DEF Spec

\* The tables, the handlers and the requests keep their types.
THEOREM TypeCorrect == Spec => []TypeOK
<1>1. IInv => TypeOK
  BY DEF IInv
<1> QED
  BY <1>1, Inductive, PTL

\* What is stored is bought and bound to our connection
\* (TelnyxProvisioningService.provisionNumber).
THEOREM StoredIsOursHolds == Spec => []StoredIsOurs
<1>1. IInv => StoredIsOurs
  BY DEF IInv, NInv
<1> QED
  BY <1>1, Inductive, PTL

\* A number routes to a campaign of its own workspace
\* (CampaignsService.assignPhoneNumber).
THEOREM CampaignOfOwnerHolds == Spec => []CampaignOfOwner
<1>1. IInv => CampaignOfOwner
  BY DEF IInv, NInv
<1> QED
  BY <1>1, Inductive, PTL

\* Every usage record is of something its workspace owns
\* (UsageService.recordUsage and its callers).
THEOREM UsageIsTraceableHolds == Spec => []UsageIsTraceable
<1>1. IInv => UsageIsTraceable
  BY DEF IInv, Sourced, UsageIsTraceable
<1> QED
  BY <1>1, Inductive, PTL

\* A call that lasted was charged, and for what it lasted
\* (CallsService.handleCallerHangup).
THEOREM DurationIsChargedHolds == Spec => []DurationIsCharged
<1>1. IInv => DurationIsCharged
  <2> SUFFICES ASSUME IInv, NEW c \in Calls, call[c].duration > 0
               PROVE  \E u \in usage :
                         /\ u.type = "CALL_MINUTE" /\ u.source = c
                         /\ u.quantity <= Minutes(call[c].duration)
                         /\ c \notin rolledBack =>
                                u.quantity = Minutes(call[c].duration)
    BY DEF DurationIsCharged
  <2>1. PICK u \in usage : u.type = "CALL_MINUTE" /\ u.source = c
    BY DEF IInv, Charged, Charge
  <2>2. ChargeInv(u) /\ call[c].duration # -1
    BY DEF IInv
  <2>3. ASSUME NEW h \in Handlers, step[h] = "commit", of[h] = c
        PROVE  draft[h].duration = call[c].duration
    BY <2>2, <2>3 DEF IInv, HandlerInv, Holds
  <2> QED
    BY <2>1, <2>2, <2>3 DEF ChargeInv
<1> QED
  BY <1>1, Inductive, PTL

\* An event of a call's end says what its row says
\* (queueEvent in CallsService.handleCallerHangup).
THEOREM EventsAreTrueHolds == Spec => []EventsAreTrue
<1>1. IInv => EventsAreTrue
  BY DEF IInv, EventInv, EventsAreTrue
<1> QED
  BY <1>1, Inductive, PTL

\* A number stays its workspace's, and a released one released.
THEOREM OwnerKeptHolds == Spec => OwnerKept
<1>1. IInv /\ [Next]_vars =>
          [\A n \in Numbers :
              Stored(n) => /\ phone'[n].owner = phone[n].owner
                           /\ phone[n].status = "RELEASED" =>
                                  phone'[n].status = "RELEASED"]_numberVars
  <2> SUFFICES ASSUME IInv, [Next]_vars,
                      UNCHANGED phone \/ NumbersNext
               PROVE  \A n \in Numbers :
                         Stored(n) => /\ phone'[n].owner = phone[n].owner
                                      /\ phone[n].status = "RELEASED" =>
                                             phone'[n].status = "RELEASED"
    BY DEF Next, Handle, callArrives, transition, SecondPasses, beginHangup,
           saveRecording, lockCall, recordMinutes, commit, rollback,
           timeOut, recordMinutesLate, lateThrows, recordRecording, recordRecordingThrows, Restart, NumbersRestart,
           vars, numberVars
  <2> QED
    BY NumbersStep DEF IInv, NumbersKept
<1> QED
  BY <1>1, Inductive, PTL DEF Spec, OwnerKept

\* No charge is changed or taken back.
THEOREM ChargesStayHolds == Spec => ChargesStay
<1>1. IInv /\ [Next]_vars => [usage \subseteq usage']_vars
  <2> SUFFICES ASSUME IInv, [Next]_vars PROVE usage \subseteq usage'
    OBVIOUS
  <2>1. CASE NumbersNext
    BY <2>1, NumbersStep DEF IInv, NumbersKept
  <2>2. CASE UNCHANGED usage
    BY <2>2
  <2>3. CASE \E u : recordUsage(u)
    BY <2>3, RecordUsage
  <2>4. NumbersNext \/ UNCHANGED usage \/ \E u : recordUsage(u)
    BY DEF Next, Handle, callArrives, transition, SecondPasses, beginHangup,
           saveRecording, lockCall, recordMinutes, commit, rollback,
           timeOut, recordMinutesLate, lateThrows, recordRecording, recordRecordingThrows, Restart, vars
  <2> QED
    BY <2>1, <2>2, <2>3, <2>4
<1> QED
  BY <1>1, Inductive, PTL DEF Spec, ChargesStay
=============================================================================
