--------------------------- MODULE AccessProofs ---------------------------
(***************************************************************************)
(* Proofs of the safety properties of Access, for all users, workspaces,   *)
(* keys, campaigns, buyers and requests in flight.                         *)
(*                                                                         *)
(* RequestIsEntitled is not inductive: that a handler runs for an admitted *)
(* role rests on what each guard left in the request for the next one.     *)
(***************************************************************************)
EXTENDS Access, TLAPS

\* A request that came with a key goes on as its maker, in its workspace.
KeyInv(r) ==
    request[r].key # NULL =>
        /\ key[request[r].key].ws = request[r].ws
        /\ key[request[r].key].user = request[r].user

\* What a request is known to be at each of its steps.
GuardInv(r) ==
    LET q == request[r] IN
    /\ q.step \in {"apiKey", "roles", "handle"} => q.says \in SaysOf(q.op)
    /\ q.step \in {"apiKey", "roles"} =>
           q.op \notin Unguarded /\ q.ws \in Workspaces
    /\ q.step = "apiKey" => q.key \in Keys /\ key[q.key] # NoKey
    /\ q.step \in {"roles", "handle"} => q.user \in Users /\ KeyInv(r)
    /\ q.step = "handle" =>
           /\ q.op \notin Unguarded => q.ws \in Workspaces
           /\ q.role \in Admitted[Auth(r)][q.op]

IInv ==
    /\ AccessTypeOK
    /\ \A r \in Requests : GuardInv(r)
    /\ LinksStayInWorkspace

-----------------------------------------------------------------------------
(* The routes.                                                             *)

\* Every role and no role is known before a request is bound to a route.
LEMMA UnguardedAdmitted ==
    \A op \in Unguarded : op \in Ops /\ NULL \in Admitted["jwt"][op]
<1> SUFFICES ASSUME NEW op \in Unguarded
             PROVE  op \in Ops /\ NULL \in Admitted["jwt"][op]
  OBVIOUS
<1> DEFINE R == [auth |-> "jwt", op |-> op, roles |-> {NULL}]
<1>1. R \in WorkspacesController
  BY DEF WorkspacesController, Routes
<1>2. R \in AllRoutes
  BY <1>1 DEF AllRoutes
<1>3. op \in Ops
  BY <1>2 DEF Ops
<1>4. {NULL} \in {rt.roles : rt \in {s \in AllRoutes : s.auth = "jwt" /\ s.op = op}}
  BY <1>2
<1>5. NULL \in UNION {rt.roles : rt \in {s \in AllRoutes : s.auth = "jwt" /\ s.op = op}}
  BY <1>4
<1> QED
  BY <1>3, <1>5 DEF Admitted

\* The routes of every operation that writes rows of a workspace.
LEMMA WritersAreManagers ==
    \A auth \in {"jwt", "key"}, op \in Ops \cap Writes :
        Admitted[auth][op] \subseteq Managers
<1> USE DEF Routes, Writes, RowWrites, CampaignsService, BuyersService,
           BlockedCallersService, PhoneNumbersService, WebhooksService,
           WorkspacesService
<1>1. \A rt \in WorkspacesController \cup ApiKeysController \cup CampaignsController :
          rt.op \in Writes => rt.roles = Managers
  BY DEF WorkspacesController, ApiKeysController, CampaignsController, Unguarded
<1>2. \A rt \in BuyersController \cup BlockedCallersController \cup PhoneNumbersController :
          rt.op \in Writes => rt.roles = Managers
  BY DEF BuyersController, BlockedCallersController, PhoneNumbersController
<1>3. \A rt \in WebhooksController \cup BillingController \cup CallsController
                    \cup RecordingsController :
          rt.op \in Writes => rt.roles = Managers
  BY DEF WebhooksController, BillingController, CallsController,
         RecordingsController
<1>4. \A rt \in PublicWorkspacesController \cup PublicCampaignsController
                    \cup PublicBuyersController \cup PublicBlockedNumbersController :
          rt.op \in Writes => rt.roles = Managers
  BY DEF PublicWorkspacesController, PublicCampaignsController,
         PublicBuyersController, PublicBlockedNumbersController
<1>5. \A rt \in PublicPhoneNumbersController \cup PublicCallsController
                    \cup PublicRecordingsController \cup PublicBillingController
                    \cup PublicUsageController :
          rt.op \in Writes => rt.roles = Managers
  BY DEF PublicPhoneNumbersController, PublicCallsController,
         PublicRecordingsController, PublicBillingController,
         PublicUsageController
<1> HIDE DEF Routes, Writes
<1>6. \A rt \in AllRoutes : rt.op \in Writes => rt.roles = Managers
  BY <1>1, <1>2, <1>3, <1>4, <1>5 DEF AllRoutes
<1> QED
  BY <1>6 DEF Admitted

-----------------------------------------------------------------------------
(* The guards and the handlers.                                            *)

LEMMA FreeIs ==
    /\ Free.step = "free" /\ NoReply \in Reply
    /\ Free \notin Request
BY AccessAssumption DEF Free, Request, NoReply, NoRoles, Reply, Roles

\* The keys of the requests in flight stay what they were.
KeysKept ==
    \A k \in Keys :
        key[k] # NoKey =>
            key'[k] # NoKey /\ key'[k].ws = key[k].ws /\ key'[k].user = key[k].user

\* A request that is left alone keeps what is known of it.
LEMMA KeptRequest ==
    ASSUME IInv, KeysKept, NEW s \in Requests, request'[s] = request[s]
    PROVE  GuardInv(s)'
<1>1. request'[s] = request[s] /\ GuardInv(s)
  BY DEF IInv
<1>2. (Auth(s) = Auth(s)') /\ request[s] \in Request \cup {Free}
  BY <1>1 DEF Auth, IInv, AccessTypeOK
<1>3. ASSUME request[s].step \in {"roles", "handle"} PROVE KeyInv(s)'
  <2>1. request[s] \in Request
    BY <1>2, <1>3, FreeIs
  <2>2. request[s].key \in Keys \cup {NULL} /\ request[s].user \in Users
    BY <1>1, <1>3, <2>1 DEF Request, GuardInv
  <2>3. KeyInv(s)
    BY <1>1, <1>3 DEF GuardInv
  <2>4. ASSUME request[s].key # NULL
        PROVE  key[request[s].key] # NoKey
    BY <2>2, <2>3, <2>4, AccessAssumption DEF KeyInv, NoKey
  <2> QED
    BY <1>1, <2>2, <2>3, <2>4 DEF KeyInv, KeysKept
<1>4. request[s].step = "apiKey" => key'[request[s].key] # NoKey
  BY <1>1 DEF GuardInv, KeysKept
<1> QED
  BY <1>1, <1>2, <1>3, <1>4 DEF GuardInv

\* What one request does leaves the invariant of the others alone.
LEMMA OtherRequests ==
    ASSUME IInv, NEW r \in Requests, KeysKept,
           \A s \in Requests : s # r => request'[s] = request[s]
    PROVE  \A s \in Requests : s # r => GuardInv(s)'
BY KeptRequest

\* An answer ends what there is to know of a request.
LEMMA AnsweredInv ==
    ASSUME IInv, NEW r \in Requests, NEW reply \in Reply,
           request[r] \in Request, Answer(r, reply)
    PROVE  /\ request' \in [Requests -> Request \cup {Free}]
           /\ request'[r].step = "answered"
           /\ GuardInv(r)'
           /\ \A s \in Requests : s # r => request'[s] = request[s]
<1>1. request \in [Requests -> Request \cup {Free}]
  BY DEF IInv, AccessTypeOK
<1>2. request'[r] = [request[r] EXCEPT !.step = "answered", !.reply = reply]
  BY <1>1 DEF Answer
<1>3. request'[r] \in Request /\ request'[r].step = "answered"
  BY <1>2 DEF Request
<1>4. GuardInv(r)'
  BY <1>3 DEF GuardInv
<1> QED
  BY <1>1, <1>3, <1>4 DEF Answer

LEMMA RefuseStep ==
    ASSUME IInv, NEW r \in Requests, request[r] \in Request, Refuse(r)
    PROVE  IInv'
<1>1. Answer(r, NoReply) /\ UNCHANGED tables
  BY DEF Refuse
<1>2. KeysKept
  BY <1>1 DEF KeysKept, tables
<1>3. \A s \in Requests : GuardInv(s)'
  BY <1>1, <1>2, FreeIs, AnsweredInv, OtherRequests
<1>4. AccessTypeOK'
  BY <1>1, FreeIs, AnsweredInv DEF IInv, AccessTypeOK, tables
<1> QED
  BY <1>1, <1>3, <1>4 DEF IInv, LinksStayInWorkspace, tables

\* Nothing changes but one request, which is what GuardInv says of it.
LEMMA RequestStep ==
    ASSUME IInv, NEW r \in Requests, NEW q \in Request \cup {Free},
           request' = [request EXCEPT ![r] = q], UNCHANGED tables, GuardInv(r)'
    PROVE  IInv'
<1>1. request' \in [Requests -> Request \cup {Free}]
      /\ \A s \in Requests : s # r => request'[s] = request[s]
  BY DEF IInv, AccessTypeOK
<1>2. KeysKept
  BY DEF KeysKept, tables
<1>3. \A s \in Requests : GuardInv(s)'
  BY <1>1, <1>2, OtherRequests
<1>4. AccessTypeOK' /\ LinksStayInWorkspace'
  BY <1>1 DEF IInv, AccessTypeOK, LinksStayInWorkspace, tables
<1> QED
  BY <1>3, <1>4 DEF IInv

LEMMA SaysAre == \A op : SaysOf(op) \subseteq Says
BY DEF SaysOf, Says

\* What a user asks for.
LEMMA AskIs ==
    ASSUME NEW r \in Requests, NEW u \in Users,
           NEW w \in Workspaces \cup {NULL}, NEW op \in Ops, NEW says \in SaysOf(op),
           op \in Unguarded <=> w = NULL, request'[r] = FromUser(u, w, op, says)
    PROVE  /\ request'[r] \in Request /\ GuardInv(r)'
           /\ request'[r].op = op /\ request'[r].ws = w
           /\ request'[r].step \in {"handle", "roles"}
<1> DEFINE q == FromUser(u, w, op, says)
<1>1. says \in Says
  BY SaysAre
<1>2. q \in Request
  BY <1>1, FreeIs DEF FromUser, Free, Request
<1>3. q.user = u /\ q.key = NULL /\ q.op = op /\ q.ws = w /\ q.says = says
      /\ q.role = NULL /\ q.step = (IF op \in Unguarded THEN "handle" ELSE "roles")
  BY DEF FromUser, Free
<1>4. says \in SaysOf(op) /\ (op \notin Unguarded => w \in Workspaces)
  OBVIOUS
<1>5. op \in Unguarded => NULL \in Admitted["jwt"][op]
  BY UnguardedAdmitted
<1>6. request'[r] = q
  OBVIOUS
<1> HIDE DEF q
<1>7. Auth(r)' = "jwt" /\ KeyInv(r)'
  BY <1>3, <1>6 DEF Auth, KeyInv
<1> QED
  BY <1>2, <1>3, <1>4, <1>5, <1>6, <1>7 DEF GuardInv

\* Some requests are asked at once.
LEMMA AskStep ==
    ASSUME IInv, UNCHANGED tables,
           request' \in [Requests -> Request \cup {Free}],
           \A r \in Requests : request'[r] = request[r] \/ GuardInv(r)'
    PROVE  IInv'
<1>1. KeysKept
  BY DEF KeysKept, tables
<1>2. \A s \in Requests : GuardInv(s)'
  BY <1>1, KeptRequest
<1>3. AccessTypeOK' /\ LinksStayInWorkspace'
  BY DEF IInv, AccessTypeOK, LinksStayInWorkspace, tables
<1> QED
  BY <1>2, <1>3 DEF IInv

LEMMA JwtRequestStep ==
    ASSUME IInv, NEW r \in Requests, NEW u \in Users,
           NEW w \in Workspaces \cup {NULL}, NEW op \in Ops, NEW says \in Says,
           jwtRequest(r, u, w, op, says)
    PROVE  IInv'
<1> DEFINE q == FromUser(u, w, op, says)
<1>1. request' = [request EXCEPT ![r] = q] /\ UNCHANGED tables
  BY DEF jwtRequest
<1>2. request'[r] = FromUser(u, w, op, says)
  BY <1>1 DEF IInv, AccessTypeOK
<1>3. request'[r] \in Request /\ GuardInv(r)'
  BY <1>2, AskIs DEF jwtRequest
<1>4. q \in Request
  BY <1>2, <1>3
<1> HIDE DEF q
<1> QED
  BY <1>1, <1>3, <1>4, RequestStep

LEMMA KeyRequestStep ==
    ASSUME IInv, NEW r \in Requests, NEW k \in Keys,
           NEW w \in Workspaces, NEW op \in Ops, NEW says \in Says,
           keyRequest(r, k, w, op, says)
    PROVE  IInv'
<1> DEFINE q == [Free EXCEPT !.step = "apiKey", !.op = op, !.ws = w, !.key = k,
                             !.says = says]
<1>1. q \in Request
  BY FreeIs DEF Free, Request
<1>2. request' = [request EXCEPT ![r] = q] /\ UNCHANGED tables
  BY DEF keyRequest
<1>3. request'[r] = q
  BY <1>2 DEF IInv, AccessTypeOK
<1>4. q.key = k /\ q.op = op /\ q.ws = w /\ q.says = says /\ q.step = "apiKey"
  BY DEF Free
<1>5. says \in SaysOf(op) /\ op \notin Unguarded /\ key'[k] # NoKey
  BY DEF keyRequest, tables
<1> HIDE DEF q
<1>6. GuardInv(r)'
  BY <1>3, <1>4, <1>5 DEF GuardInv
<1> QED
  BY <1>1, <1>2, <1>6, RequestStep

LEMMA ApiKeyAuthGuardStep ==
    ASSUME IInv, NEW r \in Requests, ApiKeyAuthGuard(r)
    PROVE  IInv'
<1>1. request[r] \in Request /\ GuardInv(r) /\ request[r].step = "apiKey"
  BY FreeIs DEF IInv, AccessTypeOK, ApiKeyAuthGuard
<1>2. CASE Refuse(r)
  BY <1>1, <1>2, RefuseStep
<1>3. CASE key[request[r].key].ws = request[r].ws /\ AsKeyUser(r)
  <2> DEFINE k == request[r].key
             q == [request[r] EXCEPT !.step = "roles", !.user = key[k].user]
  <2>1. k \in Keys /\ key[k] \in KeyRow
    BY <1>1 DEF GuardInv, IInv, AccessTypeOK
  <2>2. q \in Request
    BY <1>1, <2>1 DEF Request, KeyRow
  <2>3. request' = [request EXCEPT ![r] = q] /\ UNCHANGED tables
    BY <1>3 DEF AsKeyUser, IInv, AccessTypeOK
  <2>4. request'[r] = q
    BY <2>3 DEF IInv, AccessTypeOK
  <2>5. q.step = "roles" /\ q.user = key[k].user /\ q.key = k
        /\ q.ws = request[r].ws /\ q.op = request[r].op /\ q.says = request[r].says
    BY <1>1 DEF Request
  <2>6. q.user \in Users
    BY <2>1, <2>5 DEF KeyRow
  <2> HIDE DEF q
  <2>7. KeyInv(r)'
    BY <1>3, <2>3, <2>4, <2>5 DEF KeyInv, tables
  <2>8. GuardInv(r)'
    BY <1>1, <2>4, <2>5, <2>6, <2>7 DEF GuardInv
  <2> QED
    BY <2>2, <2>3, <2>8, RequestStep
<1> QED
  BY <1>2, <1>3 DEF ApiKeyAuthGuard

LEMMA WorkspaceRolesGuardStep ==
    ASSUME IInv, NEW r \in Requests, WorkspaceRolesGuard(r)
    PROVE  IInv'
<1>1. request[r] \in Request /\ GuardInv(r) /\ request[r].step = "roles"
  BY FreeIs DEF IInv, AccessTypeOK, WorkspaceRolesGuard
<1>2. CASE Refuse(r)
  BY <1>1, <1>2, RefuseStep
<1>3. CASE validateWorkspaceAccess(r) /\ ~Refuse(r)
  <2> DEFINE as == role[request[r].ws][request[r].user]
             q == [request[r] EXCEPT !.step = "handle", !.role = as]
  <2>1. request' = [request EXCEPT ![r] = q] /\ UNCHANGED tables
    BY <1>3 DEF WorkspaceRolesGuard, getUserWorkspaceRole, IInv, AccessTypeOK
  <2>2. as \in Role \cup {NULL}
    BY <1>1 DEF GuardInv, IInv, AccessTypeOK
  <2>3. as \in Admitted[Auth(r)][request[r].op]
    BY <1>3 DEF validateWorkspaceAccess, getUserWorkspaceRole
  <2> HIDE DEF as
  <2>4. q \in Request
    BY <1>1, <2>2 DEF Request
  <2>5. request'[r] = q
    BY <2>1 DEF IInv, AccessTypeOK
  <2>6. /\ q.step = "handle" /\ q.role = as /\ q.user = request[r].user
        /\ q.key = request[r].key /\ q.ws = request[r].ws
        /\ q.op = request[r].op /\ q.says = request[r].says
    BY <1>1 DEF Request
  <2> HIDE DEF q
  <2>7. KeyInv(r)' /\ Auth(r)' = Auth(r)
    BY <1>1, <2>1, <2>5, <2>6 DEF GuardInv, KeyInv, Auth, tables
  <2>8. GuardInv(r)'
    BY <1>1, <2>3, <2>5, <2>6, <2>7 DEF GuardInv
  <2> QED
    BY <2>1, <2>4, <2>8, RequestStep
<1> QED
  BY <1>2, <1>3 DEF WorkspaceRolesGuard

LEMMA ReceiveStep ==
    ASSUME IInv, NEW r \in Requests, Receive(r)
    PROVE  IInv'
<1>1. request'[r] = Free
  BY DEF Receive, IInv, AccessTypeOK
<1>2. GuardInv(r)'
  BY <1>1, FreeIs DEF GuardInv
<1> QED
  BY <1>2, RequestStep DEF Receive

\* What a request that is being handled brings.
Handling(r) ==
    /\ request[r] \in Request /\ GuardInv(r)
    /\ request[r].step = "handle"

\* A handler changes rows of its own and answers.
LEMMA HandlerStep ==
    ASSUME IInv, NEW r \in Requests, Handling(r), NEW reply \in Reply,
           Answer(r, reply), KeysKept, LinksStayInWorkspace',
           workspaces' \subseteq Workspaces,
           role' \in [Workspaces -> [Users -> Role \cup {NULL}]],
           key' \in [Keys -> KeyRow \cup {NoKey}],
           campaignBuyers' \subseteq CampaignBuyer,
           saved' \in [Workspaces -> [Lists -> 0..MaxSaves]]
    PROVE  IInv'
<1>1. \A s \in Requests : GuardInv(s)'
  BY AnsweredInv, OtherRequests DEF Handling
<1>2. request' \in [Requests -> Request \cup {Free}]
  BY AnsweredInv DEF Handling
<1> QED
  BY <1>1, <1>2 DEF IInv, AccessTypeOK

LEMMA DoneReply ==
    ASSUME NEW r, NEW n \in 0..MaxSaves, Done(r, n)
    PROVE  \E reply \in Reply : Answer(r, reply)
<1>1. [NoReply EXCEPT !.ok = TRUE, !.count = n] \in Reply
  BY FreeIs DEF Reply
<1> QED
  BY <1>1 DEF Done

LEMMA ShownIsList == \A op \in Writes : ShownBy[op] \in Lists
BY DEF ShownBy, Lists

\* A write counts in a list of the workspace of its URL, and in no other.
LEMMA SaveStep ==
    ASSUME IInv, NEW r \in Requests, Handling(r), Save(r),
           request[r].op \in Writes
    PROVE  /\ request[r].ws \in Workspaces
           /\ saved' \in [Workspaces -> [Lists -> 0..MaxSaves]]
           /\ \A w \in Workspaces : w # request[r].ws => saved'[w] = saved[w]
           /\ \E reply \in Reply : Answer(r, reply)
<1> DEFINE w == request[r].ws
           l == ShownBy[request[r].op]
<1>1. w \in Workspaces
  BY DEF Handling, GuardInv, Writes, Unguarded, RowWrites, CampaignsService,
         BuyersService, BlockedCallersService, PhoneNumbersService,
         WebhooksService, WorkspacesService
<1>2. l \in Lists
  BY ShownIsList
<1> HIDE DEF w, l
<1>3. /\ saved[w][l] < MaxSaves
      /\ saved' = [saved EXCEPT ![w][l] = @ + 1]
      /\ Done(r, saved[w][l] + 1)
  BY DEF Save, w, l
<1>4. saved \in [Workspaces -> [Lists -> 0..MaxSaves]] /\ saved[w][l] \in 0..MaxSaves
  BY <1>1, <1>2 DEF IInv, AccessTypeOK
<1>5. saved[w][l] + 1 \in 0..MaxSaves
  BY <1>3, <1>4, AccessAssumption
<1>6. \E reply \in Reply : Answer(r, reply)
  BY <1>3, <1>5, DoneReply
<1> QED
  BY <1>1, <1>3, <1>4, <1>5, <1>6 DEF w

\* What a write does to workspaces other than its own, when its role manages.
LEMMA WriterManages ==
    ASSUME IInv, NEW r \in Requests, Handling(r), request[r].op \in Writes,
           NEW reply \in Reply, Answer(r, reply)
    PROVE  ManagersAct(request[r].ws)
<1>1. Auth(r) \in {"jwt", "key"}
  BY DEF Auth
<1>2. request[r].op \in Ops \cap Writes
  BY DEF Handling, Request
<1>3. request[r].role \in Managers
  BY <1>1, <1>2, WritersAreManagers DEF Handling, GuardInv
<1> QED
  BY <1>3, AnsweredInv DEF Handling, ManagersAct

-----------------------------------------------------------------------------
(* Each handler keeps the invariant, and leaves alone every workspace that *)
(* is not a manager's to change.                                           *)

Entitled == \A w \in Workspaces : Untouched(w) \/ ManagersAct(w)

LEMMA TablesUntouched == ASSUME UNCHANGED tables PROVE Entitled
BY DEF tables, Entitled, Untouched

LEMMA RefusalStep ==
    ASSUME IInv, NEW r \in Requests, Handling(r), handlerThrows(r)
    PROVE  IInv' /\ Entitled
BY RefuseStep, TablesUntouched DEF handlerThrows, Handling, Refuse

LEMMA NamesDiffer ==
    /\ NULL \notin Role
    /\ NoKey.ws \notin Workspaces /\ NoKey \notin KeyRow
BY AccessAssumption DEF NULL, Role, NoKey, KeyRow

LEMMA CreateWorkspaceStep ==
    ASSUME IInv, NEW r \in Requests, Handling(r), createWorkspace(r)
    PROVE  IInv' /\ Entitled
<1>1. PICK w \in Workspaces \ workspaces :
          /\ workspaces' = workspaces \cup {w}
          /\ role' = [role EXCEPT ![w][request[r].user] = "OWNER"]
  BY DEF createWorkspace
<1>2. UNCHANGED <<key, campaignBuyers, saved>> /\ Done(r, 0)
  BY DEF createWorkspace
<1>3. role' \in [Workspaces -> [Users -> Role \cup {NULL}]]
  BY <1>1 DEF IInv, AccessTypeOK, Role
<1>4. \A v \in Workspaces, u \in Users : role'[v][u] = NULL => role[v][u] = NULL
  <2>1. "OWNER" # NULL
    BY DEF NULL
  <2> QED
    BY <1>1, <2>1 DEF IInv, AccessTypeOK
<1>5. PICK reply \in Reply : Answer(r, reply)
  BY <1>2, DoneReply, AccessAssumption
<1>6. KeysKept /\ LinksStayInWorkspace' /\ workspaces' \subseteq Workspaces
  BY <1>1, <1>2 DEF KeysKept, IInv, AccessTypeOK, LinksStayInWorkspace
<1>7. IInv'
  BY <1>2, <1>3, <1>5, <1>6, HandlerStep DEF IInv, AccessTypeOK
<1> QED
  BY <1>2, <1>4, <1>7 DEF Entitled, Untouched

LEMMA ReadStep ==
    ASSUME IInv, NEW r \in Requests, Handling(r),
           getUserWorkspaces(r) \/ readRows(r)
    PROVE  IInv' /\ Entitled
<1>1. UNCHANGED tables
  BY DEF getUserWorkspaces, readRows
<1>2. \E reply \in Reply : Answer(r, reply)
  <2>1. CASE getUserWorkspaces(r)
    <3> DEFINE roles == [w \in Workspaces |-> role[w][request[r].user]]
    <3>1. roles \in Roles
      <4>1. request[r].user \in Users
        BY DEF Handling, GuardInv
      <4> QED
        BY <4>1 DEF IInv, AccessTypeOK, Roles
    <3> HIDE DEF roles
    <3>2. [NoReply EXCEPT !.ok = TRUE, !.roles = roles] \in Reply
      BY <3>1, FreeIs DEF Reply
    <3>3. Answer(r, [NoReply EXCEPT !.ok = TRUE, !.roles = roles])
      BY <2>1 DEF getUserWorkspaces, roles
    <3> QED
      BY <3>2, <3>3
  <2>2. CASE readRows(r)
    <3> DEFINE q == request[r]
               n == IF q.op \in Lists THEN saved[q.ws][q.op] ELSE 0
    <3>1. q.ws \in Workspaces
      BY <2>2 DEF readRows, Handling, GuardInv
    <3>2. n \in 0..MaxSaves
      BY <3>1, AccessAssumption DEF IInv, AccessTypeOK
    <3>3. Done(r, n)
      BY <2>2 DEF readRows
    <3> HIDE DEF n
    <3> QED
      BY <3>2, <3>3, DoneReply
  <2> QED
    BY <2>1, <2>2
<1>3. KeysKept /\ LinksStayInWorkspace' /\ AccessTypeOK
  BY <1>1 DEF KeysKept, IInv, LinksStayInWorkspace, tables
<1>4. IInv'
  BY <1>1, <1>2, <1>3, HandlerStep DEF AccessTypeOK, tables
<1> QED
  BY <1>1, <1>4, TablesUntouched

LEMMA WriteRowStep ==
    ASSUME IInv, NEW r \in Requests, Handling(r), writeRow(r)
    PROVE  IInv' /\ Entitled
<1>1. /\ request[r].op \in Writes /\ Save(r)
      /\ UNCHANGED <<workspaces, role, key, campaignBuyers>>
  BY DEF writeRow, Writes
<1>2. PICK reply \in Reply : Answer(r, reply)
  BY <1>1, SaveStep
<1>3. KeysKept /\ LinksStayInWorkspace' /\ AccessTypeOK
  BY <1>1 DEF KeysKept, IInv, LinksStayInWorkspace
<1>4. IInv'
  BY <1>1, <1>2, <1>3, SaveStep, HandlerStep DEF AccessTypeOK
<1>5. \A w \in Workspaces : w # request[r].ws => Untouched(w)
  BY <1>1, SaveStep DEF Untouched
<1> QED
  BY <1>1, <1>2, <1>4, <1>5, WriterManages DEF Entitled

LEMMA RemoveMemberStep ==
    ASSUME IInv, NEW r \in Requests, Handling(r), removeMember(r)
    PROVE  IInv' /\ Entitled
<1> DEFINE u == request[r].says[1]
<1>1. /\ request[r].op \in Writes /\ Save(r)
      /\ role' = [role EXCEPT ![request[r].ws][u] = NULL]
      /\ UNCHANGED <<workspaces, key, campaignBuyers>>
  BY DEF removeMember, Writes
<1>2. PICK reply \in Reply : Answer(r, reply)
  BY <1>1, SaveStep
<1>3. KeysKept /\ LinksStayInWorkspace' /\ AccessTypeOK
  BY <1>1 DEF KeysKept, IInv, LinksStayInWorkspace
<1> HIDE DEF u
<1>4. /\ role' \in [Workspaces -> [Users -> Role \cup {NULL}]]
      /\ \A w \in Workspaces : w # request[r].ws => role'[w] = role[w]
  BY <1>1, <1>3, SaveStep DEF AccessTypeOK
<1>5. IInv'
  BY <1>1, <1>2, <1>3, <1>4, SaveStep, HandlerStep DEF AccessTypeOK
<1>6. \A w \in Workspaces : w # request[r].ws => Untouched(w)
  BY <1>1, <1>4, SaveStep DEF Untouched
<1> QED
  BY <1>1, <1>2, <1>5, <1>6, WriterManages DEF Entitled

LEMMA CreateApiKeyStep ==
    ASSUME IInv, NEW r \in Requests, Handling(r), createApiKey(r)
    PROVE  IInv' /\ Entitled
<1>1. /\ request[r].op \in Writes /\ Save(r)
      /\ UNCHANGED <<workspaces, role, campaignBuyers>>
  BY DEF createApiKey, Writes
<1>2. PICK reply \in Reply : Answer(r, reply)
  BY <1>1, SaveStep
<1>3. LinksStayInWorkspace' /\ AccessTypeOK
  BY <1>1 DEF IInv, LinksStayInWorkspace
<1> DEFINE row == [ws |-> request[r].ws, user |-> request[r].user,
                   revoked |-> FALSE]
<1>4. row \in KeyRow
  BY <1>1, SaveStep DEF KeyRow, Handling, GuardInv
<1>5. PICK k \in Keys : key[k] = NoKey /\ key' = [key EXCEPT ![k] = row]
  BY DEF createApiKey
<1>6. row.ws = request[r].ws
  OBVIOUS
<1> HIDE DEF row
<1>7. key' \in [Keys -> KeyRow \cup {NoKey}] /\ KeysKept
  BY <1>3, <1>4, <1>5 DEF AccessTypeOK, KeysKept
<1>8. IInv'
  BY <1>1, <1>2, <1>3, <1>7, SaveStep, HandlerStep DEF AccessTypeOK
<1>9. \A w \in Workspaces : w # request[r].ws => Untouched(w)
  BY <1>1, <1>3, <1>5, <1>6, SaveStep, NamesDiffer DEF Untouched, AccessTypeOK
<1> QED
  BY <1>1, <1>2, <1>8, <1>9, WriterManages DEF Entitled

LEMMA RevokeApiKeyStep ==
    ASSUME IInv, NEW r \in Requests, Handling(r), revokeApiKey(r)
    PROVE  IInv' /\ Entitled
<1>1. /\ request[r].op \in Writes /\ Save(r)
      /\ UNCHANGED <<workspaces, role, campaignBuyers>>
  BY DEF revokeApiKey, Writes
<1>2. PICK reply \in Reply : Answer(r, reply)
  BY <1>1, SaveStep
<1>3. LinksStayInWorkspace' /\ AccessTypeOK
  BY <1>1 DEF IInv, LinksStayInWorkspace
<1> DEFINE k == request[r].says[1]
<1>4. k \in Keys /\ key[k].ws = request[r].ws
  BY DEF revokeApiKey, Handling, GuardInv, SaysOf
<1>5. key' = [key EXCEPT ![k] = [key[k] EXCEPT !.revoked = TRUE]]
  BY <1>3, <1>4 DEF revokeApiKey, AccessTypeOK
<1>6. key[k] \in KeyRow
  BY <1>1, <1>3, <1>4, SaveStep, NamesDiffer DEF AccessTypeOK
<1> HIDE DEF k
<1> DEFINE row == [key[k] EXCEPT !.revoked = TRUE]
<1>7. row \in KeyRow /\ row.ws = key[k].ws /\ row.user = key[k].user
  BY <1>6 DEF KeyRow
<1> HIDE DEF row
<1>8. key' = [key EXCEPT ![k] = row]
  BY <1>5 DEF row
<1>9. key' \in [Keys -> KeyRow \cup {NoKey}] /\ KeysKept
  BY <1>3, <1>4, <1>7, <1>8, NamesDiffer DEF AccessTypeOK, KeysKept
<1>10. IInv'
  BY <1>1, <1>2, <1>3, <1>9, SaveStep, HandlerStep DEF AccessTypeOK
<1>11. \A w \in Workspaces : w # request[r].ws => Untouched(w)
  BY <1>1, <1>3, <1>4, <1>7, <1>8, SaveStep DEF Untouched, AccessTypeOK
<1> QED
  BY <1>1, <1>2, <1>10, <1>11, WriterManages DEF Entitled

LEMMA AddBuyerStep ==
    ASSUME IInv, NEW r \in Requests, Handling(r), addBuyerToCampaign(r)
    PROVE  IInv' /\ Entitled
<1> DEFINE b == CampaignBuyerOf(r)
<1>1. /\ request[r].op \in Writes /\ Save(r)
      /\ UNCHANGED <<workspaces, role, key>>
      /\ campaignBuyers' = campaignBuyers \cup {b}
      /\ Owner[b.campaign] = request[r].ws /\ Owner[b.buyer] = request[r].ws
  BY DEF addBuyerToCampaign, Writes
<1>2. PICK reply \in Reply : Answer(r, reply)
  BY <1>1, SaveStep
<1>3. b \in CampaignBuyer
  <2>1. request[r].says \in Campaigns \X Buyers \X Priorities
    BY DEF addBuyerToCampaign, Handling, GuardInv, SaysOf
  <2> QED
    BY <2>1 DEF CampaignBuyerOf, CampaignBuyer
<1> HIDE DEF b
<1>4. LinksStayInWorkspace' /\ KeysKept /\ campaignBuyers' \subseteq CampaignBuyer
  BY <1>1, <1>3 DEF IInv, AccessTypeOK, LinksStayInWorkspace, KeysKept
<1>5. IInv'
  BY <1>1, <1>2, <1>4, SaveStep, HandlerStep DEF IInv, AccessTypeOK
<1>6. \A w \in Workspaces : w # request[r].ws => Untouched(w)
  BY <1>1, SaveStep DEF Untouched
<1> QED
  BY <1>1, <1>2, <1>5, <1>6, WriterManages DEF Entitled

-----------------------------------------------------------------------------
(* The invariant, and what it gives.                                       *)

LEMMA HandleStep ==
    ASSUME IInv, NEW r \in Requests, Handle(r)
    PROVE  IInv' /\ Entitled
<1>1. Handling(r)
  BY FreeIs DEF Handle, Handling, IInv, AccessTypeOK
<1> QED
  BY <1>1, CreateWorkspaceStep, ReadStep, RemoveMemberStep, CreateApiKeyStep,
     RevokeApiKeyStep, AddBuyerStep, WriteRowStep, RefusalStep DEF Handle

\* What the guards and the clients do changes no row.
LEMMA GuardStep ==
    ASSUME IInv, NEW r \in Requests,
           ClientRequests(r) \/ ApiKeyAuthGuard(r) \/ WorkspaceRolesGuard(r)
               \/ Receive(r)
    PROVE  IInv' /\ Entitled
<1>1. IInv'
  <2>1. CASE ClientRequests(r)
    <3>1. PICK op \in Ops, w \in Workspaces \cup {NULL}, says \in Says :
              \/ \E u \in Users : jwtRequest(r, u, w, op, says)
              \/ w # NULL /\ \E k \in Keys : keyRequest(r, k, w, op, says)
      BY <2>1 DEF ClientRequests
    <3> QED
      BY <3>1, JwtRequestStep, KeyRequestStep
  <2> QED
    BY <2>1, ApiKeyAuthGuardStep, WorkspaceRolesGuardStep, ReceiveStep
<1>2. UNCHANGED tables
  BY DEF ClientRequests, jwtRequest, keyRequest, ApiKeyAuthGuard, AsKeyUser,
         WorkspaceRolesGuard, Refuse, Receive
<1> QED
  BY <1>1, <1>2, TablesUntouched

LEMMA MembershipStep ==
    ASSUME IInv, NEW w \in Workspaces, NEW u \in Users, NEW as \in Role,
           MembershipChanges(w, u, as)
    PROVE  IInv' /\ Entitled
<1>1. /\ role' = [role EXCEPT ![w][u] = as]
      /\ UNCHANGED <<workspaces, key, campaignBuyers, saved, request>>
  BY DEF MembershipChanges
<1>2. role' \in [Workspaces -> [Users -> Role \cup {NULL}]]
  BY <1>1 DEF IInv, AccessTypeOK
<1>3. \A s \in Requests : GuardInv(s)'
  BY <1>1 DEF IInv, GuardInv, KeyInv, Auth
<1>4. \A v \in Workspaces, x \in Users : role'[v][x] = NULL => role[v][x] = NULL
  BY <1>1, NamesDiffer DEF IInv, AccessTypeOK
<1> QED
  BY <1>1, <1>2, <1>3, <1>4
     DEF IInv, AccessTypeOK, LinksStayInWorkspace, Entitled, Untouched

LEMMA InvInit == AccessInit => IInv
<1> SUFFICES ASSUME AccessInit PROVE IInv
  OBVIOUS
<1>1. AccessTypeOK
  BY AccessAssumption DEF AccessInit, AccessTypeOK
<1>2. \A r \in Requests : GuardInv(r)
  BY FreeIs DEF AccessInit, GuardInv
<1> QED
  BY <1>1, <1>2 DEF IInv, AccessInit, LinksStayInWorkspace

LEMMA InvStep == IInv /\ [AccessNext]_accessVars => IInv' /\ (Entitled \/ UNCHANGED accessVars)
<1> SUFFICES ASSUME IInv, [AccessNext]_accessVars
             PROVE  IInv' /\ (Entitled \/ UNCHANGED accessVars)
  OBVIOUS
<1>1. ASSUME NEW r \in Requests, ClientRequests(r) \/ Serve(r) \/ Receive(r)
      PROVE  IInv' /\ Entitled
  BY <1>1, GuardStep, HandleStep DEF Serve
<1>2. ASSUME NEW w \in Workspaces, NEW u \in Users, NEW as \in Role,
             MembershipChanges(w, u, as)
      PROVE  IInv' /\ Entitled
  BY <1>2, MembershipStep
<1>3. CASE UNCHANGED accessVars
  BY <1>3 DEF accessVars, IInv, AccessTypeOK, GuardInv, KeyInv, Auth,
              LinksStayInWorkspace
<1> QED
  BY <1>1, <1>2, <1>3 DEF AccessNext

THEOREM Inductive == AccessSpec => []IInv
BY InvInit, InvStep, PTL DEF AccessSpec

\* Requests, keys, members and rows keep their types.
THEOREM TypeCorrect == AccessSpec => []AccessTypeOK
<1>1. IInv => AccessTypeOK
  BY DEF IInv
<1> QED
  BY <1>1, Inductive, PTL

\* A handler runs for an admitted role and, behind a key, as the key's maker
\* in the key's workspace (ApiKeyAuthGuard, WorkspaceRolesGuard).
THEOREM RequestIsEntitledHolds == AccessSpec => []RequestIsEntitled
<1>1. IInv => RequestIsEntitled
  BY DEF IInv, GuardInv, KeyInv, RequestIsEntitled
<1> QED
  BY <1>1, Inductive, PTL

\* A campaign's buyers are of the campaign's workspace
\* (CampaignsService.addBuyerToCampaign).
THEOREM LinksStayInWorkspaceHolds == AccessSpec => []LinksStayInWorkspace
<1>1. IInv => LinksStayInWorkspace
  BY DEF IInv
<1> QED
  BY <1>1, Inductive, PTL

\* Only a manager's request for a workspace changes what belongs to it
\* (the routes' roles and the services that write).
THEOREM ChangesAreEntitledHolds == AccessSpec => ChangesAreEntitled
<1>1. IInv /\ [AccessNext]_accessVars
          => [\A w \in Workspaces : Untouched(w) \/ ManagersAct(w)]_accessVars
  BY InvStep DEF Entitled
<1> QED
  BY <1>1, Inductive, PTL DEF AccessSpec, ChangesAreEntitled
=============================================================================
