-------------------------- MODULE DashboardProofs --------------------------
(***************************************************************************)
(* Proofs about the pages, for every number of users, workspaces, requests *)
(* in flight and asynchronous functions of a page: whatever the pages ask, *)
(* the API's promises hold; and when nothing is loaded any more, what is   *)
(* shown is of the selected workspace and has this browser's writes in it. *)
(*                                                                         *)
(* PageIsCurrent says nothing while tasks run.  What makes it inductive is *)
(* Converges: rows of another workspace are replaced by a load of the      *)
(* selected one that ends after theirs, and a list that is not loaded any  *)
(* more is current.                                                        *)
(***************************************************************************)
EXTENDS Dashboard, AccessProofs, SequenceTheorems

-----------------------------------------------------------------------------
(* The web application.                                                    *)

Answers == [op : Ops, reply : Reply]

TaskRecord ==
    [for : Writes \cup {"load"}, writing : BOOLEAN, ws : Workspaces,
     says : Says, todo : Seq(SUBSET Ops), waits : SUBSET Requests,
     got : SUBSET Answers]

\* The operations of the stage a task is at, and all it has left.
OpsNow(t) == {request[r].op : r \in t.waits} \cup {g.op : g \in t.got}
OpsLeft(t) == OpsNow(t) \cup UNION ToSet(t.todo)

\* What a task asks for is what its page lets it ask, and its requests are
\* its own.
TaskInv(t) ==
    /\ \A op \in OpsLeft(t) : t.says \in SaysOf(op)
    /\ IF t.writing THEN t.for \in page.writes /\ OpsLeft(t) \subseteq {t.for}
       ELSE OpsLeft(t) \subseteq OpsOf(page)
    /\ t.waits = {} => t.got = {}
    /\ \A r \in t.waits :
          /\ request[r] # Free
          /\ request[r].ws = IF request[r].op \in Unguarded THEN NULL ELSE t.ws

TasksInv ==
    /\ tasks \in Seq(TaskRecord) /\ Len(tasks) <= MaxTasks
    /\ \A i \in 1..Len(tasks) : TaskInv(tasks[i])
    /\ \A i, j \in 1..Len(tasks) :
          i # j => tasks[i].waits \cap tasks[j].waits = {}
    /\ tasks # << >> => path = "protected"

PageTypes ==
    /\ session \in BOOLEAN
    /\ path \in {"login", "toProtected", "protected", "toOnboarding", "onboarding"}
    /\ page \in Pages
    /\ selected \in Workspaces \cup {NULL}
    /\ shown \in [OpsOf(page) -> [ws : Workspaces \cup {NULL}, count : 0..MaxSaves]]
    /\ userRole \in Role \cup {NULL}
    /\ loading \in BOOLEAN
    /\ picked \in {Nothing} \cup (Campaigns \X Buyers \X Priorities)
    /\ failures \in 0..MaxFailures
    /\ calm \in BOOLEAN /\ faulted \in BOOLEAN
    /\ mine \in [Workspaces -> [Lists -> 0..MaxSaves]]

PagesInv == PageTypes /\ TasksInv

\* The list an operation reads or writes.
ListOf(op) == IF op \in Writes THEN ShownBy[op] ELSE op

\* A load first asks for the user's workspaces, if at all; it shows rows of a
\* workspace in its last stage.
Begun(t) == OpsLeft(t) \cap Unguarded = {}

StagesInv(t) ==
    ~t.writing =>
        \/ t.todo = << >> /\ OpsNow(t) \cap Unguarded = {}
        \/ /\ Len(t.todo) = 1 /\ t.todo[1] \cap Unguarded = {}
           /\ OpsNow(t) \subseteq Unguarded
        \/ /\ Len(t.todo) = 2 /\ t.todo[1] \subseteq Unguarded
           /\ t.todo[2] \cap Unguarded = {} /\ OpsNow(t) = {}

\* An answer counts at least the writes this browser knows of.
AnswersInv(t) ==
    /\ \A r \in t.waits :
          (/\ request[r].step = "answered" /\ request[r].reply.ok
           /\ ListOf(request[r].op) \in Lists) =>
              /\ request[r].reply.count <= saved[t.ws][ListOf(request[r].op)]
              /\ calm => mine[t.ws][ListOf(request[r].op)] <= request[r].reply.count
    /\ calm => \A g \in t.got :
          g.op \in Lists => mine[t.ws][g.op] <= g.reply.count

Shows(i, op) == ~tasks[i].writing /\ op \in OpsLeft(tasks[i])
ShowsSelected(i, op) == Shows(i, op) /\ tasks[i].ws = selected

\* The rows that task j loads are shown after those of task i.
After(j, i) ==
    \/ ~Begun(tasks[j]) /\ Begun(tasks[i])
    \/ (Begun(tasks[j]) <=> Begun(tasks[i])) /\ i < j

\* The page shows what is selected, with every write in it.
Current(op) ==
    /\ shown[op].ws = selected
    /\ op \in {ShownBy[write] : write \in page.writes} =>
           mine[selected][op] <= shown[op].count

\* Rows of another workspace will be replaced by the selected one's, and what
\* is not loaded any more is current.
Converges(op) ==
    /\ \A i \in 1..Len(tasks) :
          Shows(i, op) /\ tasks[i].ws # selected =>
              \E j \in 1..Len(tasks) : ShowsSelected(j, op) /\ After(j, i)
    /\ (\A i \in 1..Len(tasks) : ~ShowsSelected(i, op)) => Current(op)

WritesSaved == \A w \in Workspaces, l \in Lists : mine[w][l] <= saved[w][l]

TaskCurrent(t) == StagesInv(t) /\ AnswersInv(t)

InTurn(i) ==
    calm => /\ i # 1 => tasks[i].waits = {}
            /\ tasks[i].writing => tasks[i].ws = selected

PageConverges ==
    calm /\ ~faulted /\ path = "protected" /\ selected # NULL =>
        \A op \in OpsOf(page) \ Unguarded : Converges(op)

CurrentInv ==
    /\ WritesSaved
    /\ \A i \in 1..Len(tasks) : TaskCurrent(tasks[i]) /\ InTurn(i)
    /\ PageConverges

DInv == IInv /\ PagesInv /\ CurrentInv

-----------------------------------------------------------------------------
(* What the pages ask for.                                                 *)

Reads == {"listCampaigns", "listBuyers", "listNumbers", "listWebhooks",
          "listKeys", "listBlockedCallers", "getMembers", "getWorkspace",
          "getBillingState", "getMetrics", "getCalls", "getCallDetail"}

\* A load is one stage of guarded reads, or the user's workspaces and then one.
LoadInv(load, p) ==
    \/ /\ load # << >> /\ Len(load) = 1 /\ load[1] \subseteq Reads
       /\ load \in Seq(SUBSET Ops) /\ "getWorkspaces" \notin OpsOf(p)
    \/ /\ load # << >> /\ Len(load) = 2 /\ load[1] = {"getWorkspaces"}
       /\ load[2] \subseteq Reads /\ load \in Seq(SUBSET Ops)

LEMMA RouteOps ==
    \A rt \in AllRoutes : rt.op \in Ops
BY DEF Ops

LEMMA ReadsAre ==
    /\ Reads \cup Unguarded \cup Writes \subseteq Ops
    /\ Reads \cap Unguarded = {} /\ Reads \cap Writes = {}
    /\ Unguarded \cap Writes = {}
    /\ \A op \in Reads \cup Unguarded : SaysOf(op) = {Nothing}
<1>1. \A auth, ops, roles : \A op \in ops :
          \E rt \in Routes(auth, ops, roles) : rt.op = op
  <2> TAKE auth, ops, roles
  <2> TAKE op \in ops
  <2>1. [auth |-> auth, op |-> op, roles |-> roles] \in Routes(auth, ops, roles)
    BY DEF Routes
  <2> QED
    BY <2>1
<1>2. \A op \in Unguarded \cup {"getMembers", "getWorkspace", "updateSettings", "removeMember"} :
          \E rt \in WorkspacesController : rt.op = op
  BY <1>1 DEF WorkspacesController
<1>3. \A op \in {"listKeys", "createKey", "revokeKey"} :
          \E rt \in ApiKeysController : rt.op = op
  BY <1>1 DEF ApiKeysController
<1>4. \A op \in {"listCampaigns", "createCampaign", "assignPhoneNumber", "addBuyer"} :
          \E rt \in CampaignsController : rt.op = op
  BY <1>1 DEF CampaignsController
<1>5. \A op \in {"listBuyers", "createBuyer"} :
          \E rt \in BuyersController : rt.op = op
  BY <1>1 DEF BuyersController
<1>6. \A op \in {"listBlockedCallers", "blockCaller", "unblockCaller"} :
          \E rt \in BlockedCallersController : rt.op = op
  BY <1>1 DEF BlockedCallersController
<1>7. \A op \in {"listNumbers", "provisionNumber", "updateNumber", "releaseNumber"} :
          \E rt \in PhoneNumbersController : rt.op = op
  BY <1>1 DEF PhoneNumbersController
<1>8. \A op \in {"listWebhooks", "createWebhook", "deleteWebhook"} :
          \E rt \in WebhooksController : rt.op = op
  BY <1>1 DEF WebhooksController
<1>9. \A op \in {"getBillingState"} : \E rt \in BillingController : rt.op = op
  BY <1>1 DEF BillingController
<1>10. \A op \in {"getCalls", "getMetrics", "getCallDetail"} :
          \E rt \in CallsController : rt.op = op
  BY <1>1 DEF CallsController
<1>11. Reads \cup Unguarded \cup Writes \subseteq Ops
  <2> SUFFICES ASSUME NEW op \in Reads \cup Unguarded \cup Writes
               PROVE  \E rt \in AllRoutes : rt.op = op
    BY RouteOps
  <2>1. \/ op \in Unguarded \cup {"getMembers", "getWorkspace", "updateSettings", "removeMember"}
        \/ op \in {"listKeys", "createKey", "revokeKey"}
        \/ op \in {"listCampaigns", "createCampaign", "assignPhoneNumber", "addBuyer"}
        \/ op \in {"listBuyers", "createBuyer"}
        \/ op \in {"listBlockedCallers", "blockCaller", "unblockCaller"}
        \/ op \in {"listNumbers", "provisionNumber", "updateNumber", "releaseNumber"}
        \/ op \in {"listWebhooks", "createWebhook", "deleteWebhook"}
        \/ op \in {"getBillingState"}
        \/ op \in {"getCalls", "getMetrics", "getCallDetail"}
    BY DEF Reads, Writes, RowWrites, CampaignsService, BuyersService,
           BlockedCallersService, PhoneNumbersService, WebhooksService,
           WorkspacesService
  <2> QED
    BY <1>2, <1>3, <1>4, <1>5, <1>6, <1>7, <1>8, <1>9, <1>10, <2>1
       DEF AllRoutes
<1>12. /\ Reads \cap Unguarded = {} /\ Reads \cap Writes = {}
       /\ Unguarded \cap Writes = {}
  BY DEF Reads, Unguarded, Writes, RowWrites, CampaignsService, BuyersService,
         BlockedCallersService, PhoneNumbersService, WebhooksService,
         WorkspacesService
<1>13. \A op \in Reads \cup Unguarded : SaysOf(op) = {Nothing}
  BY DEF Reads, Unguarded, SaysOf
<1> QED
  BY <1>11, <1>12, <1>13

LEMMA SeqElements ==
    /\ \A x : Len(<<x>>) = 1 /\ <<x>>[1] = x /\ ToSet(<<x>>) = {x}
    /\ \A x, y : /\ Len(<<x, y>>) = 2 /\ <<x, y>>[1] = x /\ <<x, y>>[2] = y
                 /\ ToSet(<<x, y>>) = {x, y}
    /\ Len(<< >>) = 0 /\ ToSet(<< >>) = {}
BY DEF ToSet

\* A page with one load of one stage.
PageInv(p) ==
    /\ p.loads \in Seq(Seq(SUBSET Ops)) /\ Len(p.loads) \in 1..2
    /\ p.again \in Seq(SUBSET Ops)
    /\ OpsOf(p) \subseteq Reads \cup {"getWorkspaces"}
    /\ UNION ToSet(p.again) \subseteq OpsOf(p)
    /\ \A load \in ToSet(p.loads) : LoadInv(load, p)
    /\ p.again # << >> => LoadInv(p.again, p)
    /\ p.writes \subseteq Writes
    /\ \A write \in p.writes : \/ write = "updateSettings"
                               \/ ShownBy[write] \in UNION ToSet(p.again)

LEMMA PageIs ==
    ASSUME NEW loads, NEW again, NEW writes, NEW flag
    PROVE  /\ Page(loads, again, writes, flag).loads = loads
           /\ Page(loads, again, writes, flag).again = again
           /\ Page(loads, again, writes, flag).writes = writes
BY DEF Page

LEMMA SimplePage ==
    ASSUME NEW S \in SUBSET Reads, NEW T \in SUBSET S, NEW again,
           again = << >> \/ again = <<T>>,
           NEW writes, writes \subseteq Writes,
           \A write \in writes : again = <<T>> /\ ShownBy[write] \in T,
           NEW flag
    PROVE  PageInv(Page(<< <<S>> >>, again, writes, flag))
<1> DEFINE p == Page(<< <<S>> >>, again, writes, flag)
<1>1. p.loads = << <<S>> >> /\ p.again = again /\ p.writes = writes
  BY PageIs
<1>2. OpsOf(p) = S /\ UNION ToSet(p.again) \subseteq S
  BY <1>1, SeqElements DEF OpsOf
<1>3. S \in SUBSET Ops /\ T \in SUBSET Ops
  BY ReadsAre
<1>4. <<S>> \in Seq(SUBSET Ops) /\ <<T>> \in Seq(SUBSET Ops)
      /\ << >> \in Seq(SUBSET Ops)
  BY <1>3
<1>5. << <<S>> >> \in Seq(Seq(SUBSET Ops)) /\ <<S>> # << >> /\ <<T>> # << >>
  BY <1>4, SeqElements
<1>6. "getWorkspaces" \notin S
  BY ReadsAre DEF Unguarded
<1>7. LoadInv(<<S>>, p) /\ LoadInv(<<T>>, p)
  BY <1>2, <1>4, <1>5, <1>6, SeqElements DEF LoadInv
<1> HIDE DEF p
<1>8. \A write \in p.writes : ShownBy[write] \in UNION ToSet(p.again)
  BY <1>1, SeqElements
<1>9. p.loads \in Seq(Seq(SUBSET Ops)) /\ Len(p.loads) \in 1..2
  <2>1. Len(p.loads) = 1
    BY <1>1, SeqElements
  <2> QED
    BY <1>1, <1>5, <2>1
<1>10. \A load \in ToSet(p.loads) : LoadInv(load, p)
  BY <1>1, <1>7, SeqElements
<1>11. /\ p.again \in Seq(SUBSET Ops)
       /\ p.again # << >> => LoadInv(p.again, p)
  <2>1. CASE again = << >>
    BY <1>1, <1>4, <2>1
  <2>2. CASE again = <<T>>
    BY <1>1, <1>4, <1>7, <2>2
  <2> QED
    BY <2>1, <2>2
<1>12. /\ OpsOf(p) \subseteq Reads \cup {"getWorkspaces"}
       /\ UNION ToSet(p.again) \subseteq OpsOf(p) /\ p.writes \subseteq Writes
  BY <1>1, <1>2
<1>13. PageInv(p)
  BY <1>8, <1>9, <1>10, <1>11, <1>12 DEF PageInv
<1> QED
  BY <1>13 DEF p

LEMMA StagedPage ==
    ASSUME NEW read \in Reads, NEW again,
           again \in {<< >>, <<{"getWorkspaces"}, {read}>>},
           NEW writes, writes \subseteq Writes,
           \A write \in writes : \/ write = "updateSettings"
                                 \/ again # << >> /\ ShownBy[write] = read,
           NEW flag
    PROVE  PageInv(Page(<< <<{"getWorkspaces"}, {read}>> >>, again, writes, flag))
<1> DEFINE load == <<{"getWorkspaces"}, {read}>>
           p == Page(<<load>>, again, writes, flag)
<1>1. p.loads = <<load>> /\ p.again = again /\ p.writes = writes
  BY PageIs
<1>2. /\ Len(load) = 2 /\ load[1] = {"getWorkspaces"} /\ load[2] = {read}
      /\ ToSet(load) = {{"getWorkspaces"}, {read}}
  BY SeqElements
<1>3. {"getWorkspaces"} \in SUBSET Ops /\ {read} \in SUBSET Ops
  BY ReadsAre DEF Unguarded
<1>4. load \in Seq(SUBSET Ops) /\ load # << >>
  BY <1>3
<1> HIDE DEF load, p
<1>5. OpsOf(p) = {"getWorkspaces", read}
  BY <1>1, <1>2, SeqElements DEF OpsOf
<1>6. p.loads \in Seq(Seq(SUBSET Ops)) /\ Len(p.loads) \in 1..2
  <2>1. <<load>> \in Seq(Seq(SUBSET Ops)) /\ Len(<<load>>) = 1
    BY <1>4, SeqElements
  <2> QED
    BY <1>1, <2>1
<1>7. LoadInv(load, p)
  BY <1>2, <1>4 DEF LoadInv
<1>8. /\ p.again \in Seq(SUBSET Ops)
      /\ p.again # << >> => LoadInv(p.again, p)
      /\ UNION ToSet(p.again) \subseteq OpsOf(p)
  <2>1. CASE again = << >>
    BY <1>1, <2>1, SeqElements
  <2>2. CASE again = load
    BY <1>1, <1>2, <1>4, <1>5, <1>7, <2>2
  <2> QED
    BY <2>1, <2>2 DEF load
<1>9. \A l \in ToSet(p.loads) : LoadInv(l, p)
  BY <1>1, <1>7, SeqElements
<1>10. ASSUME NEW write \in p.writes, write # "updateSettings"
       PROVE  ShownBy[write] \in UNION ToSet(p.again)
  <2>1. again = load /\ ShownBy[write] = read
    BY <1>1, <1>10 DEF load
  <2> QED
    BY <1>1, <1>2, <2>1
<1>11. OpsOf(p) \subseteq Reads \cup {"getWorkspaces"} /\ p.writes \subseteq Writes
  BY <1>1, <1>5
<1>12. PageInv(p)
  BY <1>6, <1>8, <1>9, <1>10, <1>11 DEF PageInv
<1> QED
  BY <1>12 DEF p, load

LEMMA PhoneNumbersPageIs == PageInv(PhoneNumbersPage)
<1> DEFINE p == PhoneNumbersPage
           first == <<{"listNumbers"}>>
           second == <<{"listCampaigns"}>>
<1>1. /\ p.loads = <<first, second>> /\ p.again = first
      /\ p.writes = {"provisionNumber", "assignPhoneNumber"}
  BY PageIs DEF PhoneNumbersPage
<1>2. {"listNumbers"} \in SUBSET Ops /\ {"listCampaigns"} \in SUBSET Ops
  BY ReadsAre DEF Reads
<1>3. /\ first \in Seq(SUBSET Ops) /\ first # << >>
      /\ Len(first) = 1 /\ first[1] = {"listNumbers"}
      /\ ToSet(first) = {{"listNumbers"}}
      /\ second \in Seq(SUBSET Ops) /\ second # << >>
      /\ Len(second) = 1 /\ second[1] = {"listCampaigns"}
      /\ ToSet(second) = {{"listCampaigns"}}
  <2>1. first \in Seq(SUBSET Ops) /\ second \in Seq(SUBSET Ops)
    BY <1>2
  <2>2. first # << >> /\ second # << >>
    OBVIOUS
  <2> QED
    BY <2>1, <2>2, SeqElements
<1> HIDE DEF first, second, p
<1>4. OpsOf(p) = {"listNumbers", "listCampaigns"}
  <2>1. ToSet(p.loads) = {first, second}
    BY <1>1, SeqElements
  <2> QED
    BY <1>3, <2>1 DEF OpsOf
<1>5. p.loads \in Seq(Seq(SUBSET Ops)) /\ Len(p.loads) \in 1..2
  <2>1. Len(p.loads) = 2
    BY <1>1, SeqElements
  <2> QED
    BY <1>1, <1>3, <2>1
<1>6. LoadInv(first, p) /\ LoadInv(second, p)
  BY <1>3, <1>4 DEF LoadInv, Reads
<1>7. \A load \in ToSet(p.loads) : LoadInv(load, p)
  BY <1>1, <1>6, SeqElements
<1>8. \A write \in p.writes : ShownBy[write] \in UNION ToSet(p.again)
  BY <1>1, <1>3
     DEF ShownBy, Writes, RowWrites, PhoneNumbersService, CampaignsService
<1>9. /\ OpsOf(p) \subseteq Reads \cup {"getWorkspaces"}
      /\ UNION ToSet(p.again) \subseteq OpsOf(p) /\ p.writes \subseteq Writes
  BY <1>1, <1>3, <1>4
     DEF Reads, Writes, RowWrites, PhoneNumbersService, CampaignsService
<1>10. PageInv(p)
  BY <1>1, <1>3, <1>5, <1>6, <1>7, <1>8, <1>9 DEF PageInv
<1> QED
  BY <1>10 DEF p

LEMMA PagesAre == \A p \in Pages : PageInv(p)
<1> USE DEF Reads, Writes, RowWrites, CampaignsService, BuyersService,
            BlockedCallersService, WebhooksService, WorkspacesService, ShownBy
<1>1. PageInv(CampaignsPage)
  BY SimplePage DEF CampaignsPage
<1>2. PageInv(BuyersPage)
  BY SimplePage DEF BuyersPage
<1>3. PageInv(BillingPage) /\ PageInv(UsagePage)
  BY SimplePage DEF BillingPage, UsagePage
<1>4. PageInv(WebhooksPage)
  BY SimplePage DEF WebhooksPage
<1>5. PageInv(ApiKeysPage)
  BY SimplePage DEF ApiKeysPage
<1>6. PageInv(BlockedCallersPage)
  BY SimplePage DEF BlockedCallersPage
<1>7. PageInv(MembersPage)
  BY StagedPage DEF MembersPage
<1>8. PageInv(SettingsPage)
  BY StagedPage DEF SettingsPage
<1>9. PageInv(ProtectedPage) /\ PageInv(ReportingPage)
  BY SimplePage DEF ProtectedPage, ReportingPage
<1>10. PageInv(CallsPage)
  BY SimplePage DEF CallsPage
<1>11. PageInv(CallDetailPage)
  BY SimplePage DEF CallDetailPage
<1> QED
  BY <1>1, <1>2, <1>3, <1>4, <1>5, <1>6, <1>7, <1>8, <1>9, <1>10, <1>11,
     PhoneNumbersPageIs DEF Pages

-----------------------------------------------------------------------------
(* What the API does to the requests that tasks wait for.                  *)

\* A request stays what it was asked; a list that is answered for is counted
\* as it is then.
Served(r) ==
    /\ request[r] # Free /\ request[r].step # "answered" /\ request'[r] # Free
    /\ request'[r].op = request[r].op /\ request'[r].ws = request[r].ws
    /\ \A s \in Requests : s # r => request'[s] = request[s]
    /\ \A w \in Workspaces, l \in Lists : saved[w][l] <= saved'[w][l]
    /\ (/\ request'[r].step = "answered" /\ request'[r].reply.ok
        /\ ListOf(request[r].op) \in Lists) =>
           LET w == request[r].ws
               l == ListOf(request[r].op)
           IN  /\ w \in Workspaces
               /\ saved[w][l] <= request'[r].reply.count
               /\ request'[r].reply.count <= saved'[w][l]

LEMMA SavedTypes ==
    ASSUME IInv
    PROVE  \A w \in Workspaces, l \in Lists :
               saved[w][l] \in 0..MaxSaves /\ saved[w][l] <= saved[w][l]
BY AccessAssumption DEF IInv, AccessTypeOK

LEMMA AnswerIs ==
    ASSUME IInv, NEW r \in Requests, NEW reply,
           request[r] \in Request, Answer(r, reply)
    PROVE  /\ request'[r].step = "answered" /\ request'[r].reply = reply
           /\ request'[r].op = request[r].op /\ request'[r].ws = request[r].ws
           /\ request'[r] # Free
           /\ \A s \in Requests : s # r => request'[s] = request[s]
<1>1. request \in [Requests -> Request \cup {Free}]
  BY DEF IInv, AccessTypeOK
<1>2. request'[r] = [request[r] EXCEPT !.step = "answered", !.reply = reply]
  BY <1>1 DEF Answer
<1>3. /\ request'[r].step = "answered" /\ request'[r].reply = reply
      /\ request'[r].op = request[r].op /\ request'[r].ws = request[r].ws
  BY <1>2 DEF Request
<1>4. request'[r] # Free
  BY <1>3, FreeIs
<1> QED
  BY <1>1, <1>3, <1>4 DEF Answer

LEMMA RefuseServed ==
    ASSUME IInv, NEW r \in Requests, request[r] \in Request,
           request[r].step # "answered", Refuse(r)
    PROVE  Served(r)
<1>1. Answer(r, NoReply) /\ UNCHANGED saved
  BY DEF Refuse, tables
<1>2. NoReply.ok = FALSE
  BY DEF NoReply
<1> QED
  BY <1>1, <1>2, AnswerIs, SavedTypes, FreeIs DEF Served

LEMMA GuardServed ==
    ASSUME IInv, NEW r \in Requests, ApiKeyAuthGuard(r) \/ WorkspaceRolesGuard(r)
    PROVE  Served(r)
<1>1. request[r] \in Request /\ request[r].step \in {"apiKey", "roles"}
      /\ request \in [Requests -> Request \cup {Free}]
  BY FreeIs DEF IInv, AccessTypeOK, ApiKeyAuthGuard, WorkspaceRolesGuard
<1>2. CASE Refuse(r)
  BY <1>1, <1>2, RefuseServed
<1>3. CASE ~Refuse(r)
  <2>1. PICK q : /\ request' = [request EXCEPT ![r] = q]
                 /\ q.step \in {"roles", "handle"}
                 /\ q.op = request[r].op /\ q.ws = request[r].ws
                 /\ UNCHANGED saved
    <3>1. CASE AsKeyUser(r)
      <4> DEFINE q == [request[r] EXCEPT !.step = "roles",
                                         !.user = key[request[r].key].user]
      <4>1. q.step = "roles" /\ q.op = request[r].op /\ q.ws = request[r].ws
        BY <1>1 DEF Request
      <4>2. request' = [request EXCEPT ![r] = q] /\ UNCHANGED saved
        BY <1>1, <3>1 DEF AsKeyUser, tables
      <4> HIDE DEF q
      <4> QED
        BY <4>1, <4>2
    <3>2. CASE ~AsKeyUser(r)
      <4> DEFINE q == [request[r] EXCEPT !.step = "handle",
                           !.role = getUserWorkspaceRole(request[r].user,
                                                         request[r].ws)]
      <4>1. q.step = "handle" /\ q.op = request[r].op /\ q.ws = request[r].ws
        BY <1>1 DEF Request
      <4>2. request' = [request EXCEPT ![r] = q] /\ UNCHANGED saved
        BY <1>1, <1>3, <3>2 DEF ApiKeyAuthGuard, WorkspaceRolesGuard, tables
      <4> HIDE DEF q
      <4> QED
        BY <4>1, <4>2
    <3> QED
      BY <3>1, <3>2
  <2>2. /\ request'[r] = q /\ request'[r].step # "answered" /\ q # Free
        /\ \A s \in Requests : s # r => request'[s] = request[s]
    BY <1>1, <2>1, FreeIs
  <2> QED
    BY <1>1, <2>1, <2>2, SavedTypes, FreeIs DEF Served
<1> QED
  BY <1>2, <1>3

LEMMA DoneIs ==
    ASSUME IInv, NEW r \in Requests, NEW n,
           request[r] \in Request, Done(r, n)
    PROVE  /\ request'[r].reply.count = n /\ request'[r] # Free
           /\ request'[r].op = request[r].op /\ request'[r].ws = request[r].ws
           /\ \A s \in Requests : s # r => request'[s] = request[s]
<1>1. PICK reply : reply = [NoReply EXCEPT !.ok = TRUE, !.count = n]
  OBVIOUS
<1>2. reply.count = n
  BY <1>1 DEF NoReply
<1>3. Answer(r, reply)
  BY <1>1 DEF Done
<1> QED
  BY <1>2, <1>3, AnswerIs

LEMMA SaveServed ==
    ASSUME IInv, NEW r \in Requests, Handling(r), Save(r),
           request[r].op \in Writes
    PROVE  Served(r)
<1> DEFINE w == request[r].ws
           l == ShownBy[request[r].op]
<1>1. w \in Workspaces /\ l \in Lists /\ ListOf(request[r].op) = l
  BY SaveStep, ShownIsList DEF ListOf
<1>2. PICK n : n = saved[w][l] + 1
  OBVIOUS
<1>3. Done(r, n) /\ saved' = [saved EXCEPT ![w][l] = n]
  BY <1>2 DEF Save
<1>4. saved \in [Workspaces -> [Lists -> 0..MaxSaves]] /\ MaxSaves \in Nat
  BY AccessAssumption DEF IInv, AccessTypeOK
<1>a. PICK v, k : v = w /\ k = l
  OBVIOUS
<1>b. saved' = [saved EXCEPT ![v] = [saved[v] EXCEPT ![k] = n]]
  BY <1>3, <1>a
<1>c. \A x \in Workspaces, y \in Lists :
          saved'[x][y] = IF x = v /\ y = k THEN n ELSE saved[x][y]
  BY <1>4, <1>b
<1>d. v \in Workspaces /\ k \in Lists /\ n = saved[v][k] + 1
  BY <1>1, <1>2, <1>a
<1>e. \A x \in Workspaces, y \in Lists : saved[x][y] \in Nat
  BY <1>4
<1>5. \A x \in Workspaces, y \in Lists : saved[x][y] <= saved'[x][y]
  BY <1>c, <1>d, <1>e
<1>6. saved[w][l] <= n /\ n <= saved'[w][l]
  <2>1. saved[v][k] <= n /\ n <= saved'[v][k]
    BY <1>c, <1>d, <1>e
  <2> QED
    BY <2>1, <1>a
<1> QED
  BY <1>1, <1>3, <1>5, <1>6, DoneIs, FreeIs DEF Handling, Served

LEMMA ReadServed ==
    ASSUME IInv, NEW r \in Requests, Handling(r), readRows(r)
    PROVE  Served(r)
<1> DEFINE w == request[r].ws
           op == request[r].op
<1>0. PICK n : n = IF op \in Lists THEN saved[w][op] ELSE 0
  OBVIOUS
<1>1. w \in Workspaces /\ ListOf(op) = op /\ UNCHANGED saved /\ Done(r, n)
  BY <1>0 DEF readRows, Handling, GuardInv, ListOf, tables
<1>2. Done(r, n) /\ request[r] \in Request
  BY <1>1 DEF Handling
<1>3. request'[r].reply.count = n
  BY <1>2, DoneIs
<1>4. op \in Lists => saved[w][op] <= n /\ n <= saved'[w][op]
  BY <1>0, <1>1, SavedTypes
<1> QED
  BY <1>1, <1>2, <1>3, <1>4, DoneIs, SavedTypes, FreeIs DEF Handling, Served

LEMMA ServeIs ==
    ASSUME IInv, NEW r \in Requests, Serve(r)
    PROVE  Served(r)
<1>1. CASE ApiKeyAuthGuard(r) \/ WorkspaceRolesGuard(r)
  BY <1>1, GuardServed
<1>2. CASE Handle(r)
  <2>1. Handling(r)
    BY <1>2, FreeIs DEF Handle, Handling, IInv, AccessTypeOK
  <2>2. CASE createWorkspace(r) \/ getUserWorkspaces(r)
    <3>1. request[r].op \in Unguarded /\ UNCHANGED saved
      BY <2>2 DEF createWorkspace, getUserWorkspaces, Unguarded, tables
    <3>2. ListOf(request[r].op) \notin Lists
      BY <3>1, ReadsAre DEF ListOf, Lists, Unguarded
    <3>3. \E reply : Answer(r, reply)
      BY <2>2 DEF createWorkspace, getUserWorkspaces, Done
    <3> QED
      BY <2>1, <3>1, <3>2, <3>3, AnswerIs, SavedTypes, FreeIs DEF Handling, Served
  <2>3. CASE removeMember(r) \/ createApiKey(r) \/ revokeApiKey(r)
                 \/ addBuyerToCampaign(r) \/ writeRow(r)
    <3>1. request[r].op \in Writes /\ Save(r)
      BY <2>3 DEF removeMember, createApiKey, revokeApiKey,
                  addBuyerToCampaign, writeRow, Writes
    <3> QED
      BY <2>1, <3>1, SaveServed
  <2>4. CASE readRows(r)
    BY <2>1, <2>4, ReadServed
  <2>5. CASE handlerThrows(r)
    BY <2>1, <2>5, RefuseServed DEF handlerThrows, Handling
  <2> QED
    BY <1>2, <2>2, <2>3, <2>4, <2>5 DEF Handle
<1> QED
  BY <1>1, <1>2 DEF Serve

-----------------------------------------------------------------------------
(* What becomes of the list of tasks.                                      *)

\* A part of a list.
LEMMA PartIs ==
    ASSUME NEW S, NEW s \in Seq(S), NEW m \in 1..(Len(s) + 1), NEW n \in 0..Len(s),
           m <= n + 1
    PROVE  /\ SubSeq(s, m, n) \in Seq(S) /\ Len(SubSeq(s, m, n)) = n + 1 - m
           /\ \A k \in 1..(n + 1 - m) : SubSeq(s, m, n)[k] = s[k + m - 1]
<1>1. Len(s) \in Nat /\ m \in Int /\ n \in Int
  OBVIOUS
<1>2. \A k \in m..n : s[k] \in S
  BY <1>1, ElementOfSeq
<1>3. PICK z : z = SubSeq(s, m, n)
  OBVIOUS
<1>4. /\ z \in Seq(S) /\ Len(z) = (IF m <= n THEN n - m + 1 ELSE 0)
      /\ \A k \in 1..(n - m + 1) : z[k] = s[m + k - 1]
  BY <1>1, <1>2, <1>3, SubSeqProperties
<1>5. Len(z) = n + 1 - m
  BY <1>1, <1>4
<1>6. ASSUME NEW k \in 1..(n + 1 - m) PROVE z[k] = s[k + m - 1]
  <2>1. k \in 1..(n - m + 1) /\ m + k - 1 = k + m - 1
    BY <1>1
  <2> QED
    BY <1>4, <2>1
<1> QED
  BY <1>3, <1>4, <1>5, <1>6

LEMMA RemoveAtIs ==
    ASSUME NEW S, NEW s \in Seq(S), NEW i \in 1..Len(s)
    PROVE  /\ RemoveAt(s, i) \in Seq(S) /\ Len(RemoveAt(s, i)) = Len(s) - 1
           /\ \A k \in 1..(Len(s) - 1) :
                 RemoveAt(s, i)[k] = s[IF k < i THEN k ELSE k + 1]
<1>1. Len(s) \in Nat
  OBVIOUS
<1>2. PICK m, n : m = i - 1 /\ n = i + 1
  OBVIOUS
<1>3. /\ m \in 0..Len(s) /\ n \in 1..(Len(s) + 1)
      /\ 1 <= m + 1 /\ n <= Len(s) + 1 /\ 1 \in 1..(Len(s) + 1)
      /\ m + 1 - 1 = i - 1 /\ Len(s) + 1 - n = Len(s) - i
  BY <1>1, <1>2
<1>4. PICK a, b : a = SubSeq(s, 1, m) /\ b = SubSeq(s, n, Len(s))
  OBVIOUS
<1>5. /\ a \in Seq(S) /\ Len(a) = i - 1
      /\ \A k \in 1..(i - 1) : a[k] = s[k + 1 - 1]
  BY <1>3, <1>4, PartIs
<1>6. /\ b \in Seq(S) /\ Len(b) = Len(s) - i
      /\ \A k \in 1..(Len(s) - i) : b[k] = s[k + n - 1]
  <2>1. Len(s) \in 0..Len(s)
    BY <1>1
  <2> QED
    BY <1>3, <1>4, <2>1, PartIs
<1>7. PICK c : c = RemoveAt(s, i)
  OBVIOUS
<1>8. c = a \o b
  BY <1>2, <1>4, <1>7 DEF RemoveAt
<1>9. /\ c \in Seq(S) /\ Len(c) = Len(a) + Len(b)
      /\ \A k \in 1..(Len(a) + Len(b)) :
             c[k] = IF k <= Len(a) THEN a[k] ELSE b[k - Len(a)]
  BY <1>5, <1>6, <1>8, ConcatProperties
<1>10. Len(c) = Len(s) - 1
  BY <1>1, <1>5, <1>6, <1>9
<1>11. ASSUME NEW k \in 1..(Len(s) - 1)
       PROVE  c[k] = s[IF k < i THEN k ELSE k + 1]
  <2>1. CASE k < i
    <3>1. k \in 1..(i - 1) /\ k + 1 - 1 = k /\ k <= Len(a) /\ k \in 1..(Len(a) + Len(b))
      BY <1>1, <1>5, <1>6, <2>1
    <3> QED
      BY <1>5, <1>9, <2>1, <3>1
  <2>2. CASE ~(k < i)
    <3>1. /\ k - Len(a) \in 1..(Len(s) - i) /\ (k - Len(a)) + n - 1 = k + 1
          /\ ~(k <= Len(a)) /\ k \in 1..(Len(a) + Len(b))
      BY <1>1, <1>2, <1>5, <1>6, <2>2
    <3> QED
      BY <1>6, <1>9, <2>2, <3>1
  <2> QED
    BY <2>1, <2>2
<1> QED
  BY <1>7, <1>9, <1>10, <1>11

\* Position k of the list now was position f[k] before, or is new (0); only
\* task i may be gone.
Follows(f, i) ==
    /\ f \in [1..Len(tasks') -> 0..Len(tasks)]
    /\ \A k \in 1..Len(tasks') : f[k] # 0 => f[k] # i /\ tasks'[k] = tasks[f[k]]
    /\ \A j, k \in 1..Len(tasks') : f[j] # 0 /\ f[k] # 0 => (j < k <=> f[j] < f[k])
    /\ \A j \in 1..Len(tasks) : j # i => \E k \in 1..Len(tasks') : f[k] = j

LEMMA FollowsRemoved ==
    ASSUME tasks \in Seq(TaskRecord), NEW i \in 1..Len(tasks),
           tasks' = RemoveAt(tasks, i)
    PROVE  /\ tasks' \in Seq(TaskRecord) /\ Len(tasks') = Len(tasks) - 1
           /\ Follows([k \in 1..Len(tasks') |-> IF k < i THEN k ELSE k + 1], i)
<1>1. /\ tasks' \in Seq(TaskRecord) /\ Len(tasks') = Len(tasks) - 1
      /\ \A k \in 1..Len(tasks') : tasks'[k] = tasks[IF k < i THEN k ELSE k + 1]
      /\ Len(tasks) \in Nat
  <2>1. PICK s : s = tasks
    OBVIOUS
  <2>2. s \in Seq(TaskRecord) /\ i \in 1..Len(s) /\ tasks' = RemoveAt(s, i)
    BY <2>1
  <2>3. /\ tasks' \in Seq(TaskRecord) /\ Len(tasks') = Len(s) - 1
        /\ \A k \in 1..(Len(s) - 1) : tasks'[k] = s[IF k < i THEN k ELSE k + 1]
        /\ Len(s) \in Nat
    BY <2>2, RemoveAtIs, SMTT(20)
  <2>4. \A k \in 1..Len(tasks') : tasks'[k] = s[IF k < i THEN k ELSE k + 1]
    BY <2>3
  <2> QED
    BY <2>1, <2>3, <2>4
<1>2. PICK f : f = [k \in 1..Len(tasks') |-> IF k < i THEN k ELSE k + 1]
  OBVIOUS
<1>3. f \in [1..Len(tasks') -> 0..Len(tasks)]
  BY <1>1, <1>2
<1>4. ASSUME NEW j \in 1..Len(tasks), j # i
      PROVE  \E k \in 1..Len(tasks') : f[k] = j
  <2>1. CASE j < i
    <3>1. j \in 1..Len(tasks') /\ f[j] = j
      BY <1>1, <1>2, <2>1
    <3> QED
      BY <3>1
  <2>2. CASE i < j
    <3>1. j - 1 \in 1..Len(tasks') /\ f[j - 1] = j
      BY <1>1, <1>2, <2>2
    <3> QED
      BY <3>1
  <2> QED
    BY <1>4, <2>1, <2>2
<1>5. Follows(f, i)
  BY <1>1, <1>2, <1>3, <1>4 DEF Follows
<1> QED
  BY <1>1, <1>2, <1>5

LEMMA FollowsReplaced ==
    ASSUME tasks \in Seq(TaskRecord), NEW i \in 1..Len(tasks),
           NEW t \in TaskRecord, tasks' = Append(RemoveAt(tasks, i), t)
    PROVE  /\ tasks' \in Seq(TaskRecord) /\ Len(tasks') = Len(tasks)
           /\ tasks'[Len(tasks)] = t
           /\ Follows([k \in 1..Len(tasks') |->
                          IF k = Len(tasks) THEN 0
                          ELSE IF k < i THEN k ELSE k + 1], i)
<1>1. PICK q, s : q = tasks /\ s = RemoveAt(q, i)
  OBVIOUS
<1>2. /\ s \in Seq(TaskRecord) /\ Len(s) = Len(tasks) - 1 /\ Len(tasks) \in Nat
      /\ \A k \in 1..(Len(tasks) - 1) : s[k] = tasks[IF k < i THEN k ELSE k + 1]
  <2>1. q \in Seq(TaskRecord) /\ i \in 1..Len(q)
    BY <1>1
  <2>2. /\ RemoveAt(q, i) \in Seq(TaskRecord)
        /\ Len(RemoveAt(q, i)) = Len(q) - 1
        /\ \A k \in 1..(Len(q) - 1) :
              RemoveAt(q, i)[k] = q[IF k < i THEN k ELSE k + 1]
    BY <2>1, RemoveAtIs, Zenon
  <2> QED
    BY <1>1, <2>1, <2>2
<1>3. /\ tasks' \in Seq(TaskRecord) /\ Len(tasks') = Len(s) + 1
      /\ \A k \in 1..Len(s) : tasks'[k] = s[k]
      /\ tasks'[Len(s) + 1] = t
  <2>1. tasks' = Append(s, t)
    BY <1>1
  <2> HIDE <1>1
  <2> QED
    BY <1>2, <2>1, AppendProperties
<1>4. PICK f : f = [k \in 1..Len(tasks') |->
                       IF k = Len(tasks) THEN 0
                       ELSE IF k < i THEN k ELSE k + 1]
  OBVIOUS
<1>5. f \in [1..Len(tasks') -> 0..Len(tasks)]
  BY <1>2, <1>3, <1>4
<1>6. ASSUME NEW j \in 1..Len(tasks), j # i
      PROVE  \E k \in 1..Len(tasks') : f[k] = j
  <2>1. CASE j < i
    <3>1. j \in 1..Len(tasks') /\ f[j] = j
      BY <1>2, <1>3, <1>4, <2>1
    <3> QED
      BY <3>1
  <2>2. CASE i < j
    <3>1. j - 1 \in 1..Len(tasks') /\ f[j - 1] = j
      BY <1>2, <1>3, <1>4, <2>2
    <3> QED
      BY <3>1
  <2> QED
    BY <1>6, <2>1, <2>2
<1>7. ASSUME NEW k \in 1..Len(tasks'), f[k] # 0
      PROVE  f[k] # i /\ tasks'[k] = tasks[f[k]]
  <2>1. k # Len(tasks) /\ f[k] = IF k < i THEN k ELSE k + 1
    BY <1>4, <1>7
  <2>2. f[k] # i
    BY <2>1
  <2>3. k \in 1..Len(s) /\ s[k] = tasks[f[k]]
    BY <1>2, <1>3, <2>1
  <2> QED
    BY <1>3, <2>2, <2>3
<1>8. Follows(f, i)
  BY <1>2, <1>3, <1>4, <1>5, <1>6, <1>7 DEF Follows
<1>9. Len(tasks') = Len(tasks) /\ tasks'[Len(tasks)] = t
  BY <1>2, <1>3
<1> QED
  BY <1>3, <1>4, <1>8, <1>9

LEMMA FollowsChanged ==
    ASSUME tasks \in Seq(TaskRecord), NEW i \in 1..Len(tasks),
           NEW t \in TaskRecord, tasks' = [tasks EXCEPT ![i] = t]
    PROVE  /\ tasks' \in Seq(TaskRecord) /\ Len(tasks') = Len(tasks)
           /\ tasks'[i] = t
           /\ Follows([k \in 1..Len(tasks') |-> IF k = i THEN 0 ELSE k], i)
<1>1. /\ tasks' \in Seq(TaskRecord) /\ Len(tasks') = Len(tasks)
      /\ Len(tasks) \in Nat
      /\ \A k \in 1..Len(tasks) : tasks'[k] = IF k = i THEN t ELSE tasks[k]
  BY ExceptSeq
<1>2. PICK f : f = [k \in 1..Len(tasks') |-> IF k = i THEN 0 ELSE k]
  OBVIOUS
<1>3. f \in [1..Len(tasks') -> 0..Len(tasks)]
  BY <1>1, <1>2
<1>4. \A j \in 1..Len(tasks) : j # i => j \in 1..Len(tasks') /\ f[j] = j
  BY <1>1, <1>2
<1>5. Follows(f, i)
  BY <1>1, <1>2, <1>3, <1>4 DEF Follows
<1> QED
  BY <1>1, <1>2, <1>5

LEMMA FollowsExtended ==
    ASSUME tasks \in Seq(TaskRecord), NEW new \in Seq(TaskRecord),
           tasks' = tasks \o new
    PROVE  /\ tasks' \in Seq(TaskRecord) /\ Len(tasks') = Len(tasks) + Len(new)
           /\ \A k \in 1..Len(new) : tasks'[Len(tasks) + k] = new[k]
           /\ Follows([k \in 1..Len(tasks') |-> IF k <= Len(tasks) THEN k ELSE 0], 0)
<1>1. /\ tasks' \in Seq(TaskRecord) /\ Len(tasks') = Len(tasks) + Len(new)
      /\ Len(tasks) \in Nat /\ Len(new) \in Nat
      /\ \A k \in 1..(Len(tasks) + Len(new)) :
            tasks'[k] = IF k <= Len(tasks) THEN tasks[k] ELSE new[k - Len(tasks)]
  BY ConcatProperties
<1>2. PICK f : f = [k \in 1..Len(tasks') |-> IF k <= Len(tasks) THEN k ELSE 0]
  OBVIOUS
<1>3. f \in [1..Len(tasks') -> 0..Len(tasks)]
  BY <1>1, <1>2
<1>4. \A j \in 1..Len(tasks) : j \in 1..Len(tasks') /\ f[j] = j
  BY <1>1, <1>2
<1>5. Follows(f, 0)
  BY <1>1, <1>2, <1>3, <1>4 DEF Follows
<1>6. ASSUME NEW k \in 1..Len(new) PROVE tasks'[Len(tasks) + k] = new[k]
  <2>1. Len(tasks) + k \in 1..(Len(tasks) + Len(new))
        /\ ~(Len(tasks) + k <= Len(tasks)) /\ (Len(tasks) + k) - Len(tasks) = k
    BY <1>1
  <2> QED
    BY <1>1, <2>1
<1> QED
  BY <1>1, <1>2, <1>5, <1>6

-----------------------------------------------------------------------------
(* The tasks that go on as they were.                                      *)

LEMMA TaskIs ==
    ASSUME PagesInv
    PROVE  /\ DOMAIN tasks = 1..Len(tasks) /\ Len(tasks) \in Nat
           /\ \A i \in 1..Len(tasks) : tasks[i] \in TaskRecord /\ TaskInv(tasks[i])
           /\ page \in Pages /\ PageInv(page)
<1>1. tasks \in Seq(TaskRecord) /\ page \in Pages
  BY DEF PagesInv, TasksInv, PageTypes
<1>2. DOMAIN tasks = 1..Len(tasks) /\ Len(tasks) \in Nat
  BY <1>1, LenProperties
<1>3. \A i \in 1..Len(tasks) : tasks[i] \in TaskRecord
  BY <1>1, ElementOfSeq
<1> QED
  BY <1>1, <1>2, <1>3, PagesAre DEF PagesInv, TasksInv

\* The requests a task waits for are not asked anew.
WaitsKept(t) ==
    \A r \in t.waits :
        /\ request'[r] # Free
        /\ request'[r].op = request[r].op /\ request'[r].ws = request[r].ws

LEMMA OpsKept ==
    ASSUME NEW t, WaitsKept(t)
    PROVE  OpsNow(t)' = OpsNow(t) /\ OpsLeft(t)' = OpsLeft(t)
BY DEF WaitsKept, OpsNow, OpsLeft

LEMMA TaskKept ==
    ASSUME NEW t, TaskInv(t), WaitsKept(t), UNCHANGED page
    PROVE  TaskInv(t)'
<1>1. OpsLeft(t)' = OpsLeft(t)
  BY OpsKept
<1>2. \A r \in t.waits :
          /\ request'[r] # Free
          /\ request'[r].ws = IF request'[r].op \in Unguarded THEN NULL ELSE t.ws
  BY DEF TaskInv, WaitsKept
<1> QED
  BY <1>1, <1>2 DEF TaskInv

\* The list of tasks goes on when the tasks that stay keep their requests and
\* a new one is as it should be.
LEMMA TasksFollow ==
    ASSUME PagesInv, NEW i, NEW f, Follows(f, i), UNCHANGED page,
           tasks' \in Seq(TaskRecord), Len(tasks') <= MaxTasks,
           tasks' # << >> => path' = "protected",
           \A j \in 1..Len(tasks) : j # i => WaitsKept(tasks[j]),
           \A k \in 1..Len(tasks') : f[k] = 0 => TaskInv(tasks[k])',
           \A k \in 1..Len(tasks') : f[k] = 0 =>
               /\ \A j \in 1..Len(tasks) :
                     j # i => tasks'[k].waits \cap tasks[j].waits = {}
               /\ \A l \in 1..Len(tasks') :
                     l # k /\ f[l] = 0 => tasks'[k].waits \cap tasks'[l].waits = {}
    PROVE  TasksInv'
<1>1. \A k \in 1..Len(tasks') :
          f[k] \in 0..Len(tasks)
          /\ (f[k] # 0 => f[k] \in 1..Len(tasks) /\ f[k] # i /\ tasks'[k] = tasks[f[k]])
  BY TaskIs DEF Follows
<1>2. ASSUME NEW k \in 1..Len(tasks') PROVE TaskInv(tasks[k])'
  <2>1. CASE f[k] = 0
    BY <2>1
  <2>2. CASE f[k] # 0
    <3>1. PICK t : t = tasks[f[k]]
      OBVIOUS
    <3>2. TaskInv(t) /\ WaitsKept(t) /\ tasks'[k] = t
      BY <1>1, <2>2, <3>1, TaskIs
    <3>3. TaskInv(t)'
      BY <3>2, TaskKept
    <3> QED
      BY <3>2, <3>3
  <2> QED
    BY <2>1, <2>2
<1>3. ASSUME NEW k \in 1..Len(tasks'), NEW l \in 1..Len(tasks'), k # l
      PROVE  tasks'[k].waits \cap tasks'[l].waits = {}
  <2>1. CASE f[k] # 0 /\ f[l] # 0
    <3>1. f[k] # f[l]
      <4>1. k < l \/ l < k
        BY <1>3, LenProperties
      <4> QED
        BY <1>1, <2>1, <4>1 DEF Follows
    <3>2. f[k] \in 1..Len(tasks) /\ f[l] \in 1..Len(tasks)
      BY <1>1, <1>3, <2>1 DEF Follows
    <3>3. tasks[f[k]].waits \cap tasks[f[l]].waits = {}
      BY <3>1, <3>2 DEF PagesInv, TasksInv
    <3> QED
      BY <1>1, <1>3, <2>1, <3>3
  <2>2. CASE f[k] = 0 /\ f[l] # 0
    BY <1>1, <2>2
  <2>3. CASE f[k] # 0 /\ f[l] = 0
    BY <1>1, <2>3
  <2>4. CASE f[k] = 0 /\ f[l] = 0
    BY <1>3, <2>4
  <2> QED
    BY <2>1, <2>2, <2>3, <2>4
<1> QED
  BY <1>2, <1>3 DEF TasksInv

\* Nothing becomes of the tasks.
LEMMA TasksStay ==
    ASSUME PagesInv, UNCHANGED <<page, tasks>>, tasks = << >> \/ path' = path,
           \A j \in 1..Len(tasks) : WaitsKept(tasks[j])
    PROVE  TasksInv'
<1>1. ASSUME NEW j \in 1..Len(tasks) PROVE TaskInv(tasks[j])'
  <2>1. PICK t : t = tasks[j]
    OBVIOUS
  <2>2. TaskInv(t) /\ WaitsKept(t) /\ tasks'[j] = t
    BY <2>1, TaskIs
  <2>3. TaskInv(t)'
    BY <2>2, TaskKept
  <2> QED
    BY <2>2, <2>3
<1> QED
  BY <1>1 DEF PagesInv, TasksInv

LEMMA NoTasks ==
    ASSUME tasks' = << >>
    PROVE  TasksInv'
<1>1. Len(tasks') = 0 /\ tasks' \in Seq(TaskRecord)
  OBVIOUS
<1> QED
  BY <1>1, DashboardAssumption DEF TasksInv

-----------------------------------------------------------------------------
(* The tasks that are new.                                                 *)

\* A task that loads for page p, and waits for nothing yet.
LEMMA LoadIs ==
    ASSUME NEW p \in Pages, NEW load, LoadInv(load, p),
           UNION ToSet(load) \subseteq OpsOf(p), NEW w \in Workspaces,
           NEW for \in Writes \cup {"load"}, NEW t,
           t = Task(for, FALSE, w, Nothing, load)
    PROVE  /\ t \in TaskRecord /\ t.waits = {} /\ t.got = {}
           /\ t.ws = w /\ ~t.writing /\ t.todo = load
           /\ OpsNow(t) = {} /\ OpsLeft(t) = UNION ToSet(load)
           /\ OpsNow(t)' = {} /\ OpsLeft(t)' = UNION ToSet(load)
           /\ page' = p => TaskInv(t)'
<1>1. /\ t.for = for /\ t.writing = FALSE /\ t.ws = w /\ t.says = Nothing
      /\ t.todo = load /\ t.waits = {} /\ t.got = {}
  BY DEF Task
<1>2. load \in Seq(SUBSET Ops) /\ Nothing \in Says
  BY DEF LoadInv, Says
<1>3. t \in TaskRecord
  BY <1>2 DEF Task, TaskRecord
<1>4. /\ OpsNow(t) = {} /\ OpsLeft(t) = UNION ToSet(load)
      /\ OpsNow(t)' = {} /\ OpsLeft(t)' = UNION ToSet(load)
  BY <1>1 DEF OpsNow, OpsLeft
<1>5. \A op \in OpsOf(p) : SaysOf(op) = {Nothing}
  BY PagesAre, ReadsAre DEF PageInv, Unguarded
<1>6. page' = p => TaskInv(t)'
  BY <1>1, <1>4, <1>5 DEF TaskInv
<1> QED
  BY <1>1, <1>3, <1>4, <1>6

LEMMA LoadTasksAre ==
    ASSUME NEW p \in Pages, NEW w \in Workspaces
    PROVE  /\ LoadTasks(p, w) \in Seq(TaskRecord)
           /\ Len(LoadTasks(p, w)) = Len(p.loads) /\ Len(p.loads) \in 1..2
           /\ \A k \in 1..Len(p.loads) :
                 /\ LoadTasks(p, w)[k] = Task("load", FALSE, w, Nothing, p.loads[k])
                 /\ LoadInv(p.loads[k], p)
                 /\ UNION ToSet(p.loads[k]) \subseteq OpsOf(p)
           /\ LoadTasks(p, NULL) = << >>
<1>1. /\ p.loads \in Seq(Seq(SUBSET Ops)) /\ Len(p.loads) \in 1..2
      /\ \A load \in ToSet(p.loads) : LoadInv(load, p)
  BY PagesAre DEF PageInv
<1>2. DOMAIN p.loads = 1..Len(p.loads) /\ Len(p.loads) \in Nat
  BY <1>1, LenProperties
<1>3. w # NULL
  BY AccessAssumption
<1>4. LoadTasks(p, w) =
          [k \in 1..Len(p.loads) |-> Task("load", FALSE, w, Nothing, p.loads[k])]
  BY <1>2, <1>3 DEF LoadTasks
<1>5. ASSUME NEW k \in 1..Len(p.loads)
      PROVE  /\ LoadInv(p.loads[k], p)
             /\ UNION ToSet(p.loads[k]) \subseteq OpsOf(p)
  <2>1. p.loads[k] \in ToSet(p.loads)
    BY <1>2 DEF ToSet
  <2> QED
    BY <1>1, <2>1 DEF OpsOf
<1>6. ASSUME NEW k \in 1..Len(p.loads)
      PROVE  Task("load", FALSE, w, Nothing, p.loads[k]) \in TaskRecord
  <2>1. PICK load, t : load = p.loads[k] /\ t = Task("load", FALSE, w, Nothing, load)
    OBVIOUS
  <2>2. LoadInv(load, p) /\ UNION ToSet(load) \subseteq OpsOf(p)
    BY <1>5, <2>1
  <2>3. t \in TaskRecord
    BY <2>1, <2>2, LoadIs
  <2> QED
    BY <2>1, <2>3
<1>7. LoadTasks(p, w) \in Seq(TaskRecord)
  <2>1. LoadTasks(p, w) \in [1..Len(p.loads) -> TaskRecord]
    BY <1>4, <1>6
  <2> QED
    BY <1>2, <2>1, SeqDef
<1>8. Len(LoadTasks(p, w)) = Len(p.loads)
  BY <1>2, <1>4, <1>7, LenProperties
<1> QED
  BY <1>1, <1>4, <1>5, <1>7, <1>8 DEF LoadTasks

\* The task that loads the page again after a write.
LEMMA AgainIs ==
    ASSUME NEW p \in Pages, p.again # << >>
    PROVE  LoadInv(p.again, p) /\ UNION ToSet(p.again) \subseteq OpsOf(p)
BY PagesAre DEF PageInv

\* The task of a write.
LEMMA WriteIs ==
    ASSUME NEW op \in Writes, NEW says \in SaysOf(op), NEW w \in Workspaces,
           NEW t, t = Task(op, TRUE, w, says, <<{op}>>)
    PROVE  /\ t \in TaskRecord /\ t.waits = {} /\ t.got = {}
           /\ t.ws = w /\ t.writing
           /\ OpsNow(t)' = {} /\ OpsLeft(t)' = {op}
           /\ op \in page'.writes => TaskInv(t)'
<1>1. /\ t.for = op /\ t.writing = TRUE /\ t.ws = w /\ t.says = says
      /\ t.todo = <<{op}>> /\ t.waits = {} /\ t.got = {}
  BY DEF Task
<1>2. says \in Says /\ {op} \in SUBSET Ops
  BY SaysAre, ReadsAre
<1>3. <<{op}>> \in Seq(SUBSET Ops)
  BY <1>2
<1>4. t \in TaskRecord
  BY <1>2, <1>3 DEF Task, TaskRecord
<1>5. OpsNow(t)' = {} /\ OpsLeft(t)' = {op}
  <2>1. ToSet(t.todo) = {{op}}
    BY <1>1, SeqElements, Zenon
  <2>2. OpsNow(t)' = {}
    BY <1>1 DEF OpsNow
  <2>3. OpsLeft(t)' = OpsNow(t)' \cup UNION ToSet(t.todo)
    BY DEF OpsLeft, ToSet
  <2>4. UNION {{op}} = {op} /\ {} \cup {op} = {op}
    OBVIOUS
  <2> QED
    BY <2>1, <2>2, <2>3, <2>4, Zenon
<1>6. /\ \A o \in OpsLeft(t)' : t.says \in SaysOf(o)
      /\ OpsLeft(t)' \subseteq {t.for} /\ \A r \in t.waits : FALSE
  BY <1>1, <1>5
<1>7. op \in page'.writes => TaskInv(t)'
  BY <1>1, <1>6 DEF TaskInv
<1> QED
  BY <1>1, <1>4, <1>5, <1>7

-----------------------------------------------------------------------------
(* What a task does to the requests.                                       *)

LEMMA ReceivedIs ==
    ASSUME IInv, PagesInv, NEW i \in 1..Len(tasks), NEW r, r \in tasks[i].waits,
           Received(r)
    PROVE  /\ r \in Requests /\ request[r] \in Request
           /\ request[r].op \in OpsNow(tasks[i])
           /\ \A s \in Requests : s # r => request'[s] = request[s]
           /\ \A j \in 1..Len(tasks) : j # i => WaitsKept(tasks[j])
<1>1. request \in [Requests -> Request \cup {Free}]
  BY DEF IInv, AccessTypeOK
<1>2. \A j \in 1..Len(tasks) :
          /\ tasks[j].waits \subseteq Requests
          /\ \A s \in tasks[j].waits : request[s] # Free
          /\ j # i => r \notin tasks[j].waits
  BY TaskIs DEF TaskInv, TaskRecord, PagesInv, TasksInv
<1>3. r \in Requests /\ request[r] \in Request /\ request[r].op \in OpsNow(tasks[i])
  BY <1>1, <1>2 DEF OpsNow
<1>4. \A s \in Requests : s # r => request'[s] = request[s]
  BY <1>1 DEF Received
<1> QED
  BY <1>2, <1>3, <1>4 DEF WaitsKept

LEMMA ReceivedStep ==
    ASSUME IInv, NEW r \in Requests, request[r].step = "answered", Received(r),
           UNCHANGED tables
    PROVE  IInv' /\ Entitled
<1>1. Receive(r)
  BY DEF Received, Receive
<1> QED
  BY <1>1, GuardStep

\* Task t at i becomes u: it asked for a stage's operations.
Fetched(i, t, u, slot) ==
    /\ t = tasks[i] /\ t.waits = {} /\ t.todo # << >>
    /\ slot \in [Head(t.todo) -> Requests]
    /\ u = [t EXCEPT !.todo = Tail(t.todo),
                     !.waits = {slot[op] : op \in Head(t.todo)}]
    /\ tasks' = [tasks EXCEPT ![i] = u]
    /\ \A op \in Head(t.todo) :
          /\ request[slot[op]] = Free /\ request'[slot[op]] # Free
          /\ request'[slot[op]].op = op
          /\ request'[slot[op]].ws = IF op \in Unguarded THEN NULL ELSE t.ws
          /\ request'[slot[op]].step # "answered"
    /\ \A r \in Requests : request[r] # Free => request'[r] = request[r]

\* The requests of a stage are asked at once, and are the task's own.
LEMMA FetchIs ==
    ASSUME IInv, PagesInv, NEW i \in 1..Len(tasks), apiFetch(i)
    PROVE  /\ IInv' /\ Entitled
           /\ \E t, u, slot : Fetched(i, t, u, slot)
<1>1. PICK t : t = tasks[i]
  OBVIOUS
<1>2. PICK ops : ops = Head(t.todo)
  OBVIOUS
<1>3. t \in TaskRecord /\ TaskInv(t) /\ t.waits = {} /\ t.todo # << >>
      /\ UNCHANGED tables
  BY <1>1, TaskIs DEF apiFetch
<1>4. t.todo \in Seq(SUBSET Ops) /\ t.ws \in Workspaces /\ t.ws # NULL
  BY <1>3, AccessAssumption DEF TaskRecord
<1>5. ops \in SUBSET Ops /\ ops \in ToSet(t.todo)
  BY <1>2, <1>3, <1>4 DEF ToSet
<1>6. \A op \in ops : op \in Ops /\ t.says \in SaysOf(op)
  BY <1>3, <1>5 DEF TaskInv, OpsLeft
<1>7. PICK slot : slot = CHOOSE f \in Injection(ops, FreeRequests) : TRUE
  OBVIOUS
<1> DEFINE Ask(op) == FromUser(Visitor, IF op \in Unguarded THEN NULL ELSE t.ws,
                               op, t.says)
<1>8. /\ Injection(ops, FreeRequests) # {}
      /\ request' = [r \in Requests |->
             IF \E op \in ops : slot[op] = r
             THEN Ask(CHOOSE op \in ops : slot[op] = r) ELSE request[r]]
      /\ tasks' = [tasks EXCEPT ![i] =
             [t EXCEPT !.todo = Tail(t.todo), !.waits = {slot[op] : op \in ops}]]
  BY <1>1, <1>2, <1>7 DEF apiFetch
<1>9. /\ slot \in [ops -> FreeRequests]
      /\ \A a, b \in ops : slot[a] = slot[b] => a = b
  <2>1. slot \in Injection(ops, FreeRequests)
    BY <1>7, <1>8
  <2> QED
    BY <2>1 DEF Injection, IsInjective
<1>10. \A op \in ops : slot[op] \in Requests /\ request[slot[op]] = Free
  BY <1>9 DEF FreeRequests
<1>11. ASSUME NEW op \in ops
       PROVE  /\ request'[slot[op]] \in Request /\ GuardInv(slot[op])'
              /\ request'[slot[op]].op = op
              /\ request'[slot[op]].ws = IF op \in Unguarded THEN NULL ELSE t.ws
              /\ request'[slot[op]].step \in {"handle", "roles"}
  <2>1. PICK r, w : r = slot[op] /\ w = IF op \in Unguarded THEN NULL ELSE t.ws
    OBVIOUS
  <2>2. (CHOOSE o \in ops : slot[o] = r) = op
    BY <1>9, <2>1
  <2>3. request'[r] = FromUser(Visitor, w, op, t.says)
    BY <1>8, <1>10, <2>1, <2>2
  <2>4. /\ r \in Requests /\ w \in Workspaces \cup {NULL}
        /\ (op \in Unguarded <=> w = NULL)
    BY <1>4, <1>10, <2>1
  <2>5. Visitor \in Users /\ op \in Ops /\ t.says \in SaysOf(op)
    BY <1>6, DashboardAssumption
  <2>6. PICK says : says = t.says
    OBVIOUS
  <2> HIDE DEF Ask
  <2>7. /\ request'[r] \in Request /\ GuardInv(r)'
        /\ request'[r].op = op /\ request'[r].ws = w
        /\ request'[r].step \in {"handle", "roles"}
    BY <2>3, <2>4, <2>5, <2>6, AskIs
  <2> QED
    BY <2>1, <2>7
<1>12. /\ request' = [r \in Requests |-> request'[r]]
       /\ \A r \in Requests :
              \/ \E op \in ops : r = slot[op]
              \/ request'[r] = request[r]
  BY <1>8
<1> HIDE DEF Ask
<1>13. \A r \in Requests : request'[r] \in Request \cup {Free}
  BY <1>11, <1>12 DEF IInv, AccessTypeOK
<1>14. request' \in [Requests -> Request \cup {Free}]
  <2>1. [r \in Requests |-> request'[r]] \in [Requests -> Request \cup {Free}]
    BY <1>13
  <2> QED
    BY <1>12, <2>1, Zenon
<1>15. IInv'
  BY <1>3, <1>11, <1>12, <1>14, AskStep
<1>16. PICK u : u = [t EXCEPT !.todo = Tail(t.todo),
                              !.waits = {slot[op] : op \in ops}]
  OBVIOUS
<1>17. tasks' = [tasks EXCEPT ![i] = u]
  <2>1. i \in DOMAIN tasks
    BY TaskIs
  <2> QED
    BY <1>1, <1>3, <1>8, <1>16, <2>1 DEF TaskRecord
<1>18. \A r \in Requests : request[r] # Free => request'[r] = request[r]
  BY <1>10, <1>12
<1>19. \A op \in ops : request'[slot[op]] # Free /\ request'[slot[op]].step # "answered"
  BY <1>11, FreeIs
<1>20. slot \in [ops -> Requests]
  BY <1>9, <1>10
<1>21. Entitled
  BY <1>3, TablesUntouched
<1>22. \A op \in Head(t.todo) :
           /\ request[slot[op]] = Free /\ request'[slot[op]] # Free
           /\ request'[slot[op]].op = op
           /\ request'[slot[op]].ws = IF op \in Unguarded THEN NULL ELSE t.ws
           /\ request'[slot[op]].step # "answered"
  BY <1>2, <1>10, <1>11, <1>19
<1>23. Fetched(i, t, u, slot)
  BY <1>1, <1>2, <1>3, <1>16, <1>17, <1>18, <1>20, <1>22 DEF Fetched
<1> QED
  BY <1>15, <1>21, <1>23

-----------------------------------------------------------------------------
(* What becomes of a task that goes on.                                    *)

LEMMA HeadTailSet ==
    ASSUME NEW S, NEW s \in Seq(S), s # << >>
    PROVE  /\ Head(s) \in S /\ Tail(s) \in Seq(S) /\ Len(Tail(s)) = Len(s) - 1
           /\ s[1] = Head(s)
           /\ \A k \in 1..(Len(s) - 1) : Tail(s)[k] = s[k + 1]
           /\ ToSet(s) = {Head(s)} \cup ToSet(Tail(s))
<1>1. /\ Head(s) \in S /\ Tail(s) \in Seq(S) /\ Len(Tail(s)) = Len(s) - 1
      /\ s[1] = Head(s) /\ Len(s) \in Nat /\ Len(s) >= 1
      /\ \A k \in 1..(Len(s) - 1) : Tail(s)[k] = s[k + 1]
  BY HeadTailProperties
<1>2. DOMAIN s = 1..Len(s) /\ DOMAIN Tail(s) = 1..(Len(s) - 1)
  BY <1>1, LenProperties
<1>3. ASSUME NEW x \in ToSet(s) PROVE x \in {Head(s)} \cup ToSet(Tail(s))
  <2>1. PICK k \in 1..Len(s) : x = s[k]
    BY <1>2, <1>3 DEF ToSet
  <2>2. CASE k = 1
    BY <1>1, <2>1, <2>2
  <2>3. CASE k # 1
    <3>1. k - 1 \in 1..(Len(s) - 1) /\ (k - 1) + 1 = k
      BY <1>1, <2>3
    <3>2. Tail(s)[k - 1] = s[(k - 1) + 1]
      BY <1>1, <3>1
    <3> QED
      BY <1>2, <2>1, <3>1, <3>2 DEF ToSet
  <2> QED
    BY <2>2, <2>3
<1>4. ASSUME NEW x \in {Head(s)} \cup ToSet(Tail(s)) PROVE x \in ToSet(s)
  <2>1. CASE x = Head(s)
    <3>1. 1 \in DOMAIN s /\ x = s[1]
      BY <1>1, <1>2, <2>1
    <3> QED
      BY <3>1 DEF ToSet
  <2>2. CASE x \in ToSet(Tail(s))
    <3>1. PICK k \in 1..(Len(s) - 1) : x = Tail(s)[k]
      BY <1>2, <2>2 DEF ToSet
    <3>2. k + 1 \in DOMAIN s /\ x = s[k + 1]
      BY <1>1, <1>2, <3>1
    <3> QED
      BY <3>2 DEF ToSet
  <2> QED
    BY <1>4, <2>1, <2>2
<1> QED
  BY <1>1, <1>3, <1>4

LEMMA FetchedIs ==
    ASSUME IInv, PagesInv, NEW i \in 1..Len(tasks), NEW t, NEW u, NEW slot,
           Fetched(i, t, u, slot), UNCHANGED page
    PROVE  /\ u \in TaskRecord /\ TaskInv(u)'
           /\ u.writing = t.writing /\ u.ws = t.ws /\ u.got = {}
           /\ u.todo = Tail(t.todo) /\ OpsNow(u)' = Head(t.todo)
           /\ OpsNow(t) = {} /\ OpsLeft(u)' = OpsLeft(t)
           /\ \A r \in u.waits : r \in Requests /\ request'[r].step # "answered"
           /\ \A j \in 1..Len(tasks) : j # i =>
                 WaitsKept(tasks[j]) /\ u.waits \cap tasks[j].waits = {}
<1>1. /\ t \in TaskRecord /\ TaskInv(t) /\ t.waits = {} /\ t.got = {}
      /\ t.todo # << >> /\ t.todo \in Seq(SUBSET Ops)
  BY TaskIs DEF Fetched, TaskInv, TaskRecord
<1>2. PICK ops, rest : ops = Head(t.todo) /\ rest = Tail(t.todo)
  OBVIOUS
<1>3. /\ ops \in SUBSET Ops /\ rest \in Seq(SUBSET Ops)
      /\ ToSet(t.todo) = {ops} \cup ToSet(rest)
  BY <1>1, <1>2, HeadTailSet
<1>4. /\ slot \in [ops -> Requests]
      /\ u = [t EXCEPT !.todo = rest, !.waits = {slot[op] : op \in ops}]
      /\ \A op \in ops :
            /\ request[slot[op]] = Free /\ request'[slot[op]] # Free
            /\ request'[slot[op]].op = op
            /\ request'[slot[op]].ws = IF op \in Unguarded THEN NULL ELSE t.ws
            /\ request'[slot[op]].step # "answered"
      /\ \A r \in Requests : request[r] # Free => request'[r] = request[r]
  BY <1>2 DEF Fetched
<1>5. /\ u.for = t.for /\ u.writing = t.writing /\ u.ws = t.ws /\ u.says = t.says
      /\ u.todo = rest /\ u.got = {} /\ u.waits = {slot[op] : op \in ops}
      /\ u \in TaskRecord
  <2>1. PICK W : W = {slot[op] : op \in ops}
    OBVIOUS
  <2>2. W \in SUBSET Requests
    BY <1>4, <2>1
  <2>3. u = [t EXCEPT !.todo = rest, !.waits = W]
    BY <1>4, <2>1
  <2>4. /\ u.for = t.for /\ u.writing = t.writing /\ u.ws = t.ws
        /\ u.says = t.says /\ u.todo = rest /\ u.got = t.got /\ u.waits = W
        /\ u \in TaskRecord
    BY <1>1, <1>3, <2>2, <2>3 DEF TaskRecord
  <2> QED
    BY <1>1, <2>1, <2>4
<1>6. OpsNow(u)' = ops
  BY <1>4, <1>5 DEF OpsNow
<1>7. OpsNow(t) = {} /\ OpsLeft(t) = UNION ({ops} \cup ToSet(rest))
  BY <1>1, <1>3 DEF OpsNow, OpsLeft
<1>8. OpsLeft(u)' = OpsNow(u)' \cup UNION ToSet(rest)
  <2>1. OpsLeft(u)' = OpsNow(u)' \cup UNION ToSet(u.todo)
    BY DEF OpsLeft, ToSet
  <2> QED
    BY <1>5, <2>1
<1>9. OpsLeft(u)' = OpsLeft(t)
  BY <1>6, <1>7, <1>8
<1>10. \A r \in u.waits :
           /\ r \in Requests /\ request[r] = Free /\ request'[r] # Free
           /\ request'[r].step # "answered"
           /\ request'[r].ws = IF request'[r].op \in Unguarded THEN NULL ELSE u.ws
  BY <1>4, <1>5
<1>11. TaskInv(u)'
  BY <1>1, <1>5, <1>9, <1>10 DEF TaskInv
<1>12. \A j \in 1..Len(tasks) : \A r \in tasks[j].waits :
           r \in Requests /\ request[r] # Free
  BY TaskIs DEF TaskInv, TaskRecord
<1>13. \A j \in 1..Len(tasks) : WaitsKept(tasks[j]) /\ u.waits \cap tasks[j].waits = {}
  BY <1>4, <1>10, <1>12 DEF WaitsKept
<1> QED
  BY <1>2, <1>5, <1>6, <1>7, <1>9, <1>10, <1>11, <1>13

\* One new task in the list.
LEMMA OneTaskChanges ==
    ASSUME PagesInv, NEW i \in 1..Len(tasks), NEW u \in TaskRecord,
           tasks' = [tasks EXCEPT ![i] = u], TaskInv(u)', UNCHANGED <<page, path>>,
           \A j \in 1..Len(tasks) : j # i =>
               WaitsKept(tasks[j]) /\ u.waits \cap tasks[j].waits = {}
    PROVE  TasksInv'
<1>1. PICK f : f = [k \in 1..Len(tasks') |-> IF k = i THEN 0 ELSE k]
  OBVIOUS
<1>2. /\ tasks' \in Seq(TaskRecord) /\ Len(tasks') = Len(tasks) /\ tasks'[i] = u
      /\ Follows(f, i)
  BY <1>1, FollowsChanged DEF PagesInv, TasksInv
<1>3. \A k \in 1..Len(tasks') : f[k] = 0 => k = i
  BY <1>1, <1>2, TaskIs
<1>4. TaskInv(tasks[i])'
  BY <1>2
<1>5. path' = "protected" /\ Len(tasks') <= MaxTasks
  <2>1. tasks # << >>
    BY TaskIs
  <2> QED
    BY <1>2, <2>1 DEF PagesInv, TasksInv
<1> QED
  BY <1>2, <1>3, <1>4, <1>5, TasksFollow

\* Task t at i becomes u: it takes the answer of r.
Arrived(i, t, u, r, answer) ==
    /\ t = tasks[i] /\ r \in t.waits /\ t.waits # {r} /\ Received(r)
    /\ answer.op = request[r].op /\ answer.reply = request[r].reply
    /\ answer \in Answers
    /\ u = [t EXCEPT !.waits = t.waits \ {r}, !.got = t.got \cup {answer}]
    /\ tasks' = [tasks EXCEPT ![i] = u]

LEMMA ArrivedIs ==
    ASSUME IInv, PagesInv, NEW i \in 1..Len(tasks), NEW t, NEW u, NEW r,
           NEW answer, Arrived(i, t, u, r, answer), UNCHANGED page
    PROVE  /\ u \in TaskRecord /\ TaskInv(u)'
           /\ u.writing = t.writing /\ u.ws = t.ws /\ u.todo = t.todo
           /\ u.waits = t.waits \ {r} /\ u.got = t.got \cup {answer}
           /\ OpsNow(u)' = OpsNow(t) /\ OpsLeft(u)' = OpsLeft(t)
           /\ \A s \in u.waits : s \in Requests /\ request'[s] = request[s]
           /\ \A j \in 1..Len(tasks) : j # i =>
                 WaitsKept(tasks[j]) /\ u.waits \cap tasks[j].waits = {}
<1>0. t = tasks[i] /\ r \in t.waits /\ t.waits # {r} /\ Received(r)
  BY DEF Arrived
<1>1. t \in TaskRecord /\ TaskInv(t) /\ t.waits \subseteq Requests
  BY <1>0, TaskIs DEF TaskRecord
<1>2. /\ r \in Requests /\ request[r] \in Request
      /\ \A s \in Requests : s # r => request'[s] = request[s]
      /\ \A j \in 1..Len(tasks) : j # i => WaitsKept(tasks[j])
  BY <1>0, ReceivedIs
<1>3. answer \in Answers /\ answer.op = request[r].op
  BY DEF Arrived
<1>4. /\ u.for = t.for /\ u.writing = t.writing /\ u.ws = t.ws /\ u.says = t.says
      /\ u.todo = t.todo /\ u.waits = t.waits \ {r} /\ u.got = t.got \cup {answer}
      /\ u \in TaskRecord
  <2>1. PICK W, G : W = t.waits \ {r} /\ G = t.got \cup {answer}
    OBVIOUS
  <2>2. W \in SUBSET Requests /\ G \in SUBSET Answers
    BY <1>1, <1>3, <2>1 DEF TaskRecord
  <2>3. u = [t EXCEPT !.waits = W, !.got = G]
    BY <2>1 DEF Arrived
  <2>4. /\ u.for = t.for /\ u.writing = t.writing /\ u.ws = t.ws
        /\ u.says = t.says /\ u.todo = t.todo /\ u.got = G /\ u.waits = W
        /\ u \in TaskRecord
    BY <1>1, <2>2, <2>3 DEF TaskRecord
  <2> QED
    BY <2>1, <2>4
<1>5. \A s \in u.waits : s \in Requests /\ s # r /\ request'[s] = request[s]
  BY <1>1, <1>2, <1>4
<1>6. OpsNow(u)' = OpsNow(t)
  <2>1. OpsNow(u)' = {request'[s].op : s \in u.waits} \cup {g.op : g \in u.got}
    BY DEF OpsNow
  <2>2. {g.op : g \in u.got} = {g.op : g \in t.got} \cup {request[r].op}
    BY <1>3, <1>4
  <2>3. {request[s].op : s \in t.waits} =
            {request'[s].op : s \in u.waits} \cup {request[r].op}
    BY <1>0, <1>4, <1>5
  <2> QED
    BY <2>1, <2>2, <2>3 DEF OpsNow
<1>7. OpsLeft(u)' = OpsLeft(t)
  <2>1. OpsLeft(u)' = OpsNow(u)' \cup UNION ToSet(u.todo)
    BY DEF OpsLeft, ToSet
  <2> QED
    BY <1>4, <1>6, <2>1 DEF OpsLeft
<1>8. /\ u.waits # {}
      /\ \A s \in u.waits :
            /\ request'[s] # Free
            /\ request'[s].ws = IF request'[s].op \in Unguarded THEN NULL ELSE u.ws
  BY <1>0, <1>1, <1>4, <1>5 DEF TaskInv
<1>9. TaskInv(u)'
  BY <1>1, <1>4, <1>7, <1>8 DEF TaskInv
<1>10. \A j \in 1..Len(tasks) : j # i => u.waits \cap tasks[j].waits = {}
  BY <1>0, <1>4 DEF PagesInv, TasksInv
<1> QED
  BY <1>2, <1>4, <1>5, <1>6, <1>7, <1>9, <1>10

LEMMA OneTaskLess ==
    ASSUME PagesInv, NEW i \in 1..Len(tasks), tasks' = RemoveAt(tasks, i),
           UNCHANGED <<page, path>>,
           \A j \in 1..Len(tasks) : j # i => WaitsKept(tasks[j])
    PROVE  TasksInv'
<1>1. PICK f : f = [k \in 1..Len(tasks') |-> IF k < i THEN k ELSE k + 1]
  OBVIOUS
<1>2. /\ tasks' \in Seq(TaskRecord) /\ Len(tasks') = Len(tasks) - 1
      /\ Follows(f, i)
  BY <1>1, FollowsRemoved DEF PagesInv, TasksInv
<1>3. \A k \in 1..Len(tasks') : f[k] # 0
  BY <1>1, <1>2, TaskIs
<1>4. path' = "protected" /\ Len(tasks') <= MaxTasks
  <2>1. tasks # << >> /\ Len(tasks) \in Nat
    BY TaskIs
  <2> QED
    BY <1>2, <2>1, DashboardAssumption DEF PagesInv, TasksInv
<1> QED
  BY <1>2, <1>3, <1>4, TasksFollow

LEMMA OneTaskAgain ==
    ASSUME PagesInv, NEW i \in 1..Len(tasks), NEW u \in TaskRecord,
           tasks' = Append(RemoveAt(tasks, i), u), u.waits = {}, TaskInv(u)',
           UNCHANGED <<page, path>>,
           \A j \in 1..Len(tasks) : j # i => WaitsKept(tasks[j])
    PROVE  TasksInv'
<1>1. PICK f : f = [k \in 1..Len(tasks') |->
                       IF k = Len(tasks) THEN 0
                       ELSE IF k < i THEN k ELSE k + 1]
  OBVIOUS
<1>2. /\ tasks' \in Seq(TaskRecord) /\ Len(tasks') = Len(tasks)
      /\ tasks'[Len(tasks)] = u /\ Follows(f, i)
  BY <1>1, FollowsReplaced DEF PagesInv, TasksInv
<1>3. \A k \in 1..Len(tasks') : f[k] = 0 => k = Len(tasks)
  BY <1>1, <1>2, TaskIs
<1>4. TaskInv(tasks[Len(tasks)])'
  BY <1>2
<1>5. path' = "protected" /\ Len(tasks') <= MaxTasks
  <2>1. tasks # << >>
    BY TaskIs
  <2> QED
    BY <1>2, <2>1 DEF PagesInv, TasksInv
<1> QED
  BY <1>2, <1>3, <1>4, <1>5, TasksFollow

LEMMA TasksAdded ==
    ASSUME PagesInv, NEW new \in Seq(TaskRecord), tasks' = tasks \o new,
           \A k \in 1..Len(new) : new[k].waits = {},
           \A k \in 1..Len(new) : \A u : u = new[k] => TaskInv(u)',
           Len(tasks) + Len(new) <= MaxTasks,
           path' = "protected", UNCHANGED <<page, request>>
    PROVE  TasksInv'
<1>1. PICK f : f = [k \in 1..Len(tasks') |-> IF k <= Len(tasks) THEN k ELSE 0]
  OBVIOUS
<1>2. /\ tasks' \in Seq(TaskRecord) /\ Len(tasks') = Len(tasks) + Len(new)
      /\ \A k \in 1..Len(new) : tasks'[Len(tasks) + k] = new[k]
      /\ Follows(f, 0) /\ Len(tasks) \in Nat /\ Len(new) \in Nat
  <2>1. tasks \in Seq(TaskRecord)
    BY DEF PagesInv, TasksInv
  <2>2. Len(tasks) \in Nat /\ Len(new) \in Nat
    BY <2>1, LenProperties
  <2> QED
    BY <1>1, <2>1, <2>2, FollowsExtended
<1>3. ASSUME NEW k \in 1..Len(tasks'), f[k] = 0
      PROVE  tasks'[k].waits = {} /\ TaskInv(tasks[k])'
  <2>1. PICK l : l = k - Len(tasks)
    OBVIOUS
  <2>2. l \in 1..Len(new) /\ k = Len(tasks) + l
    BY <1>1, <1>2, <1>3, <2>1
  <2>3. tasks'[k] = new[l]
    BY <1>2, <2>2
  <2>4. PICK u : u = new[l]
    OBVIOUS
  <2>5. TaskInv(u)' /\ u.waits = {} /\ tasks'[k] = u
    BY <2>2, <2>3, <2>4
  <2> QED
    BY <2>5
<1>4. \A j \in 1..Len(tasks) : WaitsKept(tasks[j])
  BY TaskIs DEF WaitsKept, TaskInv
<1> QED
  BY <1>2, <1>3, <1>4, TasksFollow

-----------------------------------------------------------------------------
(* Each action keeps the types of the page, and the invariant of its       *)
(* tasks.                                                                  *)

LEMMA FetchPages ==
    ASSUME IInv, PagesInv, NEW i \in 1..Len(tasks), apiFetch(i)
    PROVE  PagesInv'
<1>1. UNCHANGED <<session, path, page, selected, shown, userRole, loading,
                  picked, failures, calm, faulted, mine>>
  BY DEF apiFetch, route, past
<1>2. PICK t, u, slot : Fetched(i, t, u, slot)
  BY FetchIs
<1>3. tasks' = [tasks EXCEPT ![i] = u]
  BY <1>2 DEF Fetched
<1>4. TasksInv'
  BY <1>1, <1>2, <1>3, FetchedIs, OneTaskChanges
<1> QED
  BY <1>1, <1>4 DEF PagesInv, PageTypes

LEMMA ArriveIs ==
    ASSUME IInv, PagesInv, NEW i \in 1..Len(tasks), NEW r, answerArrives(i, r)
    PROVE  \E t, u, answer : Arrived(i, t, u, r, answer)
<1>1. PICK t : t = tasks[i]
  OBVIOUS
<1>2. PICK answer : answer = [op |-> request[r].op, reply |-> request[r].reply]
  OBVIOUS
<1>3. PICK u : u = [t EXCEPT !.waits = t.waits \ {r}, !.got = t.got \cup {answer}]
  OBVIOUS
<1>4. /\ r \in t.waits /\ t.waits # {r} /\ Received(r)
      /\ tasks' = [tasks EXCEPT ![i] = u]
  BY <1>1, <1>2, <1>3 DEF answerArrives, Answered
<1>5. request[r] \in Request
  BY <1>1, <1>4, ReceivedIs
<1>6. answer.op = request[r].op /\ answer.reply = request[r].reply /\ answer \in Answers
  BY <1>2, <1>5 DEF Answers, Request
<1>7. Arrived(i, t, u, r, answer)
  BY <1>1, <1>3, <1>4, <1>6 DEF Arrived
<1> QED
  BY <1>7

LEMMA ArrivePages ==
    ASSUME IInv, PagesInv, NEW i \in 1..Len(tasks), NEW r, answerArrives(i, r)
    PROVE  PagesInv'
<1>1. UNCHANGED <<session, path, page, selected, shown, userRole, loading,
                  picked, failures, calm, faulted, mine>>
  BY DEF answerArrives, route, past
<1>2. PICK t, u, answer : Arrived(i, t, u, r, answer)
  BY ArriveIs
<1>3. tasks' = [tasks EXCEPT ![i] = u]
  BY <1>2 DEF Arrived
<1>4. TasksInv'
  BY <1>1, <1>2, <1>3, ArrivedIs, OneTaskChanges
<1> QED
  BY <1>1, <1>4 DEF PagesInv, PageTypes

\* What is shown of the answers.
ShownOf(got, t) ==
    \A op \in OpsOf(page) :
        IF \E g \in got : g.op = op
        THEN /\ shown'[op].ws = t.ws
             /\ \E g \in got : g.op = op /\ shown'[op].count = g.reply.count
        ELSE shown'[op] = shown[op]

LEMMA ShownIs ==
    ASSUME PagesInv, NEW got \in SUBSET Answers, NEW t \in TaskRecord,
           shown' = [op \in DOMAIN shown |->
               IF \E g \in got : g.op = op
               THEN [ws |-> t.ws,
                     count |-> (CHOOSE g \in got : g.op = op).reply.count]
               ELSE shown[op]]
    PROVE  /\ shown' \in [OpsOf(page) -> [ws : Workspaces \cup {NULL}, count : 0..MaxSaves]]
           /\ ShownOf(got, t)
<1> DEFINE Is(op) == CHOOSE g \in got : g.op = op
<1>1. shown \in [OpsOf(page) -> [ws : Workspaces \cup {NULL}, count : 0..MaxSaves]]
      /\ t.ws \in Workspaces
  BY DEF PagesInv, PageTypes, TaskRecord
<1>2. shown' = [op \in OpsOf(page) |->
                   IF \E g \in got : g.op = op
                   THEN [ws |-> t.ws, count |-> Is(op).reply.count]
                   ELSE shown[op]]
  BY <1>1
<1>3. ASSUME NEW op, \E g \in got : g.op = op
      PROVE  /\ Is(op) \in got /\ Is(op).op = op
             /\ Is(op).reply.count \in 0..MaxSaves
  <2>1. Is(op) \in got /\ Is(op).op = op
    BY <1>3
  <2> HIDE DEF Is
  <2> QED
    BY <2>1 DEF Answers, Reply
<1> HIDE DEF Is
<1>4. ShownOf(got, t)
  BY <1>2, <1>3 DEF ShownOf
<1> QED
  BY <1>1, <1>2, <1>3, <1>4

\* Task t at i has had the answers of a stage, the last for r, and shows them.
StageShown(i, t, r, answer) ==
    /\ t = tasks[i] /\ t.waits = {r} /\ ~t.writing /\ Received(r)
    /\ request[r].step = "answered" /\ request[r].reply.ok
    /\ answer \in Answers
    /\ answer.op = request[r].op /\ answer.reply = request[r].reply
    /\ OpsNow(t) = {g.op : g \in t.got \cup {answer}}
    /\ ShownOf(t.got \cup {answer}, t)

LEMMA StageIs ==
    ASSUME IInv, PagesInv, NEW i \in 1..Len(tasks), NEW r, stageShown(i, r)
    PROVE  /\ \E t, answer : StageShown(i, t, r, answer)
           /\ shown' \in [OpsOf(page) -> [ws : Workspaces \cup {NULL}, count : 0..MaxSaves]]
           /\ userRole' \in Role \cup {NULL}
<1>1. PICK t : t = tasks[i]
  OBVIOUS
<1>2. PICK answer : answer = [op |-> request[r].op, reply |-> request[r].reply]
  OBVIOUS
<1>3. PICK got : got = t.got \cup {answer}
  OBVIOUS
<1>4. /\ r \in t.waits /\ t.waits = {r} /\ ~t.writing /\ Received(r)
      /\ request[r].step = "answered" /\ request[r].reply.ok
      /\ userRole' = IF request[r].op = "getWorkspaces"
                     THEN request[r].reply.roles[t.ws] ELSE userRole
      /\ shown' = [op \in DOMAIN shown |->
             IF \E g \in got : g.op = op
             THEN [ws |-> t.ws,
                   count |-> (CHOOSE g \in got : g.op = op).reply.count]
             ELSE shown[op]]
  BY <1>1, <1>2, <1>3 DEF stageShown, Answered
<1>5. t \in TaskRecord /\ TaskInv(t)
  BY <1>1, TaskIs
<1>6. request[r] \in Request
  BY <1>1, <1>4, ReceivedIs
<1>7. answer.op = request[r].op /\ answer.reply = request[r].reply /\ answer \in Answers
  BY <1>2, <1>6 DEF Answers, Request
<1>8. got \in SUBSET Answers
  BY <1>3, <1>5, <1>7 DEF TaskRecord
<1>9. /\ shown' \in [OpsOf(page) -> [ws : Workspaces \cup {NULL}, count : 0..MaxSaves]]
      /\ ShownOf(got, t)
  BY <1>4, <1>5, <1>8, ShownIs
<1>10. OpsNow(t) = {g.op : g \in got}
  BY <1>3, <1>4, <1>7 DEF OpsNow
<1>11. userRole' \in Role \cup {NULL}
  <2>1. request[r].reply.roles \in [Workspaces -> Role \cup {NULL}] /\ t.ws \in Workspaces
    BY <1>5, <1>6 DEF Request, Reply, Roles, TaskRecord
  <2>2. userRole \in Role \cup {NULL}
    BY DEF PagesInv, PageTypes
  <2> QED
    BY <1>4, <2>1, <2>2
<1>12. StageShown(i, t, r, answer)
  BY <1>1, <1>3, <1>4, <1>7, <1>9, <1>10 DEF StageShown
<1> QED
  BY <1>9, <1>11, <1>12

\* The task that goes on to its next stage.
NextStage(t, u) == u = [t EXCEPT !.waits = {}, !.got = {}]

LEMMA NextStageIs ==
    ASSUME PagesInv, NEW i \in 1..Len(tasks), NEW t, t = tasks[i],
           NEW u, NextStage(t, u), UNCHANGED page
    PROVE  /\ u \in TaskRecord /\ TaskInv(u)'
           /\ u.waits = {} /\ u.got = {} /\ u.todo = t.todo
           /\ u.writing = t.writing /\ u.ws = t.ws
           /\ OpsNow(u)' = {} /\ OpsLeft(u)' = UNION ToSet(t.todo)
<1>1. t \in TaskRecord /\ TaskInv(t)
  BY TaskIs
<1>2. /\ u \in TaskRecord /\ u.waits = {} /\ u.got = {} /\ u.todo = t.todo
      /\ u.writing = t.writing /\ u.ws = t.ws /\ u.for = t.for /\ u.says = t.says
  BY <1>1 DEF TaskRecord, NextStage
<1>3. OpsNow(u)' = {}
  BY <1>2 DEF OpsNow
<1>4. OpsLeft(u)' = UNION ToSet(t.todo)
  <2>1. OpsLeft(u)' = OpsNow(u)' \cup UNION ToSet(u.todo)
    BY DEF OpsLeft, ToSet
  <2> QED
    BY <1>2, <1>3, <2>1
<1>5. OpsLeft(u)' \subseteq OpsLeft(t)
  BY <1>4 DEF OpsLeft
<1>6. TaskInv(u)'
  BY <1>1, <1>2, <1>5 DEF TaskInv
<1> QED
  BY <1>2, <1>3, <1>4, <1>6

LEMMA StagePages ==
    ASSUME IInv, PagesInv, NEW i \in 1..Len(tasks), NEW r, stageShown(i, r)
    PROVE  PagesInv'
<1>1. /\ UNCHANGED <<session, path, page, selected, picked, failures, calm,
                     faulted, mine>>
      /\ loading' \in BOOLEAN
  BY DEF stageShown, route, past
<1>2. PICK t, answer : StageShown(i, t, r, answer)
  BY StageIs
<1>3. PICK u : NextStage(t, u)
  BY DEF NextStage
<1>4. \/ tasks' = RemoveAt(tasks, i)
      \/ tasks' = Append(RemoveAt(tasks, i), u)
  BY <1>2, <1>3 DEF stageShown, StageShown, NextStage
<1>5. \A j \in 1..Len(tasks) : j # i => WaitsKept(tasks[j])
  <2>1. r \in tasks[i].waits /\ Received(r)
    BY <1>2 DEF StageShown
  <2> QED
    BY <2>1, ReceivedIs
<1>6. u \in TaskRecord /\ TaskInv(u)' /\ u.waits = {}
  <2>1. t = tasks[i] /\ UNCHANGED page
    BY <1>1, <1>2 DEF StageShown
  <2> QED
    BY <1>3, <2>1, NextStageIs
<1>7. TasksInv'
  BY <1>1, <1>4, <1>5, <1>6, OneTaskLess, OneTaskAgain
<1>8. PageTypes'
  BY <1>1, StageIs DEF PagesInv, PageTypes
<1> QED
  BY <1>7, <1>8 DEF PagesInv

\* Task t at i has had the answer of its write, with that count.
WriteDone(i, t, r, count) ==
    /\ t = tasks[i] /\ t \in TaskRecord /\ r \in t.waits /\ t.writing
    /\ Received(r)
    /\ request[r].step = "answered" /\ request[r].reply.ok
    /\ count = request[r].reply.count /\ count \in 0..MaxSaves
    /\ request[r].op = t.for /\ t.for \in page.writes /\ t.for \in Writes
    /\ ShownBy[t.for] \in Lists
    /\ mine' = [mine EXCEPT ![t.ws][ShownBy[t.for]] = IF count > @ THEN count ELSE @]
    /\ shown' = IF t.for = "updateSettings"
                THEN [shown EXCEPT !["getWorkspace"] = [ws |-> t.ws, count |-> count]]
                ELSE shown

LEMMA WriteDoneIs ==
    ASSUME IInv, PagesInv, NEW i \in 1..Len(tasks), NEW r, writeAnswered(i, r)
    PROVE  \E t, count : WriteDone(i, t, r, count)
<1>1. PICK t : t = tasks[i]
  OBVIOUS
<1>2. PICK count : count = request[r].reply.count
  OBVIOUS
<1>3. /\ r \in t.waits /\ t.writing /\ Received(r)
      /\ request[r].step = "answered" /\ request[r].reply.ok
      /\ mine' = [mine EXCEPT ![t.ws][ShownBy[t.for]] = IF count > @ THEN count ELSE @]
      /\ shown' = IF t.for = "updateSettings"
                  THEN [shown EXCEPT !["getWorkspace"] =
                           [ws |-> t.ws, count |-> count]]
                  ELSE shown
  BY <1>1, <1>2 DEF writeAnswered, Answered
<1>4. t \in TaskRecord /\ TaskInv(t)
  BY <1>1, TaskIs
<1>5. request[r] \in Request /\ request[r].op \in OpsNow(t)
  BY <1>1, <1>3, ReceivedIs
<1>6. request[r].op = t.for /\ t.for \in page.writes /\ t.for \in Writes
  <2>1. t.for \in page.writes /\ OpsLeft(t) \subseteq {t.for}
    BY <1>3, <1>4 DEF TaskInv
  <2>2. page.writes \subseteq Writes
    BY TaskIs DEF PageInv
  <2> QED
    BY <1>5, <2>1, <2>2 DEF OpsLeft
<1>7. count \in 0..MaxSaves
  BY <1>2, <1>5 DEF Request, Reply
<1>8. ShownBy[t.for] \in Lists
  BY <1>6, ShownIsList
<1>9. WriteDone(i, t, r, count)
  BY <1>1, <1>2, <1>3, <1>4, <1>6, <1>7, <1>8 DEF WriteDone
<1> QED
  BY <1>9

LEMMA WritePages ==
    ASSUME IInv, PagesInv, NEW i \in 1..Len(tasks), NEW r, writeAnswered(i, r)
    PROVE  PagesInv'
<1>1. UNCHANGED <<session, path, page, selected, userRole, failures, calm, faulted>>
  BY DEF writeAnswered, route
<1>2. PICK t, count : WriteDone(i, t, r, count)
  BY WriteDoneIs
<1>3. /\ t = tasks[i] /\ t \in TaskRecord /\ t.ws \in Workspaces /\ t.for \in Writes
      /\ r \in tasks[i].waits /\ Received(r) /\ count \in 0..MaxSaves
  BY <1>2 DEF WriteDone, TaskRecord
<1>4. PICK u : u = Task(t.for, FALSE, t.ws, Nothing, page.again)
  OBVIOUS
<1>5. \/ tasks' = RemoveAt(tasks, i)
      \/ page.again # << >> /\ tasks' = Append(RemoveAt(tasks, i), u)
  BY <1>3, <1>4 DEF writeAnswered
<1>6. \A j \in 1..Len(tasks) : j # i => WaitsKept(tasks[j])
  BY <1>3, ReceivedIs
<1>7. page.again # << >> => u \in TaskRecord /\ TaskInv(u)' /\ u.waits = {}
  <2>1. PICK p, for, w, load : /\ p = page /\ for = t.for /\ w = t.ws
                               /\ load = page.again
    OBVIOUS
  <2>2. p \in Pages /\ for \in Writes \cup {"load"} /\ w \in Workspaces /\ page' = p
    BY <1>1, <1>3, <2>1, TaskIs
  <2>3. u = Task(for, FALSE, w, Nothing, load)
    BY <1>4, <2>1
  <2>4. ASSUME load # << >>
        PROVE  LoadInv(load, p) /\ UNION ToSet(load) \subseteq OpsOf(p)
    BY <2>1, <2>2, <2>4, AgainIs
  <2>5. load # << >> => u \in TaskRecord /\ TaskInv(u)' /\ u.waits = {}
    BY <2>2, <2>3, <2>4, LoadIs
  <2> QED
    BY <2>1, <2>5
<1>8. TasksInv'
  BY <1>1, <1>5, <1>6, <1>7, OneTaskLess, OneTaskAgain
<1>9. shown' \in [OpsOf(page) -> [ws : Workspaces \cup {NULL}, count : 0..MaxSaves]]
  <2>1. PICK new : new = [ws |-> t.ws, count |-> count]
    OBVIOUS
  <2>2. new \in [ws : Workspaces \cup {NULL}, count : 0..MaxSaves]
    BY <1>3, <2>1
  <2>3. shown' = shown \/ shown' = [shown EXCEPT !["getWorkspace"] = new]
    BY <1>2, <2>1 DEF WriteDone
  <2> QED
    BY <2>2, <2>3 DEF PagesInv, PageTypes
<1>10. mine' \in [Workspaces -> [Lists -> 0..MaxSaves]]
  <2>1. PICK w, l : w = t.ws /\ l = ShownBy[t.for]
    OBVIOUS
  <2>2. w \in Workspaces /\ l \in Lists
    BY <1>2, <1>3, <2>1 DEF WriteDone
  <2>3. mine' = [mine EXCEPT ![w][l] = IF count > @ THEN count ELSE @]
    BY <1>2, <2>1 DEF WriteDone
  <2> QED
    BY <1>3, <2>2, <2>3 DEF PagesInv, PageTypes
<1>11. loading' \in BOOLEAN /\ picked' \in {Nothing} \cup (Campaigns \X Buyers \X Priorities)
  <2>1. picked' = Nothing \/ picked' = picked
    BY DEF writeAnswered
  <2>2. loading' \in BOOLEAN
    BY DEF writeAnswered
  <2> QED
    BY <2>1, <2>2 DEF PagesInv, PageTypes
<1>12. PageTypes'
  BY <1>1, <1>9, <1>10, <1>11 DEF PagesInv, PageTypes
<1> QED
  BY <1>8, <1>12 DEF PagesInv

LEMMA FailPages ==
    ASSUME IInv, PagesInv, NEW i \in 1..Len(tasks), NEW r,
           refused(i, r) \/ lost(i, r)
    PROVE  PagesInv'
<1>1. /\ r \in tasks[i].waits /\ Fails(i)
      /\ Received(r) \/ UNCHANGED request
      /\ \/ failures' = failures
         \/ failures < MaxFailures /\ failures' = failures + 1
  <2>1. CASE refused(i, r)
    BY <2>1 DEF refused, Answered
  <2>2. CASE lost(i, r)
    BY <2>2 DEF lost, accessVars
  <2> QED
    BY <2>1, <2>2
<1>2. /\ tasks' = RemoveAt(tasks, i)
      /\ UNCHANGED <<session, path, calm, mine, page, selected, shown, userRole, picked>>
      /\ loading' \in BOOLEAN /\ faulted' \in BOOLEAN
  BY <1>1 DEF Fails, route
<1>3. \A j \in 1..Len(tasks) : j # i => WaitsKept(tasks[j])
  <2>1. CASE Received(r)
    BY <1>1, <2>1, ReceivedIs
  <2>2. CASE UNCHANGED request
    BY <2>2, TaskIs DEF WaitsKept, TaskInv
  <2> QED
    BY <1>1, <2>1, <2>2
<1>4. TasksInv'
  BY <1>2, <1>3, OneTaskLess
<1>5. failures' \in 0..MaxFailures
  BY <1>1, DashboardAssumption DEF PagesInv, PageTypes
<1> QED
  BY <1>2, <1>4, <1>5 DEF PagesInv, PageTypes

LEMMA SwitchPages ==
    ASSUME IInv, PagesInv, NEW w \in Workspaces, SwitchWorkspace(w)
    PROVE  PagesInv'
<1>1. /\ path = "protected" /\ selected' = w
      /\ Len(tasks) + Len(page.loads) <= MaxTasks
      /\ tasks' = tasks \o LoadTasks(page, w)
      /\ loading' \in BOOLEAN /\ faulted' = FALSE
      /\ UNCHANGED <<session, path, page, shown, userRole, picked, failures, calm,
                     mine, request>>
  BY DEF SwitchWorkspace, route, accessVars
<1>2. PICK p, new : p = page /\ new = LoadTasks(page, w)
  OBVIOUS
<1>3. p \in Pages
  BY <1>2, TaskIs
<1>4. new \in Seq(TaskRecord) /\ Len(new) = Len(p.loads)
  BY <1>2, <1>3, LoadTasksAre
<1>5. ASSUME NEW k \in 1..Len(new), NEW u, u = new[k]
      PROVE  TaskInv(u)' /\ u.waits = {}
  <2>1. PICK load, for : load = p.loads[k] /\ for = "load"
    OBVIOUS
  <2>2. /\ u = Task(for, FALSE, w, Nothing, load) /\ for \in Writes \cup {"load"}
        /\ LoadInv(load, p) /\ UNION ToSet(load) \subseteq OpsOf(p)
    BY <1>2, <1>3, <1>4, <1>5, <2>1, LoadTasksAre
  <2>3. page' = p
    BY <1>1, <1>2
  <2> QED
    BY <1>3, <2>2, <2>3, LoadIs
<1>6. TasksInv'
  <2>1. \A k \in 1..Len(new) : new[k].waits = {}
    BY <1>5
  <2>2. \A k \in 1..Len(new) : \A u : u = new[k] => TaskInv(u)'
    BY <1>5
  <2>3. Len(tasks) + Len(new) <= MaxTasks /\ tasks' = tasks \o new
    BY <1>1, <1>2, <1>4
  <2>4. path' = "protected" /\ UNCHANGED <<page, request>>
    BY <1>1
  <2> QED
    BY <1>4, <2>1, <2>2, <2>3, <2>4, TasksAdded
<1> QED
  BY <1>1, <1>6 DEF PagesInv, PageTypes

LEMMA ClickPages ==
    ASSUME IInv, PagesInv, NEW op \in Writes, Click(op)
    PROVE  PagesInv'
<1>1. /\ path = "protected" /\ selected # NULL /\ op \in page.writes
      /\ Len(tasks) < MaxTasks
      /\ UNCHANGED <<session, path, page, selected, shown, userRole, loading,
                     picked, failures, calm, faulted, mine, request>>
  BY DEF Click, route, past, accessVars
<1>2. PICK says \in SaysOf(op) :
          tasks' = Append(tasks, Task(op, TRUE, selected, says, <<{op}>>))
  BY DEF Click
<1>3. PICK w, t : w = selected /\ t = Task(op, TRUE, w, says, <<{op}>>)
  OBVIOUS
<1>4. w \in Workspaces
  BY <1>1, <1>3 DEF PagesInv, PageTypes
<1>5. t \in TaskRecord /\ TaskInv(t)' /\ t.waits = {}
  BY <1>1, <1>3, <1>4, WriteIs
<1>6. PICK new : new = <<t>>
  OBVIOUS
<1>7. tasks' = tasks \o new
  <2>1. tasks \in Seq(TaskRecord)
    BY DEF PagesInv, TasksInv
  <2>2. tasks' = Append(tasks, t)
    BY <1>2, <1>3
  <2> QED
    BY <1>5, <1>6, <2>1, <2>2, AppendIsConcat
<1>8. new \in Seq(TaskRecord) /\ Len(new) = 1 /\ new[1] = t
  BY <1>5, <1>6
<1>9. \A k \in 1..Len(new) : new[k] = t
  BY <1>8
<1>10. TasksInv'
  <2>1. \A k \in 1..Len(new) : new[k].waits = {}
    BY <1>5, <1>9
  <2>2. \A k \in 1..Len(new) : \A u : u = new[k] => TaskInv(u)'
    BY <1>5, <1>9
  <2>3. Len(tasks) + Len(new) <= MaxTasks
    BY <1>1, <1>8, TaskIs, DashboardAssumption
  <2>4. path' = "protected" /\ UNCHANGED <<page, request>>
    BY <1>1
  <2> QED
    BY <1>7, <1>8, <2>1, <2>2, <2>3, <2>4, TasksAdded
<1> QED
  BY <1>1, <1>10 DEF PagesInv, PageTypes

LEMMA NewTasks ==
    ASSUME tasks' \in Seq(TaskRecord), Len(tasks') <= MaxTasks,
           \A k \in 1..Len(tasks') : TaskInv(tasks[k])',
           \A j, k \in 1..Len(tasks') : tasks'[j].waits \cap tasks'[k].waits = {},
           path' = "protected"
    PROVE  TasksInv'
BY DEF TasksInv

\* A page is mounted: only its loads run.
LEMMA MountTasks ==
    ASSUME NEW p \in Pages, NEW w \in Workspaces, tasks' = LoadTasks(p, w),
           page' = p, path' = "protected"
    PROVE  TasksInv'
<1>1. PICK new : new = LoadTasks(p, w)
  OBVIOUS
<1>2. new \in Seq(TaskRecord) /\ Len(new) = Len(p.loads) /\ Len(p.loads) \in 1..2
  BY <1>1, LoadTasksAre
<1>3. ASSUME NEW k \in 1..Len(new), NEW u, u = new[k]
      PROVE  TaskInv(u)' /\ u.waits = {}
  <2>1. PICK load, for : load = p.loads[k] /\ for = "load"
    OBVIOUS
  <2>2. /\ u = Task(for, FALSE, w, Nothing, load) /\ for \in Writes \cup {"load"}
        /\ LoadInv(load, p) /\ UNION ToSet(load) \subseteq OpsOf(p)
    BY <1>1, <1>2, <1>3, <2>1, LoadTasksAre
  <2> QED
    BY <2>2, LoadIs
<1>4. tasks' = new
  BY <1>1
<1>5. ASSUME NEW k \in 1..Len(tasks') PROVE TaskInv(tasks[k])' /\ tasks'[k].waits = {}
  <2>1. PICK u : u = new[k]
    OBVIOUS
  <2>2. TaskInv(u)' /\ u.waits = {} /\ tasks'[k] = u
    BY <1>3, <1>4, <2>1
  <2> QED
    BY <2>2
<1>6. Len(tasks') <= MaxTasks /\ tasks' \in Seq(TaskRecord)
  <2>1. MaxTasks \in Nat /\ MaxTasks >= 2
    BY DashboardAssumption
  <2>2. PICK n : n = Len(new)
    OBVIOUS
  <2>3. n \in 1..2
    BY <1>2, <2>2
  <2>4. n <= MaxTasks
    BY <2>1, <2>3
  <2> QED
    BY <1>2, <1>4, <2>2, <2>4
<1>7. \A j, k \in 1..Len(tasks') : tasks'[j].waits \cap tasks'[k].waits = {}
  BY <1>5
<1>8. \A k \in 1..Len(tasks') : TaskInv(tasks[k])'
  BY <1>5
<1> QED
  BY <1>6, <1>7, <1>8, NewTasks

LEMMA BlankIs ==
    ASSUME NEW p
    PROVE  Blank(p) \in [OpsOf(p) -> [ws : Workspaces \cup {NULL}, count : 0..MaxSaves]]
BY AccessAssumption DEF Blank, Empty

LEMMA OpenPages ==
    ASSUME IInv, PagesInv, NEW p \in Pages, OpenPage(p)
    PROVE  PagesInv'
<1>1. path = "protected" /\ UNCHANGED <<session, path, failures, calm, mine>>
  BY DEF OpenPage, route
<1>2. PICK w \in workspaces : Mount(p, w)
  BY DEF OpenPage
<1>3. w \in Workspaces
  BY DEF IInv, AccessTypeOK
<1>4. /\ page' = p /\ selected' = w /\ shown' = Blank(p) /\ userRole' = NULL
      /\ picked' = Nothing /\ loading' \in BOOLEAN /\ faulted' = FALSE
      /\ tasks' = LoadTasks(p, w)
  BY <1>2 DEF Mount
<1>5. TasksInv'
  BY <1>1, <1>3, <1>4, MountTasks
<1>6. shown' \in [OpsOf(page') -> [ws : Workspaces \cup {NULL}, count : 0..MaxSaves]]
  BY <1>4, BlankIs
<1>7. PageTypes'
  BY <1>1, <1>3, <1>4, <1>6 DEF PagesInv, PageTypes
<1> QED
  BY <1>5, <1>7 DEF PagesInv

LEMMA PickPages ==
    ASSUME IInv, PagesInv, NEW c \in Campaigns, NEW b \in Buyers,
           NEW p \in Priorities, PickBuyer(c, b, p)
    PROVE  PagesInv'
<1>1. /\ picked' = <<c, b, p>>
      /\ UNCHANGED <<session, path, page, selected, shown, userRole, loading,
                     tasks, failures, calm, faulted, mine, request>>
  BY DEF PickBuyer, route, past, accessVars
<1>2. TasksInv'
  BY <1>1, TasksStay, TaskIs DEF WaitsKept, TaskInv
<1> QED
  BY <1>1, <1>2 DEF PagesInv, PageTypes

LEMMA NoWaits ==
    ASSUME PagesInv, UNCHANGED request
    PROVE  \A j \in 1..Len(tasks) : WaitsKept(tasks[j])
BY TaskIs DEF WaitsKept, TaskInv

\* The page waits while others act.
LEMMA QuietPages ==
    ASSUME PagesInv, UNCHANGED <<view, route, past>>,
           \A j \in 1..Len(tasks) : WaitsKept(tasks[j])
    PROVE  PagesInv'
<1>1. UNCHANGED <<session, path, page, selected, shown, userRole, loading, picked,
                  tasks, failures, calm, faulted, mine>>
  BY DEF view, route, past
<1>2. TasksInv'
  BY <1>1, TasksStay
<1> QED
  BY <1>1, <1>2 DEF PagesInv, PageTypes

\* What the API does keeps the requests that tasks wait for.
LEMMA ServeKeeps ==
    ASSUME IInv, PagesInv, NEW r \in Requests, Serve(r)
    PROVE  \A j \in 1..Len(tasks) : WaitsKept(tasks[j])
<1>1. Served(r)
  BY ServeIs
<1>2. \A j \in 1..Len(tasks) : \A s \in tasks[j].waits : s \in Requests /\ request[s] # Free
  BY TaskIs DEF TaskInv, TaskRecord
<1> QED
  BY <1>1, <1>2 DEF Served, WaitsKept

\* A free request, or one that nobody waits for, changes.
LEMMA OthersKeep ==
    ASSUME IInv, PagesInv, NEW r \in Requests,
           request[r] = Free \/ r \notin Waited,
           \A s \in Requests : s # r => request'[s] = request[s]
    PROVE  \A j \in 1..Len(tasks) : WaitsKept(tasks[j])
<1>1. \A j \in 1..Len(tasks) :
          /\ tasks[j] \in ToSet(tasks)
          /\ \A s \in tasks[j].waits : s \in Requests /\ request[s] # Free
  BY TaskIs DEF TaskInv, TaskRecord, ToSet
<1>2. \A j \in 1..Len(tasks) : r \notin tasks[j].waits
  BY <1>1 DEF Waited
<1> QED
  BY <1>1, <1>2 DEF WaitsKept

LEMMA AskedKeeps ==
    ASSUME IInv, NEW r \in Requests,
           ClientRequests(r) \/ jwtRequest(r, Visitor, NULL, "createWorkspace", Nothing)
    PROVE  /\ request[r] = Free
           /\ \A s \in Requests : s # r => request'[s] = request[s]
<1>1. PICK q : request[r] = Free /\ request' = [request EXCEPT ![r] = q]
  <2>1. CASE ClientRequests(r)
    <3>1. PICK u, w, op, says, k :
              jwtRequest(r, u, w, op, says) \/ keyRequest(r, k, w, op, says)
      BY <2>1 DEF ClientRequests
    <3> QED
      BY <3>1 DEF jwtRequest, keyRequest
  <2>2. CASE jwtRequest(r, Visitor, NULL, "createWorkspace", Nothing)
    BY <2>2 DEF jwtRequest
  <2> QED
    BY <2>1, <2>2
<1> QED
  BY <1>1 DEF IInv, AccessTypeOK

\* Nothing of a page runs on the way to it.
LEMMA NavigatesPages ==
    ASSUME IInv, PagesInv,
           \/ Login \/ ProtectedLayout \/ OnboardingPage \/ SignOut
           \/ \E r \in Requests : workspaceCreated(r)
           \/ Visit("toProtected") \/ Visit("toOnboarding")
    PROVE  PagesInv'
<1> DEFINE Paths == {"login", "toProtected", "protected", "toOnboarding", "onboarding"}
<1>1. CASE /\ UNCHANGED <<view, calm, faulted, mine>> /\ path # "protected"
           /\ session' \in BOOLEAN /\ path' \in Paths /\ failures' \in 0..MaxFailures
  <2>1. UNCHANGED <<page, selected, shown, userRole, loading, picked, tasks>>
    BY <1>1 DEF view
  <2>2. tasks' = << >>
    BY <1>1, <2>1 DEF PagesInv, TasksInv
  <2> QED
    BY <1>1, <2>1, <2>2, NoTasks DEF PagesInv, PageTypes
<1>2. CASE /\ UNCHANGED <<page, selected, shown, userRole, loading, picked, past>>
           /\ tasks' = << >> /\ session' \in BOOLEAN /\ path' \in Paths
  BY <1>2, NoTasks DEF PagesInv, PageTypes, past
<1>3. CASE Enter
  <2>1. /\ path' = "protected" /\ page' = ProtectedPage /\ selected' = NULL
        /\ shown' = Blank(ProtectedPage) /\ userRole' = NULL /\ picked' = Nothing
        /\ loading' \in BOOLEAN /\ faulted' = FALSE
        /\ tasks' = LoadTasks(ProtectedPage, NULL)
        /\ UNCHANGED <<session, failures, calm, mine>>
    BY <1>3 DEF Enter, Mount
  <2>2. tasks' = << >>
    BY <2>1 DEF LoadTasks
  <2>3. ProtectedPage \in Pages
    BY DEF Pages
  <2>4. shown' \in [OpsOf(page') -> [ws : Workspaces \cup {NULL}, count : 0..MaxSaves]]
    BY <2>1, BlankIs
  <2> QED
    BY <2>1, <2>2, <2>3, <2>4, NoTasks DEF PagesInv, PageTypes
<1>4. session \in BOOLEAN /\ failures \in 0..MaxFailures /\ MaxFailures \in Nat
  BY DashboardAssumption DEF PagesInv, PageTypes
<1>5. CASE Login
  BY <1>1, <1>4, <1>5 DEF Login, past
<1>6. ASSUME NEW to \in Paths \ {"protected"}, path \in {"toProtected", "toOnboarding"},
             Redirect(to) \/ fetchFails(to)
      PROVE  PagesInv'
  <2>1. CASE Redirect(to)
    BY <1>1, <1>4, <1>6, <2>1 DEF Redirect, past
  <2>2. CASE fetchFails(to)
    <3>1. failures' \in 0..MaxFailures
      BY <1>4, <2>2 DEF fetchFails
    <3> QED
      BY <1>1, <1>4, <1>6, <2>2, <3>1 DEF fetchFails
  <2> QED
    BY <1>6, <2>1, <2>2
<1>7. CASE ProtectedLayout
  BY <1>3, <1>6, <1>7 DEF ProtectedLayout
<1>8. CASE OnboardingPage
  BY <1>6, <1>8 DEF OnboardingPage
<1>9. CASE SignOut
  BY <1>2, <1>9 DEF SignOut
<1>10. ASSUME NEW r \in Requests, workspaceCreated(r)
       PROVE  PagesInv'
  BY <1>1, <1>4, <1>10 DEF workspaceCreated, past
<1>11. CASE Visit("toProtected") \/ Visit("toOnboarding")
  BY <1>2, <1>4, <1>11 DEF Visit
<1> QED
  BY <1>5, <1>7, <1>8, <1>9, <1>10, <1>11
-----------------------------------------------------------------------------
(* The invariant of the requests and of the pages.                         *)

\* What a step does to the API: its invariant stays, and a row changes only as
\* it may.
ApiKept == IInv' /\ (Entitled \/ UNCHANGED accessVars)

LEMMA ApiStays == ASSUME IInv, UNCHANGED accessVars PROVE ApiKept
BY DEF accessVars, ApiKept, IInv, AccessTypeOK, GuardInv, KeyInv, Auth,
       LinksStayInWorkspace

LEMMA SubmitStep ==
    ASSUME IInv, PagesInv, submitWorkspace
    PROVE  ApiKept /\ PagesInv'
<1>1. PICK r \in Requests : jwtRequest(r, Visitor, NULL, "createWorkspace", Nothing)
  BY DEF submitWorkspace
<1>2. Visitor \in Users /\ "createWorkspace" \in Ops /\ Nothing \in Says
  BY DashboardAssumption, ReadsAre DEF Unguarded, Says
<1>3. IInv'
  BY <1>1, <1>2, JwtRequestStep
<1>4. Entitled
  BY <1>1, TablesUntouched DEF jwtRequest
<1>5. UNCHANGED <<view, route, past>>
  BY DEF submitWorkspace
<1>6. PagesInv'
  BY <1>1, <1>5, AskedKeeps, OthersKeep, QuietPages
<1> QED
  BY <1>3, <1>4, <1>6 DEF ApiKept

LEMMA NavigatesStep ==
    ASSUME IInv, PagesInv, Navigates
    PROVE  ApiKept /\ PagesInv'
<1>1. CASE submitWorkspace
  BY <1>1, SubmitStep
<1>2. ASSUME NEW r \in Requests, workspaceCreated(r)
      PROVE  ApiKept /\ PagesInv'
  BY <1>2, GuardStep, NavigatesPages DEF workspaceCreated, ApiKept
<1>3. CASE \/ Login \/ ProtectedLayout \/ OnboardingPage \/ SignOut
           \/ Visit("toProtected") \/ Visit("toOnboarding")
  <2>1. UNCHANGED accessVars
    BY <1>3 DEF Login, ProtectedLayout, OnboardingPage, SignOut, Visit, Redirect,
                fetchFails, Enter
  <2> QED
    BY <1>3, <2>1, ApiStays, NavigatesPages
<1> QED
  BY <1>1, <1>2, <1>3 DEF Navigates

LEMMA UsesStep ==
    ASSUME IInv, PagesInv, Uses
    PROVE  ApiKept /\ PagesInv'
<1>1. UNCHANGED accessVars
  BY DEF Uses, SwitchWorkspace, OpenPage, PickBuyer, Click
<1>2. PagesInv'
  BY SwitchPages, OpenPages, PickPages, ClickPages DEF Uses
<1> QED
  BY <1>1, <1>2, ApiStays

LEMMA ContinuesStep ==
    ASSUME IInv, PagesInv, NEW i \in 1..Len(tasks), Continues(i)
    PROVE  ApiKept /\ PagesInv'
<1>1. CASE apiFetch(i)
  BY <1>1, FetchIs, FetchPages DEF ApiKept
<1>2. ASSUME NEW r \in Requests,
             \/ answerArrives(i, r) \/ stageShown(i, r) \/ writeAnswered(i, r)
             \/ refused(i, r)
      PROVE  ApiKept /\ PagesInv'
  <2>1. request[r].step = "answered" /\ Received(r) /\ UNCHANGED tables
    BY <1>2 DEF answerArrives, stageShown, writeAnswered, refused, Answered
  <2>2. IInv' /\ Entitled
    BY <2>1, ReceivedStep
  <2>3. PagesInv'
    BY <1>2, ArrivePages, StagePages, WritePages, FailPages
  <2> QED
    BY <2>2, <2>3 DEF ApiKept
<1> QED
  BY <1>1, <1>2 DEF Continues

LEMMA WorksStep ==
    ASSUME IInv, PagesInv, Works
    PROVE  ApiKept /\ PagesInv'
<1>1. ASSUME NEW i \in 1..Len(tasks), NEW r \in Requests, lost(i, r)
      PROVE  ApiKept /\ PagesInv'
  BY <1>1, ApiStays, FailPages DEF lost
<1>2. ASSUME NEW r \in Requests, dropped(r)
      PROVE  ApiKept /\ PagesInv'
  <2>1. Receive(r) /\ r \notin Waited /\ UNCHANGED <<view, route, past>>
    BY <1>2 DEF dropped
  <2>2. \A s \in Requests : s # r => request'[s] = request[s]
    BY <2>1 DEF Receive, IInv, AccessTypeOK
  <2>3. \A j \in 1..Len(tasks) : WaitsKept(tasks[j])
    BY <2>1, <2>2, OthersKeep
  <2> QED
    BY <2>1, <2>3, GuardStep, QuietPages DEF ApiKept
<1>3. ASSUME NEW r \in Requests, Serve(r), UNCHANGED <<view, route, past>>
      PROVE  ApiKept /\ PagesInv'
  <2>1. IInv' /\ Entitled
    BY <1>3, GuardStep, HandleStep DEF Serve
  <2>2. PagesInv'
    BY <1>3, ServeKeeps, QuietPages
  <2> QED
    BY <2>1, <2>2 DEF ApiKept
<1>4. DOMAIN tasks = 1..Len(tasks)
  BY TaskIs
<1> QED
  BY <1>1, <1>2, <1>3, <1>4, ContinuesStep DEF Works

LEMMA OthersStep ==
    ASSUME IInv, PagesInv, Others
    PROVE  ApiKept /\ PagesInv'
<1>1. UNCHANGED <<view, route, past>>
  BY DEF Others
<1>2. ASSUME NEW r \in Requests, ClientRequests(r)
      PROVE  ApiKept /\ PagesInv'
  <2>1. IInv' /\ Entitled
    BY <1>2, GuardStep
  <2>2. PagesInv'
    BY <1>1, <1>2, AskedKeeps, OthersKeep, QuietPages
  <2> QED
    BY <2>1, <2>2 DEF ApiKept
<1>3. ASSUME NEW w \in Workspaces, NEW u \in Users, NEW as \in Role,
             MembershipChanges(w, u, as)
      PROVE  ApiKept /\ PagesInv'
  <2>1. IInv' /\ Entitled
    BY <1>3, MembershipStep
  <2>2. UNCHANGED request
    BY <1>3 DEF MembershipChanges
  <2> QED
    BY <1>1, <2>1, <2>2, NoWaits, QuietPages DEF ApiKept
<1> QED
  BY <1>2, <1>3 DEF Others

LEMMA PagesInit == Init => IInv /\ PagesInv
<1> SUFFICES ASSUME Init PROVE IInv /\ PagesInv
  OBVIOUS
<1>1. IInv
  BY InvInit DEF Init
<1>2. ProtectedPage \in Pages
  BY DEF Pages
<1>3. shown \in [OpsOf(page) -> [ws : Workspaces \cup {NULL}, count : 0..MaxSaves]]
  BY BlankIs DEF Init
<1>4. /\ tasks \in Seq(TaskRecord) /\ Len(tasks) = 0 /\ 1..Len(tasks) = {}
      /\ Len(tasks) <= MaxTasks
  BY DashboardAssumption DEF Init
<1>5. TasksInv
  BY <1>4 DEF TasksInv, Init
<1>6. 0 \in 0..MaxFailures /\ 0 \in 0..MaxSaves
  BY DashboardAssumption, AccessAssumption
<1>7. PageTypes
  BY <1>2, <1>3, <1>6 DEF PageTypes, Init
<1> QED
  BY <1>1, <1>5, <1>7 DEF PagesInv

LEMMA PagesStep ==
    IInv /\ PagesInv /\ [Next]_vars => IInv' /\ PagesInv' /\ (Entitled \/ UNCHANGED accessVars)
<1> SUFFICES ASSUME IInv, PagesInv, [Next]_vars
             PROVE  ApiKept /\ PagesInv'
  BY DEF ApiKept
<1>1. CASE UNCHANGED vars
  <2>1. UNCHANGED accessVars /\ UNCHANGED <<view, route, past>> /\ UNCHANGED request
    BY <1>1 DEF vars, accessVars
  <2> QED
    BY <2>1, ApiStays, NoWaits, QuietPages
<1> QED
  BY <1>1, NavigatesStep, UsesStep, WorksStep, OthersStep DEF Next

THEOREM PagesInductive == Spec => [](IInv /\ PagesInv)
<1>1. IInv /\ PagesInv /\ [Next]_vars => (IInv /\ PagesInv)'
  BY PagesStep
<1> QED
  BY <1>1, PagesInit, PTL DEF Spec

\* What the pages show and run keeps its types, and a task waits for requests
\* that are in flight.
THEOREM DashboardTypeCorrect == Spec => []DashboardTypeOK
<1>1. ASSUME IInv, PagesInv PROVE DashboardTypeOK
  <2>1. \A t \in ToSet(tasks) :
            /\ t.ws \in Workspaces \cup {NULL}
            /\ \A r \in t.waits : r \in Requests /\ request[r] # Free
    <3>1. \A t \in ToSet(tasks) : \E i \in 1..Len(tasks) : t = tasks[i]
      BY <1>1, TaskIs DEF ToSet
    <3> QED
      BY <1>1, <3>1, TaskIs DEF TaskRecord, TaskInv
  <2> QED
    BY <1>1, <2>1 DEF IInv, PagesInv, PageTypes, TasksInv, DashboardTypeOK
<1> QED
  BY <1>1, PagesInductive, PTL

\* The same of the requests that the pages send: a handler runs for an
\* admitted role (apiFetch, WorkspaceRolesGuard).
THEOREM PagesAreEntitled == Spec => []RequestIsEntitled
<1>1. IInv => RequestIsEntitled
  BY DEF IInv, GuardInv, KeyInv, RequestIsEntitled
<1> QED
  BY <1>1, PagesInductive, PTL

\* The modal of the campaigns page may name a buyer of another workspace; none
\* is linked (CampaignsService.addBuyerToCampaign).
THEOREM PagesKeepLinks == Spec => []LinksStayInWorkspace
<1>1. IInv => LinksStayInWorkspace
  BY DEF IInv
<1> QED
  BY <1>1, PagesInductive, PTL

\* Whatever the pages ask, what belongs to a workspace is changed by its
\* managers' requests only.
THEOREM PagesChangeAsEntitled == Spec => ChangesAreEntitled
<1>1. IInv /\ PagesInv /\ [Next]_vars
          => [\A w \in Workspaces : Untouched(w) \/ ManagersAct(w)]_accessVars
  BY PagesStep DEF Entitled
<1> QED
  BY <1>1, PagesInductive, PTL DEF Spec, ChangesAreEntitled

-----------------------------------------------------------------------------
(* The tasks' answers.                                                     *)

LEMMA ListsAre ==
    /\ Lists \cap Writes = {} /\ Lists \cap Unguarded = {}
    /\ \A op \in Lists : ListOf(op) = op
    /\ \A op \in Writes : ListOf(op) = ShownBy[op] /\ ShownBy[op] \in Lists
    /\ \A op : ListOf(op) \in Lists => op \notin Unguarded
<1>1. Lists \cap Writes = {}
  BY DEF Lists, Writes, RowWrites, CampaignsService, BuyersService,
         BlockedCallersService, PhoneNumbersService, WebhooksService,
         WorkspacesService
<1>2. Lists \cap Unguarded = {}
  BY DEF Lists, Unguarded
<1>3. \A op \in Lists : ListOf(op) = op
  BY <1>1 DEF ListOf
<1>4. \A op \in Writes : ListOf(op) = ShownBy[op] /\ ShownBy[op] \in Lists
  BY ShownIsList DEF ListOf
<1>5. \A op : ListOf(op) \in Lists => op \notin Unguarded
  BY <1>2, ReadsAre DEF ListOf
<1> QED
  BY <1>1, <1>2, <1>3, <1>4, <1>5

SavedGrows == \A w \in Workspaces, l \in Lists : saved[w][l] <= saved'[w][l]

LEMMA CountsAre ==
    ASSUME IInv, PagesInv
    PROVE  \A w \in Workspaces, l \in Lists :
               saved[w][l] \in 0..MaxSaves /\ mine[w][l] \in 0..MaxSaves
BY DEF IInv, AccessTypeOK, PagesInv, PageTypes

LEMMA WritesStaySaved ==
    ASSUME IInv, PagesInv, IInv', WritesSaved, SavedGrows, UNCHANGED mine
    PROVE  WritesSaved'
<1>1. \A w \in Workspaces, l \in Lists :
          saved[w][l] \in 0..MaxSaves /\ mine[w][l] \in 0..MaxSaves
  BY CountsAre
<1>2. \A w \in Workspaces, l \in Lists : saved'[w][l] \in 0..MaxSaves
  BY DEF IInv, AccessTypeOK
<1>3. MaxSaves \in Nat
  BY AccessAssumption
<1> QED
  BY <1>1, <1>2, <1>3 DEF WritesSaved, SavedGrows

\* A task that goes on as it was, while its requests are served.
LEMMA CurrentStays ==
    ASSUME IInv, PagesInv, IInv', WritesSaved, NEW j \in 1..Len(tasks),
           NEW t, t = tasks[j], TaskCurrent(t), UNCHANGED calm, SavedGrows,
           UNCHANGED mine \/ (calm => t.waits = {}),
           \A r \in t.waits : request'[r] = request[r] \/ Served(r)
    PROVE  TaskCurrent(t)'
<1>1. /\ t \in TaskRecord /\ TaskInv(t) /\ t.ws \in Workspaces
      /\ t.waits = {} => t.got = {}
      /\ \A r \in t.waits : r \in Requests /\ request[r] # Free
  BY TaskIs DEF TaskRecord, TaskInv
<1>2. WaitsKept(t)
  BY <1>1 DEF WaitsKept, Served
<1>3. StagesInv(t)'
  <2>1. OpsNow(t)' = OpsNow(t)
    BY <1>2, OpsKept
  <2> QED
    BY <2>1 DEF TaskCurrent, StagesInv
<1>4. ASSUME NEW r \in t.waits, request'[r].step = "answered",
             request'[r].reply.ok, ListOf(request'[r].op) \in Lists
      PROVE  /\ request'[r].reply.count <= saved'[t.ws][ListOf(request'[r].op)]
             /\ calm' => mine'[t.ws][ListOf(request'[r].op)] <= request'[r].reply.count
  <2>1. PICK op, l : op = request[r].op /\ l = ListOf(op)
    OBVIOUS
  <2>2. request'[r].op = op /\ l \in Lists /\ op \notin Unguarded
    BY <1>2, <1>4, <2>1, ListsAre DEF WaitsKept
  <2>3. request[r].ws = t.ws
    BY <1>1, <2>1, <2>2 DEF TaskInv
  <2>4. /\ MaxSaves \in Nat /\ saved[t.ws][l] \in 0..MaxSaves
        /\ saved'[t.ws][l] \in 0..MaxSaves /\ mine[t.ws][l] \in 0..MaxSaves
        /\ mine[t.ws][l] <= saved[t.ws][l] /\ saved[t.ws][l] <= saved'[t.ws][l]
    <3>1. saved'[t.ws][l] \in 0..MaxSaves
      BY <1>1, <2>2 DEF IInv, AccessTypeOK
    <3> QED
      BY <1>1, <2>2, <3>1, CountsAre, AccessAssumption DEF WritesSaved, SavedGrows
  <2>5. PICK n : n = request'[r].reply.count
    OBVIOUS
  <2>6. n \in 0..MaxSaves
    <3>1. request'[r] \in Request \cup {Free} /\ request'[r] # Free
      BY <1>1, <1>2 DEF IInv, AccessTypeOK, WaitsKept
    <3> QED
      BY <2>5, <3>1 DEF Request, Reply
  <2>7. n <= saved'[t.ws][l] /\ (calm => mine[t.ws][l] <= n)
    <3>1. CASE request'[r] = request[r]
      <4>1. n <= saved[t.ws][l] /\ (calm => mine[t.ws][l] <= n)
        BY <1>4, <2>1, <2>2, <2>5, <3>1 DEF TaskCurrent, AnswersInv
      <4> QED
        BY <2>4, <2>6, <4>1
    <3>2. CASE Served(r)
      <4>1. saved[t.ws][l] <= n /\ n <= saved'[t.ws][l]
        BY <1>4, <2>1, <2>2, <2>3, <2>5, <3>2 DEF Served
      <4> QED
        BY <2>4, <2>6, <4>1
    <3> QED
      BY <3>1, <3>2
  <2>8. calm' => calm /\ mine' = mine
    BY <1>4
  <2> QED
    BY <2>1, <2>2, <2>5, <2>7, <2>8
<1>5. ASSUME calm', NEW g \in t.got, g.op \in Lists
      PROVE  mine'[t.ws][g.op] <= g.reply.count
  BY <1>1, <1>5 DEF TaskCurrent, AnswersInv
<1> QED
  BY <1>3, <1>4, <1>5 DEF TaskCurrent, AnswersInv

\* A task that waits for nothing has no answers to be wrong about.
LEMMA NoAnswers ==
    ASSUME NEW t, t.waits = {}, t.got = {}
    PROVE  AnswersInv(t)'
BY DEF AnswersInv

\* A load that has just been made.
LEMMA LoadCurrent ==
    ASSUME NEW p \in Pages, NEW load, LoadInv(load, p), NEW t, t.waits = {},
           t.got = {}, t.todo = load, OpsNow(t)' = {}
    PROVE  TaskCurrent(t)'
<1>1. StagesInv(t)'
  BY ReadsAre DEF StagesInv, LoadInv, Unguarded
<1> QED
  BY <1>1, NoAnswers DEF TaskCurrent

LEMMA WriteCurrent ==
    ASSUME NEW t, t.waits = {}, t.got = {}, t.writing
    PROVE  TaskCurrent(t)'
BY NoAnswers DEF TaskCurrent, StagesInv

LEMMA FetchedCurrent ==
    ASSUME IInv, PagesInv, NEW i \in 1..Len(tasks), NEW t, NEW u, NEW slot,
           Fetched(i, t, u, slot), UNCHANGED page, TaskCurrent(t)
    PROVE  TaskCurrent(u)'
<1>1. /\ u.writing = t.writing /\ u.got = {} /\ u.todo = Tail(t.todo)
      /\ OpsNow(u)' = Head(t.todo)
      /\ \A r \in u.waits : r \in Requests /\ request'[r].step # "answered"
  BY FetchedIs
<1>2. t \in TaskRecord /\ t.todo # << >>
  BY TaskIs DEF Fetched
<1>3. AnswersInv(u)'
  BY <1>1 DEF AnswersInv
<1>4. PICK s \in Seq(SUBSET Ops) : s = t.todo /\ s # << >>
  BY <1>2 DEF TaskRecord
<1>5. /\ s[1] = Head(s) /\ Len(Tail(s)) = Len(s) - 1 /\ Tail(s) \in Seq(SUBSET Ops)
      /\ \A k \in 1..(Len(s) - 1) : Tail(s)[k] = s[k + 1]
  BY <1>4, HeadTailSet
<1>6. Len(s) \in Nat
  BY <1>4
<1>7. StagesInv(u)'
  <2>1. CASE t.writing
    BY <1>1, <2>1 DEF StagesInv
  <2>2. CASE ~t.writing /\ Len(s) = 1 /\ s[1] \cap Unguarded = {}
    <3>1. Len(Tail(s)) = 0
      BY <1>5, <2>2
    <3>2. Tail(s) = << >>
      BY <1>5, <3>1, EmptySeq
    <3>3. u.todo = << >> /\ OpsNow(u)' = s[1]
      BY <1>1, <1>4, <1>5, <3>2
    <3>4. OpsNow(u)' \cap Unguarded = {}
      BY <2>2, <3>3
    <3> QED
      BY <3>3, <3>4 DEF StagesInv
  <2>3. CASE /\ ~t.writing /\ Len(s) = 2 /\ s[1] \subseteq Unguarded
             /\ s[2] \cap Unguarded = {}
    <3>1. Len(Tail(s)) = 1 /\ Tail(s)[1] = s[2]
      BY <1>5, <2>3
    <3> QED
      BY <1>1, <1>4, <1>5, <2>3, <3>1 DEF StagesInv
  <2> QED
    BY <1>4, <2>1, <2>2, <2>3 DEF TaskCurrent, StagesInv
<1> QED
  BY <1>3, <1>7 DEF TaskCurrent

LEMMA ArrivedCurrent ==
    ASSUME IInv, PagesInv, NEW i \in 1..Len(tasks), NEW t, NEW u, NEW r,
           NEW answer, Arrived(i, t, u, r, answer), UNCHANGED <<page, saved, mine, calm>>,
           request[r].step = "answered", request[r].reply.ok, TaskCurrent(t)
    PROVE  TaskCurrent(u)'
<1>1. /\ u.writing = t.writing /\ u.ws = t.ws /\ u.todo = t.todo
      /\ u.waits = t.waits \ {r} /\ u.got = t.got \cup {answer}
      /\ OpsNow(u)' = OpsNow(t)
      /\ \A s \in u.waits : s \in Requests /\ request'[s] = request[s]
  BY ArrivedIs
<1>2. /\ r \in t.waits /\ answer.op = request[r].op /\ answer.reply = request[r].reply
  BY DEF Arrived
<1>3. StagesInv(u)'
  BY <1>1 DEF TaskCurrent, StagesInv
<1>4. ASSUME NEW s \in u.waits, request'[s].step = "answered",
             request'[s].reply.ok, ListOf(request'[s].op) \in Lists
      PROVE  /\ request'[s].reply.count <= saved'[u.ws][ListOf(request'[s].op)]
             /\ calm' => mine'[u.ws][ListOf(request'[s].op)] <= request'[s].reply.count
  BY <1>1, <1>4 DEF TaskCurrent, AnswersInv
<1>5. ASSUME calm', NEW g \in u.got, g.op \in Lists
      PROVE  mine'[u.ws][g.op] <= g.reply.count
  <2>1. CASE g \in t.got
    BY <1>1, <1>5, <2>1 DEF TaskCurrent, AnswersInv
  <2>2. CASE g = answer
    BY <1>1, <1>2, <1>5, <2>2, ListsAre DEF TaskCurrent, AnswersInv
  <2> QED
    BY <1>1, <1>5, <2>1, <2>2
<1> QED
  BY <1>3, <1>4, <1>5 DEF TaskCurrent, AnswersInv

LEMMA NextStageCurrent ==
    ASSUME PagesInv, NEW i \in 1..Len(tasks), NEW t, t = tasks[i],
           NEW u, NextStage(t, u), UNCHANGED page, t.todo # << >>, TaskCurrent(t)
    PROVE  TaskCurrent(u)'
<1>1. /\ u.waits = {} /\ u.got = {} /\ u.todo = t.todo
      /\ u.writing = t.writing /\ OpsNow(u)' = {}
  BY NextStageIs
<1>2. StagesInv(u)'
  BY <1>1 DEF TaskCurrent, StagesInv
<1> QED
  BY <1>1, <1>2, NoAnswers DEF TaskCurrent

-----------------------------------------------------------------------------
(* What becomes of what the page will show.                                *)

\* Position k now is the task that was at position j, which may have asked or
\* been answered since.
Same(k, j) ==
    /\ tasks'[k].writing = tasks[j].writing /\ tasks'[k].ws = tasks[j].ws
    /\ OpsLeft(tasks[k])' = OpsLeft(tasks[j])

\* As Follows, for tasks that went on.
Continued(f, i) ==
    /\ f \in [1..Len(tasks') -> 0..Len(tasks)]
    /\ \A k \in 1..Len(tasks') : f[k] # 0 => f[k] # i /\ Same(k, f[k])
    /\ \A j, k \in 1..Len(tasks') : f[j] # 0 /\ f[k] # 0 => (j < k <=> f[j] < f[k])
    /\ \A j \in 1..Len(tasks) : j # i => \E k \in 1..Len(tasks') : f[k] = j

LEMMA FollowsSame ==
    ASSUME PagesInv, UNCHANGED tasks
    PROVE  Follows([k \in 1..Len(tasks') |-> k], 0)
BY TaskIs DEF Follows

LEMMA FollowsContinued ==
    ASSUME NEW f, NEW i, Follows(f, i),
           \A j \in 1..Len(tasks) : j # i => WaitsKept(tasks[j])
    PROVE  Continued(f, i)
<1>1. ASSUME NEW k \in 1..Len(tasks'), f[k] # 0
      PROVE  f[k] # i /\ Same(k, f[k])
  <2>1. PICK j \in 1..Len(tasks) : j = f[k] /\ j # i /\ tasks'[k] = tasks[j]
    BY <1>1 DEF Follows
  <2>2. PICK t : t = tasks[j]
    OBVIOUS
  <2>3. OpsLeft(t)' = OpsLeft(t)
    BY <2>1, <2>2, OpsKept
  <2> QED
    BY <2>1, <2>2, <2>3 DEF Same
<1> QED
  BY <1>1 DEF Follows, Continued

LEMMA ChangedContinued ==
    ASSUME PagesInv, NEW i \in 1..Len(tasks), NEW t, t = tasks[i],
           NEW u \in TaskRecord, tasks' = [tasks EXCEPT ![i] = u],
           u.writing = t.writing, u.ws = t.ws, OpsLeft(u)' = OpsLeft(t),
           \A j \in 1..Len(tasks) : j # i => WaitsKept(tasks[j])
    PROVE  Continued([k \in 1..Len(tasks') |-> k], 0)
<1>1. /\ DOMAIN tasks = 1..Len(tasks) /\ Len(tasks) \in Nat
      /\ tasks \in Seq(TaskRecord)
  BY TaskIs DEF PagesInv, TasksInv
<1>2. /\ Len(tasks') = Len(tasks) /\ tasks'[i] = u
      /\ \A k \in 1..Len(tasks) : k # i => tasks'[k] = tasks[k]
  BY <1>1
<1>3. ASSUME NEW k \in 1..Len(tasks)
      PROVE  Same(k, k)
  <2>1. CASE k = i
    BY <1>2, <2>1 DEF Same
  <2>2. CASE k # i
    <3>1. PICK v : v = tasks[k] /\ v = tasks'[k]
      BY <1>2, <2>2
    <3>2. OpsLeft(v)' = OpsLeft(v)
      BY <2>2, <3>1, OpsKept
    <3> QED
      BY <3>1, <3>2 DEF Same
  <2> QED
    BY <2>1, <2>2
<1> QED
  BY <1>1, <1>2, <1>3 DEF Continued

\* The tasks that went on show what they were to show, in the same order.
LEMMA SameShows ==
    ASSUME NEW k, NEW j, Same(k, j), UNCHANGED selected
    PROVE  /\ \A op : /\ Shows(k, op)' <=> Shows(j, op)
                      /\ ShowsSelected(k, op)' <=> ShowsSelected(j, op)
           /\ Begun(tasks[k])' <=> Begun(tasks[j])
           /\ tasks'[k].ws = tasks[j].ws
BY DEF Same, Shows, ShowsSelected, Begun

LEMMA AfterKept ==
    ASSUME NEW f, NEW i, Continued(f, i), UNCHANGED selected,
           NEW k \in 1..Len(tasks'), NEW l \in 1..Len(tasks'),
           f[k] # 0, f[l] # 0, After(f[l], f[k])
    PROVE  After(l, k)'
<1>1. Begun(tasks[k])' <=> Begun(tasks[f[k]])
  BY SameShows DEF Continued
<1>2. Begun(tasks[l])' <=> Begun(tasks[f[l]])
  BY SameShows DEF Continued
<1>3. f[k] < f[l] => k < l
  BY DEF Continued
<1> QED
  BY <1>1, <1>2, <1>3 DEF After

\* Task i is gone, or none is (0); it was not the one that others' rows are
\* replaced by, and what it was to show is shown.
LEMMA ConvergesFollows ==
    ASSUME PagesInv, NEW op, Converges(op), UNCHANGED selected,
           NEW f, NEW i, Continued(f, i),
           \A k \in 1..Len(tasks') :
               f[k] = 0 /\ Shows(k, op)' => tasks'[k].ws = selected,
           i \in 1..Len(tasks) /\ ShowsSelected(i, op) =>
               \A j \in 1..Len(tasks) : j # i => ~After(i, j),
           /\ \A j \in 1..Len(tasks) : j # i => ~ShowsSelected(j, op)
           /\ \A k \in 1..Len(tasks') : ~ShowsSelected(k, op)'
           => Current(op)'
    PROVE  Converges(op)'
<1>1. ASSUME NEW k \in 1..Len(tasks'), Shows(k, op)', tasks'[k].ws # selected'
      PROVE  \E l \in 1..Len(tasks') : ShowsSelected(l, op)' /\ After(l, k)'
  <2>1. f[k] # 0 /\ f[k] \in 1..Len(tasks) /\ f[k] # i /\ Same(k, f[k])
    BY <1>1 DEF Continued
  <2>2. PICK j : j = f[k]
    OBVIOUS
  <2>3. j \in 1..Len(tasks) /\ j # i /\ Same(k, j)
    BY <2>1, <2>2
  <2>4. Shows(j, op) /\ tasks[j].ws # selected
    BY <1>1, <2>3, SameShows
  <2>5. PICK m \in 1..Len(tasks) : ShowsSelected(m, op) /\ After(m, j)
    BY <2>3, <2>4 DEF Converges
  <2>6. m # i
    BY <2>3, <2>5
  <2>7. PICK l \in 1..Len(tasks') : f[l] = m
    BY <2>6 DEF Continued
  <2>8. m # 0 /\ Same(l, m)
    BY <2>5, <2>7 DEF Continued
  <2>9. ShowsSelected(l, op)'
    BY <2>5, <2>8, SameShows
  <2>10. After(l, k)'
    BY <2>1, <2>2, <2>5, <2>7, <2>8, AfterKept
  <2> QED
    BY <2>9, <2>10
<1>2. ASSUME \A k \in 1..Len(tasks') : ~ShowsSelected(k, op)'
      PROVE  Current(op)'
  <2>1. ASSUME NEW j \in 1..Len(tasks), j # i
        PROVE  ~ShowsSelected(j, op)
    <3>1. PICK k \in 1..Len(tasks') : f[k] = j
      BY <2>1 DEF Continued
    <3>2. Same(k, j)
      BY <2>1, <3>1 DEF Continued
    <3> QED
      BY <1>2, <3>2, SameShows
  <2> QED
    BY <1>2, <2>1
<1> QED
  BY <1>1, <1>2 DEF Converges

\* The same when nothing changed of what the page shows.
LEMMA ConvergesOn ==
    ASSUME PagesInv, NEW op, Converges(op), UNCHANGED <<selected, page, mine>>,
           shown'[op] = shown[op], NEW f, NEW i, Continued(f, i),
           \A k \in 1..Len(tasks') :
               f[k] = 0 /\ Shows(k, op)' => tasks'[k].ws = selected,
           i \in 1..Len(tasks) => ~ShowsSelected(i, op)
    PROVE  Converges(op)'
<1>1. ASSUME \A j \in 1..Len(tasks) : j # i => ~ShowsSelected(j, op)
      PROVE  Current(op)'
  <2>1. Current(op)
    BY <1>1 DEF Converges
  <2> QED
    BY <2>1 DEF Current
<1> QED
  BY <1>1, ConvergesFollows

\* Each task is current, and the network calm, when the tasks that stay are
\* and the new ones are.
LEMMA TasksGoOn ==
    ASSUME PagesInv, NEW f, NEW i, Follows(f, i), UNCHANGED calm,
           UNCHANGED selected \/ (calm => \A j \in 1..Len(tasks) : ~tasks[j].writing),
           \A j \in 1..Len(tasks) : InTurn(j),
           \A j \in 1..Len(tasks) : j # i => \A t : t = tasks[j] => TaskCurrent(t)',
           \A k \in 1..Len(tasks') :
               f[k] = 0 => TaskCurrent(tasks[k])' /\ InTurn(k)',
           calm => \A k \in 1..Len(tasks') : f[k] = 1 => k = 1
    PROVE  \A k \in 1..Len(tasks') : TaskCurrent(tasks[k])' /\ InTurn(k)'
<1> SUFFICES ASSUME NEW k \in 1..Len(tasks')
             PROVE  TaskCurrent(tasks[k])' /\ InTurn(k)'
  OBVIOUS
<1>1. CASE f[k] = 0
  BY <1>1
<1>2. CASE f[k] # 0
  <2>1. PICK j \in 1..Len(tasks) : j = f[k] /\ j # i /\ tasks'[k] = tasks[j]
    BY <1>2 DEF Follows
  <2>2. PICK t : t = tasks[j]
    OBVIOUS
  <2>3. TaskCurrent(t)' /\ tasks'[k] = t
    BY <2>1, <2>2
  <2>4. TaskCurrent(tasks[k])'
    BY <2>3
  <2>5. InTurn(k)'
    BY <2>1 DEF InTurn
  <2> QED
    BY <2>4, <2>5
<1> QED
  BY <1>1, <1>2

-----------------------------------------------------------------------------
(* Each action keeps CurrentInv.                                           *)

\* The others' requests stay as they are.
RequestsKept(i) ==
    \A j \in 1..Len(tasks) : j # i => \A r \in tasks[j].waits : request'[r] = request[r]

LEMMA KeptAreKept ==
    ASSUME IInv, PagesInv, CurrentInv, IInv', NEW i, RequestsKept(i),
           SavedGrows, UNCHANGED calm, UNCHANGED mine \/ (calm => i = 1)
    PROVE  /\ \A j \in 1..Len(tasks) : j # i => WaitsKept(tasks[j])
           /\ \A j \in 1..Len(tasks) : j # i => \A t : t = tasks[j] => TaskCurrent(t)'
<1>1. \A j \in 1..Len(tasks) : \A r \in tasks[j].waits : r \in Requests /\ request[r] # Free
  BY TaskIs DEF TaskRecord, TaskInv
<1>2. ASSUME NEW j \in 1..Len(tasks), j # i
      PROVE  WaitsKept(tasks[j])
  BY <1>1, <1>2 DEF RequestsKept, WaitsKept
<1>3. ASSUME NEW j \in 1..Len(tasks), j # i, NEW t, t = tasks[j]
      PROVE  TaskCurrent(t)'
  <2>1. UNCHANGED mine \/ (calm => t.waits = {})
    BY <1>3 DEF CurrentInv, InTurn
  <2>2. TaskCurrent(t) /\ WritesSaved
    BY <1>3 DEF CurrentInv
  <2>3. \A r \in t.waits : request'[r] = request[r]
    BY <1>3 DEF RequestsKept
  <2> QED
    BY <1>3, <2>1, <2>2, <2>3, CurrentStays
<1> QED
  BY <1>2, <1>3

LEMMA SavedStays == ASSUME IInv, UNCHANGED saved PROVE SavedGrows
BY SavedTypes DEF SavedGrows

\* A task asks, or takes an answer.
LEMMA ChangedCurrent ==
    ASSUME IInv, PagesInv, CurrentInv, IInv', NEW i \in 1..Len(tasks),
           NEW t, t = tasks[i], NEW u \in TaskRecord, tasks' = [tasks EXCEPT ![i] = u],
           u.writing = t.writing, u.ws = t.ws, OpsLeft(u)' = OpsLeft(t),
           TaskCurrent(u)', calm => i = 1, RequestsKept(i),
           UNCHANGED <<saved, route, past, page, selected, shown>>
    PROVE  CurrentInv'
<1>1. UNCHANGED <<path, calm, faulted, mine, page, selected, shown, saved>>
  BY DEF route, past
<1>2. SavedGrows /\ WritesSaved'
  BY <1>1, SavedStays, WritesStaySaved DEF CurrentInv
<1>3. /\ \A j \in 1..Len(tasks) : j # i => WaitsKept(tasks[j])
      /\ \A j \in 1..Len(tasks) : j # i => \A v : v = tasks[j] => TaskCurrent(v)'
  BY <1>1, <1>2, KeptAreKept
<1> DEFINE f == [k \in 1..Len(tasks') |-> IF k = i THEN 0 ELSE k]
           g == [k \in 1..Len(tasks') |-> k]
<1>4. tasks'[i] = u /\ Follows(f, i)
  BY FollowsChanged DEF PagesInv, TasksInv
<1>5. Continued(g, 0)
  BY <1>3, ChangedContinued
<1>6. TaskCurrent(tasks[i])' /\ InTurn(i)'
  BY <1>1, <1>4 DEF InTurn, CurrentInv
<1>7. \A k \in 1..Len(tasks') : TaskCurrent(tasks[k])' /\ InTurn(k)'
  <2>1. /\ \A k \in 1..Len(tasks') : f[k] = 0 => TaskCurrent(tasks[k])' /\ InTurn(k)'
        /\ calm => \A k \in 1..Len(tasks') : f[k] = 1 => k = 1
    BY <1>6
  <2>2. \A j \in 1..Len(tasks) : InTurn(j)
    BY DEF CurrentInv
  <2> HIDE DEF f
  <2> QED
    BY <1>1, <1>3, <1>4, <2>1, <2>2, TasksGoOn
<1>8. ASSUME NEW op, Converges(op)
      PROVE  Converges(op)'
  <2>1. \A k \in 1..Len(tasks') : g[k] # 0
    OBVIOUS
  <2>2. 0 \notin 1..Len(tasks) /\ shown'[op] = shown[op]
    BY <1>1
  <2> HIDE DEF g
  <2> QED
    BY <1>1, <1>5, <1>8, <2>1, <2>2, ConvergesOn
<1>9. PageConverges'
  BY <1>1, <1>8 DEF PageConverges, CurrentInv
<1> QED
  BY <1>2, <1>7, <1>9 DEF CurrentInv

\* A task that showed nothing of what is selected is gone, or its load failed.
LEMMA GoneCurrent ==
    ASSUME IInv, PagesInv, CurrentInv, IInv', NEW i \in 1..Len(tasks),
           tasks' = RemoveAt(tasks, i), calm => i = 1, RequestsKept(i),
           UNCHANGED <<saved, path, calm, mine, page, selected, shown>>,
           faulted' = (faulted \/ ~tasks[i].writing)
    PROVE  CurrentInv'
<1>1. SavedGrows /\ WritesSaved'
  BY SavedStays, WritesStaySaved DEF CurrentInv
<1>2. /\ \A j \in 1..Len(tasks) : j # i => WaitsKept(tasks[j])
      /\ \A j \in 1..Len(tasks) : j # i => \A v : v = tasks[j] => TaskCurrent(v)'
  BY <1>1, KeptAreKept
<1> DEFINE f == [k \in 1..Len(tasks') |-> IF k < i THEN k ELSE k + 1]
<1>3. Follows(f, i)
  BY FollowsRemoved DEF PagesInv, TasksInv
<1>4. \A k \in 1..Len(tasks') : f[k] # 0
  OBVIOUS
<1>5. \A k \in 1..Len(tasks') : f[k] = 1 => i # 1
  OBVIOUS
<1> HIDE DEF f
<1>6. Continued(f, i)
  BY <1>2, <1>3, FollowsContinued
<1>7. \A k \in 1..Len(tasks') : TaskCurrent(tasks[k])' /\ InTurn(k)'
  <2>1. \A j \in 1..Len(tasks) : InTurn(j)
    BY DEF CurrentInv
  <2>2. calm => \A k \in 1..Len(tasks') : f[k] = 1 => k = 1
    BY <1>5
  <2> QED
    BY <1>2, <1>3, <1>4, <2>1, <2>2, TasksGoOn
<1>8. ASSUME NEW op, Converges(op), tasks[i].writing
      PROVE  Converges(op)'
  <2>1. ~ShowsSelected(i, op)
    BY <1>8 DEF ShowsSelected, Shows
  <2> QED
    BY <1>4, <1>6, <1>8, <2>1, ConvergesOn
<1>9. PageConverges'
  BY <1>8 DEF PageConverges, CurrentInv
<1> QED
  BY <1>1, <1>7, <1>9 DEF CurrentInv

\* The tasks wait.
LEMMA QuietCurrent ==
    ASSUME IInv, PagesInv, CurrentInv, IInv', SavedGrows,
           UNCHANGED <<path, calm, faulted, mine, page, selected, shown, tasks>>,
           \A j \in 1..Len(tasks) : \A r \in tasks[j].waits :
               request'[r] = request[r] \/ Served(r),
           \A j \in 1..Len(tasks) : WaitsKept(tasks[j])
    PROVE  CurrentInv'
<1>1. WritesSaved'
  BY WritesStaySaved DEF CurrentInv
<1> DEFINE f == [k \in 1..Len(tasks') |-> k]
<1>2. Follows(f, 0)
  BY FollowsSame
<1>3. /\ \A k \in 1..Len(tasks') : f[k] # 0 /\ (f[k] = 1 => k = 1)
      /\ 0 \notin 1..Len(tasks)
  OBVIOUS
<1> HIDE DEF f
<1>4. Continued(f, 0)
  BY <1>2, FollowsContinued
<1>5. ASSUME NEW j \in 1..Len(tasks), NEW t, t = tasks[j]
      PROVE  TaskCurrent(t)'
  BY <1>5, CurrentStays DEF CurrentInv
<1>6. \A k \in 1..Len(tasks') : TaskCurrent(tasks[k])' /\ InTurn(k)'
  <2>1. \A j \in 1..Len(tasks) : InTurn(j)
    BY DEF CurrentInv
  <2> QED
    BY <1>2, <1>3, <1>5, <2>1, TasksGoOn
<1>7. ASSUME NEW op, Converges(op)
      PROVE  Converges(op)'
  BY <1>3, <1>4, <1>7, ConvergesOn
<1>8. PageConverges'
  BY <1>7 DEF PageConverges, CurrentInv
<1> QED
  BY <1>1, <1>6, <1>8 DEF CurrentInv

\* No page, or none of a workspace.
LEMMA NowhereCurrent ==
    ASSUME IInv, PagesInv, CurrentInv, IInv', tasks' = << >>,
           UNCHANGED <<saved, mine>>, path' # "protected" \/ selected' = NULL
    PROVE  CurrentInv'
<1>1. WritesSaved'
  BY SavedStays, WritesStaySaved DEF CurrentInv
<1>2. 1..Len(tasks') = {}
  OBVIOUS
<1>3. PageConverges'
  BY DEF PageConverges
<1> QED
  BY <1>1, <1>2, <1>3 DEF CurrentInv

LEMMA FetchCurrent ==
    ASSUME IInv, PagesInv, CurrentInv, IInv', NEW i \in 1..Len(tasks), apiFetch(i)
    PROVE  CurrentInv'
<1>1. PICK t, u, slot : Fetched(i, t, u, slot)
  BY FetchIs
<1>2. /\ UNCHANGED <<route, past, page, selected, shown>> /\ UNCHANGED tables
      /\ calm => i = 1
  BY DEF apiFetch
<1>3. UNCHANGED saved /\ UNCHANGED page
  BY <1>2 DEF tables
<1>4. /\ u \in TaskRecord /\ u.writing = t.writing /\ u.ws = t.ws
      /\ OpsLeft(u)' = OpsLeft(t)
  BY <1>1, <1>3, FetchedIs
<1>5. t = tasks[i] /\ tasks' = [tasks EXCEPT ![i] = u]
  BY <1>1 DEF Fetched
<1>6. TaskCurrent(u)'
  BY <1>1, <1>3, <1>5, FetchedCurrent DEF CurrentInv
<1>7. RequestsKept(i)
  <2>1. \A j \in 1..Len(tasks) : \A r \in tasks[j].waits : r \in Requests /\ request[r] # Free
    BY TaskIs DEF TaskRecord, TaskInv
  <2> QED
    BY <1>1, <2>1 DEF Fetched, RequestsKept
<1> QED
  BY <1>2, <1>3, <1>4, <1>5, <1>6, <1>7, ChangedCurrent

LEMMA ReceivedKeeps ==
    ASSUME IInv, PagesInv, NEW i \in 1..Len(tasks), NEW r, r \in tasks[i].waits,
           Received(r)
    PROVE  RequestsKept(i)
<1>1. \A s \in Requests : s # r => request'[s] = request[s]
  BY ReceivedIs
<1>2. \A j \in 1..Len(tasks) : tasks[j].waits \subseteq Requests
  BY TaskIs DEF TaskRecord
<1>3. \A j \in 1..Len(tasks) : j # i => r \notin tasks[j].waits
  BY DEF PagesInv, TasksInv
<1> QED
  BY <1>1, <1>2, <1>3 DEF RequestsKept

LEMMA ArriveCurrent ==
    ASSUME IInv, PagesInv, CurrentInv, IInv', NEW i \in 1..Len(tasks),
           NEW r, answerArrives(i, r)
    PROVE  CurrentInv'
<1>1. PICK t, u, answer : Arrived(i, t, u, r, answer)
  BY ArriveIs
<1>2. /\ UNCHANGED <<route, past, page, selected, shown>> /\ UNCHANGED tables
      /\ request[r].step = "answered" /\ request[r].reply.ok
      /\ calm => i = 1
  BY DEF answerArrives, Answered
<1>3. UNCHANGED <<page, saved, mine, calm>>
  BY <1>2 DEF tables, past
<1>4. /\ u \in TaskRecord /\ u.writing = t.writing /\ u.ws = t.ws
      /\ OpsLeft(u)' = OpsLeft(t)
  BY <1>1, <1>3, ArrivedIs
<1>5. /\ t = tasks[i] /\ r \in tasks[i].waits /\ Received(r)
      /\ tasks' = [tasks EXCEPT ![i] = u]
  BY <1>1 DEF Arrived
<1>6. TaskCurrent(u)'
  BY <1>1, <1>2, <1>3, <1>5, ArrivedCurrent DEF CurrentInv
<1>7. RequestsKept(i)
  BY <1>5, ReceivedKeeps
<1> QED
  BY <1>2, <1>3, <1>4, <1>5, <1>6, <1>7, ChangedCurrent

LEMMA FailCurrent ==
    ASSUME IInv, PagesInv, CurrentInv, IInv', NEW i \in 1..Len(tasks), NEW r,
           refused(i, r) \/ lost(i, r)
    PROVE  CurrentInv'
<1>1. /\ r \in tasks[i].waits /\ Fails(i) /\ UNCHANGED saved
      /\ calm => i = 1
      /\ Received(r) \/ UNCHANGED request
  <2>1. CASE refused(i, r)
    BY <2>1 DEF refused, Answered, tables
  <2>2. CASE lost(i, r)
    BY <2>2 DEF lost, accessVars, tables
  <2> QED
    BY <2>1, <2>2
<1>2. /\ tasks' = RemoveAt(tasks, i)
      /\ UNCHANGED <<path, calm, mine, page, selected, shown>>
      /\ faulted' = (faulted \/ ~tasks[i].writing)
  BY <1>1 DEF Fails, route
<1>3. RequestsKept(i)
  <2>1. CASE UNCHANGED request
    BY <2>1 DEF RequestsKept
  <2> QED
    BY <1>1, <2>1, ReceivedKeeps
<1> QED
  BY <1>1, <1>2, <1>3, GoneCurrent

\* The page waits while a free request, or one that nobody waits for, changes.
LEMMA OtherRequestCurrent ==
    ASSUME IInv, PagesInv, CurrentInv, IInv', UNCHANGED saved,
           UNCHANGED <<path, calm, faulted, mine, page, selected, shown, tasks>>,
           NEW r \in Requests, request[r] = Free \/ r \notin Waited,
           \A s \in Requests : s # r => request'[s] = request[s]
    PROVE  CurrentInv'
<1>1. \A j \in 1..Len(tasks) :
          /\ tasks[j] \in ToSet(tasks)
          /\ \A s \in tasks[j].waits : s \in Requests /\ request[s] # Free
  BY TaskIs DEF TaskInv, TaskRecord, ToSet
<1>2. \A j \in 1..Len(tasks) : r \notin tasks[j].waits
  BY <1>1 DEF Waited
<1>3. \A j \in 1..Len(tasks) : \A s \in tasks[j].waits : request'[s] = request[s]
  BY <1>1, <1>2
<1>4. \A j \in 1..Len(tasks) : WaitsKept(tasks[j])
  BY OthersKeep
<1> QED
  BY <1>3, <1>4, SavedStays, QuietCurrent

LEMMA ServeCurrent ==
    ASSUME IInv, PagesInv, CurrentInv, IInv', NEW r \in Requests, Serve(r),
           UNCHANGED <<path, calm, faulted, mine, page, selected, shown, tasks>>
    PROVE  CurrentInv'
<1>1. Served(r)
  BY ServeIs
<1>2. \A j \in 1..Len(tasks) : tasks[j].waits \subseteq Requests
  BY TaskIs DEF TaskRecord
<1>3. \A j \in 1..Len(tasks) : \A s \in tasks[j].waits :
          request'[s] = request[s] \/ Served(s)
  BY <1>1, <1>2 DEF Served
<1>4. SavedGrows
  BY <1>1 DEF Served, SavedGrows
<1>5. \A j \in 1..Len(tasks) : WaitsKept(tasks[j])
  BY ServeKeeps
<1> QED
  BY <1>3, <1>4, <1>5, QuietCurrent

\* Nothing becomes of the requests.
LEMMA UnaskedCurrent ==
    ASSUME IInv, PagesInv, CurrentInv, IInv', UNCHANGED <<request, saved>>,
           UNCHANGED <<path, calm, faulted, mine, page, selected, shown, tasks>>
    PROVE  CurrentInv'
BY SavedStays, NoWaits, QuietCurrent

LEMMA OthersCurrent ==
    ASSUME IInv, PagesInv, CurrentInv, IInv', Others
    PROVE  CurrentInv'
<1>1. UNCHANGED <<path, calm, faulted, mine, page, selected, shown, tasks>>
  BY DEF Others, view, route, past
<1>2. ASSUME NEW r \in Requests, ClientRequests(r)
      PROVE  CurrentInv'
  <2>1. UNCHANGED saved
    <3>1. PICK u, w, op, says, k :
              jwtRequest(r, u, w, op, says) \/ keyRequest(r, k, w, op, says)
      BY <1>2 DEF ClientRequests
    <3> QED
      BY <3>1 DEF jwtRequest, keyRequest, tables
  <2> QED
    BY <1>1, <1>2, <2>1, AskedKeeps, OtherRequestCurrent
<1>3. ASSUME NEW w \in Workspaces, NEW u \in Users, NEW as \in Role,
             MembershipChanges(w, u, as)
      PROVE  CurrentInv'
  BY <1>1, <1>3, UnaskedCurrent DEF MembershipChanges
<1> QED
  BY <1>2, <1>3 DEF Others

LEMMA NavigatesCurrent ==
    ASSUME IInv, PagesInv, CurrentInv, IInv', Navigates
    PROVE  CurrentInv'
<1>1. CASE submitWorkspace
  <2>1. PICK r \in Requests : jwtRequest(r, Visitor, NULL, "createWorkspace", Nothing)
    BY <1>1 DEF submitWorkspace
  <2>2. UNCHANGED saved
    BY <2>1 DEF jwtRequest, tables
  <2>3. UNCHANGED <<path, calm, faulted, mine, page, selected, shown, tasks>>
    BY <1>1 DEF submitWorkspace, view, route, past
  <2> QED
    BY <2>1, <2>2, <2>3, AskedKeeps, OtherRequestCurrent
<1>2. ASSUME NEW r \in Requests, workspaceCreated(r)
      PROVE  CurrentInv'
  <2>1. /\ path = "onboarding" /\ path' # "protected"
        /\ UNCHANGED <<saved, mine, tasks>>
    BY <1>2 DEF workspaceCreated, view, past, Receive, tables
  <2>2. tasks' = << >>
    BY <2>1 DEF PagesInv, TasksInv
  <2> QED
    BY <2>1, <2>2, NowhereCurrent
<1>3. CASE SignOut \/ Visit("toProtected") \/ Visit("toOnboarding")
  <2>1. tasks' = << >> /\ UNCHANGED <<saved, mine>> /\ path' # "protected"
    BY <1>3 DEF SignOut, Visit, accessVars, tables, past
  <2> QED
    BY <2>1, NowhereCurrent
<1>4. CASE Login \/ ProtectedLayout \/ OnboardingPage
  <2>1. path # "protected" /\ UNCHANGED saved
    BY <1>4 DEF Login, ProtectedLayout, OnboardingPage, Redirect, fetchFails,
                Enter, accessVars, tables
  <2>2. tasks = << >>
    BY <2>1 DEF PagesInv, TasksInv
  <2>3. CASE Enter
    <3>1. tasks' = << >> /\ selected' = NULL /\ UNCHANGED mine
      BY <2>3 DEF Enter, Mount, LoadTasks
    <3> QED
      BY <2>1, <3>1, NowhereCurrent
  <2>4. CASE UNCHANGED <<tasks, mine>> /\ path' # "protected"
    BY <2>1, <2>2, <2>4, NowhereCurrent
  <2> QED
    BY <1>4, <2>3, <2>4
       DEF Login, ProtectedLayout, OnboardingPage, Redirect, fetchFails, view, past
<1> QED
  BY <1>1, <1>2, <1>3, <1>4 DEF Navigates

\* The loads of a page ask for all it shows; if one asks for the user's
\* workspaces, each does.
LEMMA LoadsCurrent ==
    ASSUME NEW p \in Pages, NEW w \in Workspaces, NEW new, new = LoadTasks(p, w)
    PROVE  /\ new \in Seq(TaskRecord)
           /\ \A k \in 1..Len(new) : \A u : u = new[k] =>
                 /\ u.ws = w /\ ~u.writing /\ u.waits = {} /\ TaskCurrent(u)'
                 /\ "getWorkspaces" \in OpsOf(p) => "getWorkspaces" \in OpsLeft(u)'
           /\ \A op \in OpsOf(p) : \E k \in 1..Len(new) :
                 \A u : u = new[k] => op \in OpsLeft(u)'
<1>1. new \in Seq(TaskRecord) /\ Len(new) = Len(p.loads)
  BY LoadTasksAre
<1>2. ASSUME NEW k \in 1..Len(new), NEW u, u = new[k], NEW load, load = p.loads[k]
      PROVE  /\ u.ws = w /\ ~u.writing /\ u.waits = {} /\ TaskCurrent(u)'
             /\ OpsLeft(u)' = UNION ToSet(load) /\ LoadInv(load, p)
  <2>1. PICK for : for = "load"
    OBVIOUS
  <2>2. /\ u = Task(for, FALSE, w, Nothing, load) /\ for \in Writes \cup {"load"}
        /\ LoadInv(load, p) /\ UNION ToSet(load) \subseteq OpsOf(p)
    BY <1>1, <1>2, <2>1, LoadTasksAre
  <2>3. u.ws = w /\ ~u.writing /\ u.waits = {} /\ u.got = {} /\ u.todo = load
    BY <2>2 DEF Task
  <2>4. OpsNow(u)' = {}
    BY <2>2, LoadIs
  <2>5. OpsLeft(u)' = UNION ToSet(load)
    BY <2>3, <2>4 DEF OpsLeft, ToSet
  <2> QED
    BY <2>2, <2>3, <2>4, <2>5, LoadCurrent
<1>3. ASSUME NEW k \in 1..Len(new), NEW u, u = new[k], "getWorkspaces" \in OpsOf(p)
      PROVE  "getWorkspaces" \in OpsLeft(u)'
  <2>1. PICK load : load = p.loads[k]
    OBVIOUS
  <2>2. /\ OpsLeft(u)' = UNION ToSet(load) /\ LoadInv(load, p)
    BY <1>2, <1>3, <2>1
  <2>3. Len(load) = 2 /\ load[1] = {"getWorkspaces"} /\ load \in Seq(SUBSET Ops)
    BY <1>3, <2>2 DEF LoadInv
  <2>4. load[1] \in ToSet(load)
    BY <2>3 DEF ToSet
  <2> QED
    BY <2>2, <2>3, <2>4
<1>4. ASSUME NEW op \in OpsOf(p)
      PROVE  \E k \in 1..Len(new) : \A u : u = new[k] => op \in OpsLeft(u)'
  <2>1. PICK load \in ToSet(p.loads) : op \in UNION ToSet(load)
    BY <1>4 DEF OpsOf
  <2>2. p.loads \in Seq(Seq(SUBSET Ops))
    BY PagesAre DEF PageInv
  <2>3. PICK k \in 1..Len(p.loads) : load = p.loads[k]
    BY <2>1, <2>2 DEF ToSet
  <2> QED
    BY <1>1, <1>2, <2>1, <2>3
<1> QED
  BY <1>1, <1>2, <1>3, <1>4

LEMMA OpenCurrent ==
    ASSUME IInv, PagesInv, CurrentInv, IInv', NEW p \in Pages, OpenPage(p)
    PROVE  CurrentInv'
<1>1. PICK w \in workspaces : Mount(p, w)
  BY DEF OpenPage
<1>2. w \in Workspaces
  BY DEF IInv, AccessTypeOK
<1>3. /\ page' = p /\ selected' = w /\ tasks' = LoadTasks(p, w)
      /\ UNCHANGED <<saved, mine, calm>>
  BY <1>1 DEF Mount, OpenPage, accessVars, tables
<1>4. PICK new : new = LoadTasks(p, w)
  OBVIOUS
<1>5. tasks' = new
  BY <1>3, <1>4
<1>6. WritesSaved'
  BY <1>3, SavedStays, WritesStaySaved DEF CurrentInv
<1>7. ASSUME NEW k \in 1..Len(tasks')
      PROVE  /\ tasks'[k].ws = w /\ ~tasks'[k].writing
             /\ TaskCurrent(tasks[k])' /\ InTurn(k)'
  <2>1. PICK u : u = new[k]
    OBVIOUS
  <2>2. u.ws = w /\ ~u.writing /\ u.waits = {} /\ TaskCurrent(u)' /\ tasks'[k] = u
    BY <1>2, <1>4, <1>5, <1>7, <2>1, LoadsCurrent
  <2> QED
    BY <2>2 DEF InTurn
<1>8. ASSUME NEW op \in OpsOf(p)
      PROVE  Converges(op)'
  <2>1. PICK k \in 1..Len(new) : \A u : u = new[k] => op \in OpsLeft(u)'
    BY <1>2, <1>4, LoadsCurrent
  <2>2. PICK u : u = new[k]
    OBVIOUS
  <2>3. op \in OpsLeft(u)' /\ tasks'[k] = u
    BY <1>5, <2>1, <2>2
  <2>4. ShowsSelected(k, op)'
    BY <1>3, <1>5, <1>7, <2>3 DEF ShowsSelected, Shows
  <2> QED
    BY <1>3, <1>5, <1>7, <2>4 DEF Converges
<1>9. PageConverges'
  BY <1>3, <1>8 DEF PageConverges
<1> QED
  BY <1>6, <1>7, <1>9 DEF CurrentInv

LEMMA SwitchCurrent ==
    ASSUME IInv, PagesInv, CurrentInv, IInv', NEW w \in Workspaces, SwitchWorkspace(w)
    PROVE  CurrentInv'
<1>1. /\ selected' = w /\ tasks' = tasks \o LoadTasks(page, w)
      /\ calm => \A t \in ToSet(tasks) : ~t.writing
      /\ UNCHANGED <<page, saved, request, mine, calm>>
  BY DEF SwitchWorkspace, accessVars, tables
<1>2. PICK p, new : p = page /\ new = LoadTasks(page, w)
  OBVIOUS
<1>3. p \in Pages
  BY <1>2, TaskIs
<1>4. new \in Seq(TaskRecord) /\ tasks' = tasks \o new
  BY <1>1, <1>2, <1>3, LoadsCurrent
<1>5. SavedGrows /\ WritesSaved'
  BY <1>1, SavedStays, WritesStaySaved DEF CurrentInv
<1> DEFINE f == [k \in 1..Len(tasks') |-> IF k <= Len(tasks) THEN k ELSE 0]
<1>6. /\ Len(tasks') = Len(tasks) + Len(new) /\ Follows(f, 0)
      /\ \A k \in 1..Len(new) : tasks'[Len(tasks) + k] = new[k]
  BY <1>4, FollowsExtended DEF PagesInv, TasksInv
<1>7. Len(tasks) \in Nat /\ Len(new) \in Nat
  BY <1>4, TaskIs
<1>8. ASSUME NEW k \in 1..Len(tasks'), k > Len(tasks)
      PROVE  /\ tasks'[k].ws = w /\ ~tasks'[k].writing
             /\ TaskCurrent(tasks[k])' /\ InTurn(k)'
  <2> HIDE DEF f
  <2>1. PICK m : m = k - Len(tasks)
    OBVIOUS
  <2>2. m \in 1..Len(new) /\ k = Len(tasks) + m
    BY <1>6, <1>7, <1>8, <2>1
  <2>3. PICK u : u = new[m]
    OBVIOUS
  <2>4. tasks'[k] = u
    BY <1>6, <2>2, <2>3
  <2>5. u.ws = w /\ ~u.writing /\ u.waits = {} /\ TaskCurrent(u)'
    BY <1>2, <1>3, <2>2, <2>3, LoadsCurrent
  <2> QED
    BY <2>4, <2>5 DEF InTurn
<1>9. \A k \in 1..Len(tasks') : TaskCurrent(tasks[k])' /\ InTurn(k)'
  <2>1. RequestsKept(0)
    BY <1>1 DEF RequestsKept
  <2>2. \A j \in 1..Len(tasks) : j # 0 => \A t : t = tasks[j] => TaskCurrent(t)'
    BY <1>1, <1>5, <2>1, KeptAreKept
  <2>3. \A k \in 1..Len(tasks') : f[k] = 0 => TaskCurrent(tasks[k])' /\ InTurn(k)'
    BY <1>7, <1>8
  <2>4. calm => \A k \in 1..Len(tasks') : f[k] = 1 => k = 1
    OBVIOUS
  <2>5. calm => \A j \in 1..Len(tasks) : ~tasks[j].writing
    BY <1>1, TaskIs DEF ToSet
  <2>6. \A j \in 1..Len(tasks) : InTurn(j)
    BY DEF CurrentInv
  <2> HIDE DEF f
  <2> QED
    BY <1>1, <1>6, <2>2, <2>3, <2>4, <2>5, <2>6, TasksGoOn
<1>10. ASSUME NEW op \in OpsOf(p) \ Unguarded
       PROVE  Converges(op)'
  <2>1. PICK m \in 1..Len(new) : \A u : u = new[m] => op \in OpsLeft(u)'
    BY <1>2, <1>3, LoadsCurrent
  <2>2. PICK u, n : u = new[m] /\ n = Len(tasks) + m
    OBVIOUS
  <2>3. /\ op \in OpsLeft(u)' /\ tasks'[n] = u
        /\ n \in 1..Len(tasks') /\ n > Len(tasks)
    BY <1>6, <1>7, <2>1, <2>2
  <2>4. ShowsSelected(n, op)'
    BY <1>1, <1>8, <2>3 DEF ShowsSelected, Shows
  <2>5. ASSUME NEW k \in 1..Len(tasks'), Shows(k, op)', tasks'[k].ws # w
        PROVE  After(n, k)'
    <3>1. k < n
      BY <1>7, <1>8, <2>3, <2>5
    <3>2. ASSUME ~Begun(tasks[k])' PROVE ~Begun(tasks[n])'
      <4>1. OpsLeft(tasks[k])' \subseteq OpsOf(p)
        <5>1. TaskInv(tasks[k])'
          BY SwitchPages DEF PagesInv, TasksInv
        <5> QED
          BY <1>1, <1>2, <2>5, <5>1 DEF TaskInv, Shows
      <4>2. PICK o \in OpsLeft(tasks[k])' : o \in Unguarded
        BY <3>2 DEF Begun
      <4>3. o = "getWorkspaces" /\ o \in OpsOf(p)
        <5>1. OpsOf(p) \subseteq Reads \cup {"getWorkspaces"}
          BY <1>3, PagesAre DEF PageInv
        <5> QED
          BY <4>1, <4>2, <5>1, ReadsAre
      <4>4. o \in OpsLeft(u)'
        BY <1>2, <1>3, <2>2, <4>3, LoadsCurrent
      <4> QED
        BY <2>3, <4>2, <4>4 DEF Begun
    <3> QED
      BY <3>1, <3>2 DEF After
  <2> QED
    BY <1>1, <2>3, <2>4, <2>5 DEF Converges
<1>11. PageConverges'
  BY <1>1, <1>2, <1>10 DEF PageConverges
<1> QED
  BY <1>5, <1>9, <1>11 DEF CurrentInv

\* The answers of a stage count what this browser wrote.
LEMMA StageCounts ==
    ASSUME PagesInv, CurrentInv, NEW i \in 1..Len(tasks), NEW t, NEW r, NEW answer,
           StageShown(i, t, r, answer), calm,
           NEW g \in t.got \cup {answer}, g.op \in Lists
    PROVE  mine[t.ws][g.op] <= g.reply.count
<1>1. AnswersInv(t)
  BY DEF StageShown, CurrentInv, TaskCurrent
<1>2. CASE g \in t.got
  BY <1>1, <1>2 DEF AnswersInv
<1>3. CASE g = answer
  BY <1>1, <1>3, ListsAre DEF AnswersInv, StageShown
<1> QED
  BY <1>2, <1>3

\* What the stage shows of an operation.
LEMMA StageShows ==
    ASSUME PagesInv, CurrentInv, NEW i \in 1..Len(tasks), NEW t, NEW r, NEW answer,
           StageShown(i, t, r, answer), NEW op \in OpsOf(page)
    PROVE  /\ op \notin OpsNow(t) => shown'[op] = shown[op]
           /\ op \in OpsNow(t) =>
                 /\ shown'[op].ws = t.ws
                 /\ calm /\ op \in Lists => mine[t.ws][op] <= shown'[op].count
<1>1. CASE op \notin OpsNow(t)
  BY <1>1 DEF StageShown, ShownOf
<1>2. CASE op \in OpsNow(t)
  <2>1. PICK g \in t.got \cup {answer} :
            /\ g.op = op /\ shown'[op].ws = t.ws /\ shown'[op].count = g.reply.count
    BY <1>2 DEF StageShown, ShownOf
  <2>2. calm /\ op \in Lists => mine[t.ws][op] <= shown'[op].count
    BY <2>1, StageCounts
  <2> QED
    BY <1>2, <2>1, <2>2
<1> QED
  BY <1>1, <1>2

\* The last stage: what it shows is current, or another load comes after it.
LEMMA LastStageConverges ==
    ASSUME PagesInv, CurrentInv, NEW i \in 1..Len(tasks), i = 1, NEW t, NEW r,
           NEW answer, StageShown(i, t, r, answer), t.todo = << >>, calm,
           NEW f, Continued(f, i), \A k \in 1..Len(tasks') : f[k] # 0,
           UNCHANGED <<selected, page, mine>>,
           NEW op \in OpsOf(page) \ Unguarded, Converges(op)
    PROVE  Converges(op)'
<1>1. t = tasks[i] /\ ~t.writing /\ StagesInv(t)
  BY DEF StageShown, CurrentInv, TaskCurrent
<1>2. OpsLeft(t) = OpsNow(t) /\ OpsNow(t) \cap Unguarded = {}
  <2>1. Len(t.todo) = 0 /\ UNION ToSet(t.todo) = {}
    BY SeqElements
  <2> QED
    BY <1>1, <2>1 DEF StagesInv, OpsLeft
<1>3. Begun(tasks[i])
  BY <1>1, <1>2 DEF Begun
<1>4. \A j \in 1..Len(tasks) : ~After(i, j)
  BY <1>3 DEF After
<1>5. ASSUME \A j \in 1..Len(tasks) : j # i => ~ShowsSelected(j, op)
      PROVE  Current(op)'
  <2>1. CASE op \in OpsNow(t)
    <3>1. Shows(i, op)
      BY <1>1, <1>2, <2>1 DEF Shows
    <3>2. t.ws = selected
      BY <1>1, <1>4, <1>5, <3>1 DEF Converges
    <3>3. ASSUME op \in {ShownBy[write] : write \in page.writes}
          PROVE  mine[selected][op] <= shown'[op].count
      <4>1. op \in Lists
        BY <3>3, TaskIs, ShownIsList DEF PageInv
      <4> QED
        BY <2>1, <3>2, <4>1, StageShows
    <3>4. shown'[op].ws = selected
      BY <2>1, <3>2, StageShows
    <3> QED
      BY <3>3, <3>4 DEF Current
  <2>2. CASE op \notin OpsNow(t)
    <3>1. ~ShowsSelected(i, op)
      BY <1>1, <1>2, <2>2 DEF ShowsSelected, Shows
    <3>2. Current(op)
      BY <1>5, <3>1 DEF Converges
    <3>3. shown'[op] = shown[op]
      BY <2>2, StageShows
    <3> QED
      BY <3>2, <3>3 DEF Current
  <2> QED
    BY <2>1, <2>2
<1> QED
  BY <1>4, <1>5, ConvergesFollows

\* The first stage of two: the load goes on behind the others, as the only
\* ones that had not begun are of its kind.
LEMMA FirstStageConverges ==
    ASSUME IInv, PagesInv, CurrentInv, NEW i \in 1..Len(tasks), i = 1, NEW t, NEW r,
           NEW answer, StageShown(i, t, r, answer), t.todo # << >>, calm,
           NEW f, Continued(f, i), NEW n \in 1..Len(tasks'), n = Len(tasks'),
           f[n] = 0, \A k \in 1..Len(tasks') : k # n => f[k] # 0,
           ~tasks'[n].writing, tasks'[n].ws = t.ws,
           OpsLeft(tasks[n])' = UNION ToSet(t.todo),
           UNCHANGED <<selected, page, mine>>,
           NEW op \in OpsOf(page) \ Unguarded, Converges(op)
    PROVE  Converges(op)'
<1>1. t = tasks[i] /\ ~t.writing /\ StagesInv(t) /\ t \in TaskRecord
  BY TaskIs DEF StageShown, CurrentInv, TaskCurrent
<1>2. PICK o : o \in OpsNow(t)
  BY DEF StageShown, OpsNow
<1>3. /\ (UNION ToSet(t.todo)) \cap Unguarded = {} /\ OpsNow(t) \subseteq Unguarded
  <2>1. Len(t.todo) = 1 /\ t.todo[1] \cap Unguarded = {} /\ OpsNow(t) \subseteq Unguarded
    BY <1>1, <1>2 DEF StagesInv
  <2>2. t.todo \in Seq(SUBSET Ops)
    BY <1>1 DEF TaskRecord
  <2>3. PICK stage : stage = t.todo[1]
    OBVIOUS
  <2>4. ToSet(t.todo) = {stage}
    BY <2>1, <2>2, <2>3 DEF ToSet
  <2>5. UNION ToSet(t.todo) = stage /\ stage \cap Unguarded = {}
    BY <2>1, <2>3, <2>4
  <2> QED
    BY <2>1, <2>5
<1>4. ~Begun(tasks[i]) /\ Begun(tasks[n])'
  <2>1. o \in OpsLeft(t) /\ o \in Unguarded
    BY <1>2, <1>3 DEF OpsLeft
  <2>2. ~Begun(tasks[i])
    BY <1>1, <2>1 DEF Begun
  <2>3. Begun(tasks[n])'
    BY <1>3 DEF Begun
  <2> QED
    BY <2>2, <2>3
<1>5. Shows(i, op) <=> Shows(n, op)'
  <2>1. op \in OpsLeft(t) <=> op \in UNION ToSet(t.todo)
    BY <1>3 DEF OpsLeft
  <2> QED
    BY <1>1, <2>1 DEF Shows
<1>6. ShowsSelected(i, op) <=> ShowsSelected(n, op)'
  BY <1>1, <1>5 DEF ShowsSelected
<1>7. ASSUME NEW m \in 1..Len(tasks), m # i, ShowsSelected(m, op)
      PROVE  \E l \in 1..Len(tasks') :
                 f[l] = m /\ Same(l, m) /\ ShowsSelected(l, op)'
  <2>1. PICK l \in 1..Len(tasks') : f[l] = m
    BY <1>7 DEF Continued
  <2>2. Same(l, m)
    BY <2>1 DEF Continued
  <2> QED
    BY <1>7, <2>1, <2>2, SameShows
<1>8. ASSUME NEW k \in 1..Len(tasks'), Shows(k, op)', tasks'[k].ws # selected'
      PROVE  \E l \in 1..Len(tasks') : ShowsSelected(l, op)' /\ After(l, k)'
  <2>1. CASE k = n
    <3>1. Shows(i, op) /\ tasks[i].ws # selected
      BY <1>1, <1>5, <1>8, <2>1
    <3>2. PICK m \in 1..Len(tasks) : ShowsSelected(m, op) /\ After(m, i)
      BY <3>1 DEF Converges
    <3>3. m # i /\ ~Begun(tasks[m])
      BY <1>4, <3>2 DEF After
    <3>4. PICK l \in 1..Len(tasks') : Same(l, m) /\ ShowsSelected(l, op)'
      BY <1>7, <3>2, <3>3
    <3>5. ~Begun(tasks[l])'
      BY <3>3, <3>4, SameShows
    <3> QED
      BY <1>4, <2>1, <3>4, <3>5 DEF After
  <2>2. CASE k # n
    <3>1. PICK j : j = f[k]
      OBVIOUS
    <3>2. j \in 1..Len(tasks) /\ j # i /\ Same(k, j)
      BY <2>2, <3>1 DEF Continued
    <3>3. Shows(j, op) /\ tasks[j].ws # selected
      BY <1>8, <3>2, SameShows
    <3>4. PICK m \in 1..Len(tasks) : ShowsSelected(m, op) /\ After(m, j)
      BY <3>2, <3>3 DEF Converges
    <3>5. CASE m = i
      <4>1. Begun(tasks[j])
        BY <1>4, <3>2, <3>4, <3>5 DEF After
      <4>2. Begun(tasks[k])' /\ k < n
        BY <2>2, <3>2, <4>1, SameShows
      <4> QED
        BY <1>4, <1>6, <3>4, <3>5, <4>2 DEF After
    <3>6. CASE m # i
      <4>1. PICK l \in 1..Len(tasks') : f[l] = m /\ ShowsSelected(l, op)'
        BY <1>7, <3>4, <3>6
      <4>2. f[l] # 0 /\ f[k] # 0 /\ After(f[l], f[k])
        BY <3>1, <3>2, <3>4, <4>1
      <4>3. After(l, k)'
        BY <4>2, AfterKept
      <4> QED
        BY <4>1, <4>3
    <3> QED
      BY <3>5, <3>6
  <2> QED
    BY <2>1, <2>2
<1>9. ASSUME \A k \in 1..Len(tasks') : ~ShowsSelected(k, op)'
      PROVE  Current(op)'
  <2>1. \A m \in 1..Len(tasks) : ~ShowsSelected(m, op)
    BY <1>6, <1>7, <1>9
  <2>2. Current(op)
    BY <2>1 DEF Converges
  <2>3. shown'[op] = shown[op]
    BY <1>3, StageShows
  <2> QED
    BY <2>2, <2>3 DEF Current
<1> QED
  BY <1>8, <1>9 DEF Converges

LEMMA StageCurrent ==
    ASSUME IInv, PagesInv, CurrentInv, IInv', NEW i \in 1..Len(tasks), NEW r,
           stageShown(i, r)
    PROVE  CurrentInv'
<1>1. PICK t, answer : StageShown(i, t, r, answer)
  BY StageIs
<1>2. /\ UNCHANGED <<saved, path, calm, faulted, mine, page, selected>>
      /\ calm => i = 1
  BY DEF stageShown, Answered, tables, route, past
<1>3. SavedGrows /\ WritesSaved'
  BY <1>2, SavedStays, WritesStaySaved DEF CurrentInv
<1>4. t = tasks[i] /\ r \in tasks[i].waits /\ Received(r) /\ ~t.writing
  BY <1>1 DEF StageShown
<1>5. /\ \A j \in 1..Len(tasks) : j # i => WaitsKept(tasks[j])
      /\ \A j \in 1..Len(tasks) : j # i => \A v : v = tasks[j] => TaskCurrent(v)'
  BY <1>2, <1>3, <1>4, ReceivedKeeps, KeptAreKept
<1>6. \A j \in 1..Len(tasks) : InTurn(j)
  BY DEF CurrentInv
<1>7. CASE t.todo = << >>
  <2>1. tasks' = RemoveAt(tasks, i)
    BY <1>4, <1>7 DEF stageShown
  <2> DEFINE f == [k \in 1..Len(tasks') |-> IF k < i THEN k ELSE k + 1]
  <2>2. Follows(f, i)
    BY <2>1, FollowsRemoved DEF PagesInv, TasksInv
  <2>3. /\ \A k \in 1..Len(tasks') : f[k] # 0
        /\ calm => \A k \in 1..Len(tasks') : f[k] = 1 => k = 1
    BY <1>2
  <2> HIDE DEF f
  <2>4. Continued(f, i)
    BY <1>5, <2>2, FollowsContinued
  <2>5. \A k \in 1..Len(tasks') : TaskCurrent(tasks[k])' /\ InTurn(k)'
    BY <1>2, <1>5, <1>6, <2>2, <2>3, TasksGoOn
  <2>6. ASSUME calm, NEW op \in OpsOf(page) \ Unguarded, Converges(op)
        PROVE  Converges(op)'
    BY <1>1, <1>2, <1>7, <2>3, <2>4, <2>6, LastStageConverges
  <2>7. PageConverges'
    BY <1>2, <2>6 DEF PageConverges, CurrentInv
  <2> QED
    BY <1>3, <2>5, <2>7 DEF CurrentInv
<1>8. CASE t.todo # << >>
  <2>1. PICK u : NextStage(t, u)
    BY DEF NextStage
  <2>2. tasks' = Append(RemoveAt(tasks, i), u)
    BY <1>4, <1>8, <2>1 DEF stageShown, NextStage
  <2>3. /\ u \in TaskRecord /\ u.waits = {} /\ u.writing = t.writing /\ u.ws = t.ws
        /\ OpsLeft(u)' = UNION ToSet(t.todo)
    BY <1>2, <1>4, <2>1, NextStageIs
  <2>4. TaskCurrent(u)'
    BY <1>2, <1>4, <1>8, <2>1, NextStageCurrent DEF CurrentInv
  <2>5. PICK n : n = Len(tasks)
    OBVIOUS
  <2> DEFINE f == [k \in 1..Len(tasks') |->
                      IF k = Len(tasks) THEN 0 ELSE IF k < i THEN k ELSE k + 1]
  <2>6. Follows(f, i) /\ Len(tasks') = n /\ tasks'[n] = u
    BY <2>2, <2>3, <2>5, FollowsReplaced DEF PagesInv, TasksInv
  <2>7. /\ n \in 1..Len(tasks') /\ f[n] = 0
        /\ \A k \in 1..Len(tasks') : k # n => f[k] # 0
        /\ calm => \A k \in 1..Len(tasks') : f[k] = 1 => k = 1
    BY <1>2, <2>5, <2>6
  <2> HIDE DEF f
  <2>8. Continued(f, i)
    BY <1>5, <2>6, FollowsContinued
  <2>9. TaskCurrent(tasks[n])' /\ InTurn(n)'
    BY <1>4, <2>3, <2>4, <2>6 DEF InTurn
  <2>10. \A k \in 1..Len(tasks') : TaskCurrent(tasks[k])' /\ InTurn(k)'
    <3>1. \A k \in 1..Len(tasks') : f[k] = 0 => TaskCurrent(tasks[k])' /\ InTurn(k)'
      BY <2>6, <2>7, <2>9
    <3> QED
      BY <1>2, <1>5, <1>6, <2>6, <2>7, <3>1, TasksGoOn
  <2>11. ASSUME calm, NEW op \in OpsOf(page) \ Unguarded, Converges(op)
         PROVE  Converges(op)'
    <3>1. ~tasks'[n].writing /\ tasks'[n].ws = t.ws
      BY <1>4, <2>3, <2>6
    <3>2. OpsLeft(tasks[n])' = UNION ToSet(t.todo)
      BY <2>3, <2>6
    <3> QED
      BY <1>1, <1>2, <1>8, <2>6, <2>7, <2>8, <2>11, <3>1, <3>2, FirstStageConverges
  <2>12. PageConverges'
    BY <1>2, <2>11 DEF PageConverges, CurrentInv
  <2> QED
    BY <1>3, <2>10, <2>12 DEF CurrentInv
<1> QED
  BY <1>7, <1>8

\* What the browser knows of its own writes, once it is answered.
LEMMA WriteCounts ==
    ASSUME IInv, PagesInv, CurrentInv, NEW i \in 1..Len(tasks), NEW t, NEW r,
           NEW count, WriteDone(i, t, r, count)
    PROVE  /\ \A w \in Workspaces, l \in Lists :
                 w # t.ws \/ l # ShownBy[t.for] => mine'[w][l] = mine[w][l]
           /\ mine'[t.ws][ShownBy[t.for]] <= saved[t.ws][ShownBy[t.for]]
           /\ calm => mine'[t.ws][ShownBy[t.for]] = count
<1>1. PICK w, l : w = t.ws /\ l = ShownBy[t.for]
  OBVIOUS
<1>2. w \in Workspaces /\ l \in Lists
  BY <1>1 DEF WriteDone, TaskRecord
<1>3. mine \in [Workspaces -> [Lists -> 0..MaxSaves]]
  BY DEF PagesInv, PageTypes
<1>4. mine' = [mine EXCEPT ![w][l] = IF count > @ THEN count ELSE @]
  BY <1>1 DEF WriteDone
<1>5. /\ \A v \in Workspaces, m \in Lists : v # w \/ m # l => mine'[v][m] = mine[v][m]
      /\ mine'[w][l] = IF count > mine[w][l] THEN count ELSE mine[w][l]
  BY <1>2, <1>3, <1>4
<1>6. count <= saved[w][l] /\ (calm => mine[w][l] <= count)
  <2>1. AnswersInv(t) /\ r \in t.waits
    BY DEF WriteDone, CurrentInv, TaskCurrent
  <2>2. ListOf(request[r].op) = l
    BY <1>1, ListsAre DEF WriteDone
  <2> QED
    BY <1>1, <1>2, <2>1, <2>2 DEF AnswersInv, WriteDone
<1>7. mine[w][l] <= saved[w][l]
  BY <1>2 DEF CurrentInv, WritesSaved
<1>8. count \in Nat /\ mine[w][l] \in Nat /\ saved[w][l] \in Nat
  BY <1>2, CountsAre, AccessAssumption DEF WriteDone
<1> QED
  BY <1>1, <1>5, <1>6, <1>7, <1>8

\* After a write, its list is loaded again or is the answer.
LEMMA WriteConverges ==
    ASSUME IInv, PagesInv, CurrentInv, NEW i \in 1..Len(tasks), NEW t, NEW r,
           NEW count, WriteDone(i, t, r, count), calm, t.ws = selected,
           NEW f, Continued(f, i),
           \A k \in 1..Len(tasks') : f[k] = 0 =>
               /\ ~tasks'[k].writing /\ tasks'[k].ws = t.ws
               /\ OpsLeft(tasks[k])' = UNION ToSet(page.again),
           page.again # << >> => \E k \in 1..Len(tasks') : f[k] = 0,
           UNCHANGED <<selected, page>>,
           NEW op \in OpsOf(page) \ Unguarded, Converges(op)
    PROVE  Converges(op)'
<1>1. t = tasks[i] /\ t.writing /\ t.for \in page.writes /\ t.ws \in Workspaces
  BY DEF WriteDone, TaskRecord
<1>2. ~ShowsSelected(i, op)
  BY <1>1 DEF ShowsSelected, Shows
<1>3. PICK l : l = ShownBy[t.for]
  OBVIOUS
<1>4. ASSUME Current(op), \A k \in 1..Len(tasks') : ~ShowsSelected(k, op)'
      PROVE  Current(op)'
  <2>1. CASE op = l
    <3>1. t.for = "updateSettings"
      <4>1. ASSUME l \in UNION ToSet(page.again)
            PROVE  FALSE
        <5>1. page.again # << >>
          BY <4>1, SeqElements
        <5>2. PICK k \in 1..Len(tasks') : f[k] = 0
          BY <5>1
        <5>3. op \in OpsLeft(tasks[k])'
          BY <2>1, <4>1, <5>2
        <5>4. ShowsSelected(k, op)'
          BY <5>2, <5>3 DEF ShowsSelected, Shows
        <5> QED
          BY <1>4, <5>4
      <4> QED
        BY <1>1, <1>3, <4>1, TaskIs DEF PageInv
    <3>2. op = "getWorkspace"
      BY <1>3, <2>1, <3>1
         DEF ShownBy, Writes, RowWrites, CampaignsService, BuyersService,
             BlockedCallersService, PhoneNumbersService, WebhooksService,
             WorkspacesService
    <3>3. shown'[op] = [ws |-> t.ws, count |-> count]
      <4>1. shown' = [shown EXCEPT !["getWorkspace"] = [ws |-> t.ws, count |-> count]]
        BY <3>1 DEF WriteDone
      <4>2. op \in DOMAIN shown
        BY DEF PagesInv, PageTypes
      <4> QED
        BY <3>2, <4>1, <4>2
    <3>4. shown'[op].ws = t.ws /\ shown'[op].count = count
      BY <3>3
    <3>5. mine'[t.ws][op] = count
      BY <1>3, <2>1, WriteCounts
    <3>6. count \in Nat
      BY AccessAssumption DEF WriteDone
    <3>7. mine'[selected][op] <= shown'[op].count
      BY <3>4, <3>5, <3>6
    <3> QED
      BY <3>4, <3>7 DEF Current
  <2>2. CASE op # l
    <3>1. shown'[op] = shown[op]
      <4>1. CASE t.for = "updateSettings"
        <5>1. op # "getWorkspace"
          BY <1>3, <2>2, <4>1
             DEF ShownBy, Writes, RowWrites, CampaignsService, BuyersService,
                 BlockedCallersService, PhoneNumbersService, WebhooksService,
                 WorkspacesService
        <5>2. PICK new : new = [ws |-> t.ws, count |-> count]
          OBVIOUS
        <5>3. shown' = [shown EXCEPT !["getWorkspace"] = new]
          BY <4>1, <5>2 DEF WriteDone
        <5>4. op \in DOMAIN shown
          BY DEF PagesInv, PageTypes
        <5> QED
          BY <5>1, <5>3, <5>4
      <4>2. CASE t.for # "updateSettings"
        BY <4>2 DEF WriteDone
      <4> QED
        BY <4>1, <4>2
    <3>2. ASSUME op \in {ShownBy[write] : write \in page.writes}
          PROVE  mine'[selected][op] = mine[selected][op]
      <4>1. op \in Lists
        BY <3>2, TaskIs, ShownIsList DEF PageInv
      <4> QED
        BY <1>1, <1>3, <2>2, <4>1, WriteCounts
    <3> QED
      BY <1>4, <3>1, <3>2 DEF Current
  <2> QED
    BY <2>1, <2>2
<1>5. ASSUME \A j \in 1..Len(tasks) : j # i => ~ShowsSelected(j, op)
      PROVE  Current(op)
  BY <1>2, <1>5 DEF Converges
<1>6. \A k \in 1..Len(tasks') : f[k] = 0 /\ Shows(k, op)' => tasks'[k].ws = selected
  OBVIOUS
<1> QED
  BY <1>2, <1>4, <1>5, <1>6, ConvergesFollows

LEMMA WriteAnsweredCurrent ==
    ASSUME IInv, PagesInv, CurrentInv, IInv', NEW i \in 1..Len(tasks), NEW r,
           writeAnswered(i, r)
    PROVE  CurrentInv'
<1>1. PICK t, count : WriteDone(i, t, r, count)
  BY WriteDoneIs
<1>2. UNCHANGED <<saved, path, calm, faulted, page, selected>> /\ (calm => i = 1)
  BY DEF writeAnswered, Answered, tables, route
<1>3. /\ t = tasks[i] /\ r \in tasks[i].waits /\ Received(r) /\ t.writing
      /\ t.ws \in Workspaces /\ t.for \in Writes
  BY <1>1 DEF WriteDone, TaskRecord
<1>4. WritesSaved'
  <2>1. ASSUME NEW w \in Workspaces, NEW l \in Lists
        PROVE  mine'[w][l] <= saved[w][l]
    BY <1>1, <2>1, WriteCounts DEF CurrentInv, WritesSaved
  <2> QED
    BY <1>2, <2>1 DEF WritesSaved
<1>5. SavedGrows
  BY <1>2, SavedStays
<1>6. /\ \A j \in 1..Len(tasks) : j # i => WaitsKept(tasks[j])
      /\ \A j \in 1..Len(tasks) : j # i => \A v : v = tasks[j] => TaskCurrent(v)'
  BY <1>2, <1>3, <1>5, ReceivedKeeps, KeptAreKept
<1>7. \A j \in 1..Len(tasks) : InTurn(j)
  BY DEF CurrentInv
<1>8. calm => t.ws = selected
  BY <1>3, <1>7 DEF InTurn
\* What is left to show, whatever becomes of the list of tasks.
<1>9. ASSUME NEW f, Follows(f, i),
             calm => \A k \in 1..Len(tasks') : f[k] = 1 => k = 1,
             \A k \in 1..Len(tasks') : f[k] = 0 =>
                 /\ ~tasks'[k].writing /\ tasks'[k].ws = t.ws
                 /\ OpsLeft(tasks[k])' = UNION ToSet(page.again)
                 /\ TaskCurrent(tasks[k])' /\ InTurn(k)',
             page.again # << >> => \E k \in 1..Len(tasks') : f[k] = 0
      PROVE  CurrentInv'
  <2>1. Continued(f, i)
    BY <1>6, <1>9, FollowsContinued
  <2>2. \A k \in 1..Len(tasks') : TaskCurrent(tasks[k])' /\ InTurn(k)'
    BY <1>2, <1>6, <1>7, <1>9, TasksGoOn
  <2>3. ASSUME calm, NEW op \in OpsOf(page) \ Unguarded, Converges(op)
        PROVE  Converges(op)'
    BY <1>1, <1>2, <1>8, <1>9, <2>1, <2>3, WriteConverges
  <2>4. PageConverges'
    BY <1>2, <2>3 DEF PageConverges, CurrentInv
  <2> QED
    BY <1>4, <2>2, <2>4 DEF CurrentInv
<1>10. CASE page.again = << >>
  <2>1. tasks' = RemoveAt(tasks, i)
    BY <1>10 DEF writeAnswered
  <2> DEFINE f == [k \in 1..Len(tasks') |-> IF k < i THEN k ELSE k + 1]
  <2>2. Follows(f, i)
    BY <2>1, FollowsRemoved DEF PagesInv, TasksInv
  <2>3. /\ \A k \in 1..Len(tasks') : f[k] # 0
        /\ calm => \A k \in 1..Len(tasks') : f[k] = 1 => k = 1
    BY <1>2
  <2> HIDE DEF f
  <2> QED
    BY <1>9, <1>10, <2>2, <2>3
<1>11. CASE page.again # << >>
  <2>1. PICK p, for, w, load : /\ p = page /\ for = t.for /\ w = t.ws
                               /\ load = page.again
    OBVIOUS
  <2>2. PICK u : u = Task(for, FALSE, w, Nothing, load)
    OBVIOUS
  <2>3. tasks' = Append(RemoveAt(tasks, i), u)
    BY <1>3, <1>11, <2>1, <2>2 DEF writeAnswered
  <2>4. /\ p \in Pages /\ for \in Writes \cup {"load"} /\ w \in Workspaces
        /\ LoadInv(load, p) /\ UNION ToSet(load) \subseteq OpsOf(p)
    <3>1. p \in Pages /\ for \in Writes \cup {"load"} /\ w \in Workspaces
      BY <1>3, <2>1, TaskIs
    <3> QED
      BY <1>11, <2>1, <3>1, AgainIs
  <2>5. /\ u.ws = w /\ ~u.writing /\ u.waits = {} /\ u.got = {} /\ u.todo = load
    BY <2>2 DEF Task
  <2>6. u \in TaskRecord /\ OpsNow(u)' = {}
    BY <2>2, <2>4, LoadIs
  <2>7. OpsLeft(u)' = UNION ToSet(load)
    BY <2>5, <2>6 DEF OpsLeft, ToSet
  <2>8. TaskCurrent(u)'
    BY <2>4, <2>5, <2>6, LoadCurrent
  <2>9. PICK n : n = Len(tasks)
    OBVIOUS
  <2> DEFINE f == [k \in 1..Len(tasks') |->
                      IF k = Len(tasks) THEN 0 ELSE IF k < i THEN k ELSE k + 1]
  <2>10. Follows(f, i) /\ Len(tasks') = n /\ tasks'[n] = u
    BY <2>3, <2>6, <2>9, FollowsReplaced DEF PagesInv, TasksInv
  <2>11. /\ n \in 1..Len(tasks') /\ f[n] = 0
         /\ \A k \in 1..Len(tasks') : k # n => f[k] # 0
         /\ calm => \A k \in 1..Len(tasks') : f[k] = 1 => k = 1
    BY <1>2, <2>9, <2>10
  <2> HIDE DEF f
  <2>12. /\ ~tasks'[n].writing /\ tasks'[n].ws = t.ws
         /\ TaskCurrent(tasks[n])' /\ InTurn(n)'
    BY <2>1, <2>5, <2>8, <2>10 DEF InTurn
  <2>13. OpsLeft(tasks[n])' = UNION ToSet(page.again)
    BY <2>1, <2>7, <2>10
  <2>14. \A k \in 1..Len(tasks') : f[k] = 0 => k = n
    BY <2>11
  <2> QED
    BY <1>9, <2>10, <2>11, <2>12, <2>13, <2>14
<1> QED
  BY <1>10, <1>11

LEMMA ClickCurrent ==
    ASSUME IInv, PagesInv, CurrentInv, IInv', NEW op \in Writes, Click(op)
    PROVE  CurrentInv'
<1>1. /\ selected # NULL
      /\ UNCHANGED <<saved, path, page, selected, shown, calm, faulted, mine, request>>
  BY DEF Click, route, past, accessVars, tables
<1>2. PICK says \in SaysOf(op) :
          tasks' = Append(tasks, Task(op, TRUE, selected, says, <<{op}>>))
  BY DEF Click
<1>3. PICK w, t : w = selected /\ t = Task(op, TRUE, w, says, <<{op}>>)
  OBVIOUS
<1>4. w \in Workspaces
  BY <1>1, <1>3 DEF PagesInv, PageTypes
<1>5. t \in TaskRecord /\ t.waits = {} /\ t.got = {} /\ t.ws = w /\ t.writing
  BY <1>3, <1>4, WriteIs DEF Task
<1>6. PICK new, n : new = <<t>> /\ n = Len(tasks) + 1
  OBVIOUS
<1>7. tasks' = tasks \o new
  <2>1. tasks \in Seq(TaskRecord)
    BY DEF PagesInv, TasksInv
  <2>2. tasks' = Append(tasks, t)
    BY <1>2, <1>3
  <2> QED
    BY <1>5, <1>6, <2>1, <2>2, AppendIsConcat
<1>8. new \in Seq(TaskRecord) /\ Len(new) = 1 /\ new[1] = t
  BY <1>5, <1>6
<1> DEFINE f == [k \in 1..Len(tasks') |-> IF k <= Len(tasks) THEN k ELSE 0]
<1>9. Len(tasks') = n /\ tasks'[n] = t /\ Follows(f, 0)
  <2>1. /\ Len(tasks') = Len(tasks) + Len(new) /\ Follows(f, 0)
        /\ \A k \in 1..Len(new) : tasks'[Len(tasks) + k] = new[k]
    BY <1>7, <1>8, FollowsExtended DEF PagesInv, TasksInv
  <2> QED
    BY <1>6, <1>8, <2>1
<1>10. /\ \A k \in 1..Len(tasks') : f[k] = 0 => k = n
       /\ calm => \A k \in 1..Len(tasks') : f[k] = 1 => k = 1
       /\ 0 \notin 1..Len(tasks)
  BY <1>6, <1>9, TaskIs
<1> HIDE DEF f
<1>11. SavedGrows /\ WritesSaved'
  BY <1>1, SavedStays, WritesStaySaved DEF CurrentInv
<1>12. RequestsKept(0)
  BY <1>1 DEF RequestsKept
<1>13. /\ \A j \in 1..Len(tasks) : j # 0 => WaitsKept(tasks[j])
       /\ \A j \in 1..Len(tasks) : j # 0 => \A v : v = tasks[j] => TaskCurrent(v)'
  BY <1>1, <1>11, <1>12, KeptAreKept
<1>14. Continued(f, 0)
  BY <1>9, <1>13, FollowsContinued
<1>15. TaskCurrent(t)'
  BY <1>5, WriteCurrent
<1>16. TaskCurrent(tasks[n])' /\ InTurn(n)'
  BY <1>1, <1>3, <1>5, <1>9, <1>15 DEF InTurn
<1>17. \A k \in 1..Len(tasks') : TaskCurrent(tasks[k])' /\ InTurn(k)'
  <2>1. \A j \in 1..Len(tasks) : InTurn(j)
    BY DEF CurrentInv
  <2> QED
    BY <1>1, <1>9, <1>10, <1>13, <1>16, <2>1, TasksGoOn
<1>18. ASSUME NEW o, Converges(o)
       PROVE  Converges(o)'
  <2>1. ~Shows(n, o)'
    BY <1>5, <1>9 DEF Shows
  <2> QED
    BY <1>1, <1>10, <1>14, <1>18, <2>1, ConvergesOn
<1>19. PageConverges'
  BY <1>1, <1>18 DEF PageConverges, CurrentInv
<1> QED
  BY <1>11, <1>17, <1>19 DEF CurrentInv

LEMMA UsesCurrent ==
    ASSUME IInv, PagesInv, CurrentInv, IInv', Uses
    PROVE  CurrentInv'
<1>1. ASSUME NEW c \in Campaigns, NEW b \in Buyers, NEW p \in Priorities,
             PickBuyer(c, b, p)
      PROVE  CurrentInv'
  <2>1. UNCHANGED <<request, saved>>
    BY <1>1 DEF PickBuyer, accessVars, tables
  <2>2. UNCHANGED <<path, calm, faulted, mine, page, selected, shown, tasks>>
    BY <1>1 DEF PickBuyer, route, past
  <2> QED
    BY <2>1, <2>2, UnaskedCurrent
<1> QED
  BY <1>1, SwitchCurrent, OpenCurrent, ClickCurrent DEF Uses

LEMMA WorksCurrent ==
    ASSUME IInv, PagesInv, CurrentInv, IInv', Works
    PROVE  CurrentInv'
<1>1. ASSUME NEW i \in 1..Len(tasks), Continues(i) \/ \E r \in Requests : lost(i, r)
      PROVE  CurrentInv'
  BY <1>1, FetchCurrent, ArriveCurrent, StageCurrent, WriteAnsweredCurrent,
     FailCurrent DEF Continues
<1>2. ASSUME NEW r \in Requests,
             dropped(r) \/ (Serve(r) /\ UNCHANGED <<view, route, past>>)
      PROVE  CurrentInv'
  <2>1. UNCHANGED <<path, calm, faulted, mine, page, selected, shown, tasks>>
    BY <1>2 DEF dropped, view, route, past
  <2>2. CASE dropped(r)
    <3>1. /\ r \notin Waited /\ UNCHANGED saved
          /\ \A s \in Requests : s # r => request'[s] = request[s]
      BY <2>2 DEF dropped, Receive, tables, IInv, AccessTypeOK
    <3> QED
      BY <2>1, <3>1, OtherRequestCurrent
  <2>3. CASE Serve(r)
    BY <2>1, <2>3, ServeCurrent
  <2> QED
    BY <1>2, <2>2, <2>3
<1>3. DOMAIN tasks = 1..Len(tasks)
  BY TaskIs
<1> QED
  BY <1>1, <1>2, <1>3 DEF Works

LEMMA CurrentInit == Init => CurrentInv
<1> SUFFICES ASSUME Init PROVE CurrentInv
  OBVIOUS
<1>1. 1..Len(tasks) = {}
  BY DEF Init
<1>2. WritesSaved
  BY AccessAssumption DEF WritesSaved, Init, AccessInit
<1>3. PageConverges
  BY DEF PageConverges, Init
<1> QED
  BY <1>1, <1>2, <1>3 DEF CurrentInv

LEMMA DashboardInit == Init => DInv
BY PagesInit, CurrentInit DEF DInv

LEMMA DashboardStep == DInv /\ [Next]_vars => DInv'
<1> SUFFICES ASSUME DInv, [Next]_vars PROVE DInv'
  OBVIOUS
<1>1. IInv /\ PagesInv /\ CurrentInv
  BY DEF DInv
<1>2. IInv' /\ PagesInv'
  BY <1>1, PagesStep
<1>3. CASE UNCHANGED vars
  <2>1. UNCHANGED <<request, saved>>
    BY <1>3 DEF vars, accessVars, tables
  <2>2. UNCHANGED <<path, calm, faulted, mine, page, selected, shown, tasks>>
    BY <1>3 DEF vars, view, route, past
  <2>3. CurrentInv'
    BY <1>1, <1>2, <2>1, <2>2, UnaskedCurrent
  <2> QED
    BY <1>2, <2>3 DEF DInv
<1> QED
  BY <1>1, <1>2, <1>3, NavigatesCurrent, UsesCurrent, WorksCurrent, OthersCurrent
     DEF Next, DInv

THEOREM DashboardInductive == Spec => []DInv
BY DashboardInit, DashboardStep, PTL DEF Spec

\* When nothing is loaded any more, the page shows the selected workspace and
\* in it every write this browser made (handleSave, handleCreate, ... and the
\* effects that load a page), if the network was calm and no load failed.
THEOREM PageIsCurrentHolds == Spec => []PageIsCurrent
<1>1. ASSUME DInv PROVE PageIsCurrent
  <2> SUFFICES ASSUME calm, ~faulted, path = "protected", selected # NULL,
                      tasks = << >>, NEW op \in DOMAIN shown \ Unguarded
               PROVE  Current(op) /\ (op \in {ShownBy[write] : write \in page.writes}
                                          => shown[op].count >= mine[selected][op])
    BY DEF PageIsCurrent, Current
  <2>1. DOMAIN shown = OpsOf(page)
    BY <1>1 DEF DInv, PagesInv, PageTypes
  <2>2. Converges(op)
    BY <1>1, <2>1 DEF DInv, CurrentInv, PageConverges
  <2>3. Current(op)
    BY <2>2 DEF Converges
  <2>4. ASSUME op \in {ShownBy[write] : write \in page.writes}
        PROVE  shown[op].count >= mine[selected][op]
    <3>1. op \in Lists
      BY <1>1, <2>4, TaskIs, ShownIsList DEF DInv, PageInv
    <3>2. /\ mine[selected][op] <= shown[op].count
          /\ mine[selected][op] \in Nat /\ shown[op].count \in Nat
      BY <1>1, <2>1, <2>3, <2>4, <3>1, AccessAssumption
         DEF Current, DInv, PagesInv, PageTypes
    <3> QED
      BY <3>2
  <2> QED
    BY <2>3, <2>4
<1> QED
  BY <1>1, DashboardInductive, PTL
=============================================================================
