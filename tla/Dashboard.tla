---------------------------- MODULE Dashboard ----------------------------
(***************************************************************************)
(* The web application of one user: login and onboarding, and a page under *)
(* /protected that loads, writes and loads again through the API.          *)
(*                                                                         *)
(* A handler keeps the workspace of the render it was made in: an answer   *)
(* that comes after the workspace was switched is still shown.  Messages   *)
(* and form fields are left out.                                           *)
(***************************************************************************)
EXTENDS Access, Sequences, SequencesExt, FiniteSets

CONSTANTS
    Visitor,        \* the user of the browser
    MaxTasks,       \* asynchronous functions of the page that may be running
    MaxFailures     \* requests that fail on their way

ASSUME DashboardAssumption ==
    /\ Visitor \in Users
    /\ MaxTasks \in Nat \ {0, 1}   \* room for the loads of every page
    /\ MaxFailures \in Nat

VARIABLES
    session,     \* the Supabase session of the browser
    path,        \* the route it is on; "to..." while the server decides
    page,        \* the page of /protected
    selected,    \* ?workspace=
    shown,       \* per operation: whose answer the page shows, and which
    userRole,    \* the role the members and settings pages act on
    loading,     \* the page shows its loading text
    picked,      \* the campaign, buyer and priority of the modal
    tasks,       \* the page's running asynchronous functions, oldest first
    failures,    \* requests that failed on their way
    calm,        \* one request at a time, and nobody switches while writing
    faulted,     \* a load failed since the workspace was selected
    mine         \* per list: the last write this browser had answered

view == <<page, selected, shown, userRole, loading, picked, tasks>>
route == <<session, path>>
past == <<failures, calm, faulted, mine>>
vars == <<accessVars, view, route, past>>

-----------------------------------------------------------------------------
(* The pages: what their effects load (each load a sequence of sets of     *)
(* operations that are requested together), what is loaded again after a   *)
(* write, which writes a page offers, and how it treats its loading flag.  *)

Page(loads, again, writes, flag) ==
    [loads |-> loads, again |-> again, writes |-> writes, flag |-> flag]

CampaignsPage ==
    Page(<< <<{"listCampaigns", "listBuyers"}>> >>, <<{"listCampaigns"}>>,
         {"createCampaign", "addBuyer"}, "once")
PhoneNumbersPage ==
    Page(<< <<{"listNumbers"}>>, <<{"listCampaigns"}>> >>, <<{"listNumbers"}>>,
         {"provisionNumber", "assignPhoneNumber"}, "none")
BuyersPage ==
    Page(<< <<{"listBuyers"}>> >>, <<{"listBuyers"}>>, {"createBuyer"}, "once")
BillingPage == Page(<< <<{"getBillingState"}>> >>, << >>, {}, "once")
WebhooksPage ==
    Page(<< <<{"listWebhooks"}>> >>, <<{"listWebhooks"}>>,
         {"createWebhook", "deleteWebhook"}, "always")
ApiKeysPage ==
    Page(<< <<{"listKeys"}>> >>, <<{"listKeys"}>>,
         {"createKey", "revokeKey"}, "none")
BlockedCallersPage ==
    Page(<< <<{"listBlockedCallers"}>> >>, <<{"listBlockedCallers"}>>,
         {"blockCaller", "unblockCaller"}, "always")
MembersPage ==
    Page(<< <<{"getWorkspaces"}, {"getMembers"}>> >>,
         <<{"getWorkspaces"}, {"getMembers"}>>, {"removeMember"}, "effect")
\* The answer of updateSettings is shown itself.
SettingsPage ==
    Page(<< <<{"getWorkspaces"}, {"getWorkspace"}>> >>, << >>,
         {"updateSettings"}, "effect")
UsagePage == Page(<< <<{"getBillingState"}>> >>, << >>, {}, "effect")
ProtectedPage == Page(<< <<{"getMetrics"}>> >>, << >>, {}, "effect")
CallsPage == Page(<< <<{"getCalls"}>> >>, << >>, {}, "effect")
CallDetailPage == Page(<< <<{"getCallDetail"}>> >>, << >>, {}, "effect")
ReportingPage == Page(<< <<{"getMetrics"}>> >>, << >>, {}, "always")

Pages == {CampaignsPage, PhoneNumbersPage, BuyersPage, BillingPage,
          WebhooksPage, ApiKeysPage, BlockedCallersPage, MembersPage,
          SettingsPage, UsagePage, ProtectedPage, CallsPage, CallDetailPage,
          ReportingPage}

OpsOf(p) == UNION UNION {ToSet(load) : load \in ToSet(p.loads)}

\* A button is off while its handler runs; campaigns and buyers do not wait
\* for their refresh.
Busy == {"addBuyer", "provisionNumber", "assignPhoneNumber", "createWebhook",
         "createKey", "blockCaller", "updateSettings"}
Unawaited == {"addBuyer", "createCampaign", "createBuyer"}
\* Offered by userRole.
ForManagers == {"removeMember", "updateSettings"}
\* Not on the page while it shows its loading text.
HiddenByLoading == {"createCampaign", "addBuyer", "createBuyer",
                    "deleteWebhook", "removeMember", "updateSettings"}

-----------------------------------------------------------------------------
Empty == [ws |-> NULL, count |-> 0]
Blank(p) == [op \in OpsOf(p) |-> Empty]

\* A running asynchronous function: what it is for ("load" if an effect runs
\* it), whether it is still to write, the workspace of its closure, what it
\* names, the stages it has left, the requests it waits for and its answers.
Task(for, writing, w, says, todo) ==
    [for |-> for, writing |-> writing, ws |-> w, says |-> says, todo |-> todo,
     waits |-> {}, got |-> {}]

FreeRequests == {r \in Requests : request[r] = Free}
Waited == UNION {t.waits : t \in ToSet(tasks)}

\* The handler of op runs, its awaited refresh included.
Running(op) ==
    \E t \in ToSet(tasks) : t.for = op /\ (t.writing \/ op \notin Unawaited)

DashboardTypeOK ==
    /\ AccessTypeOK
    /\ session \in BOOLEAN
    /\ path \in {"login", "toProtected", "protected", "toOnboarding", "onboarding"}
    /\ page \in Pages
    /\ selected \in Workspaces \cup {NULL}
    /\ shown \in [OpsOf(page) -> [ws : Workspaces \cup {NULL}, count : 0..MaxSaves]]
    /\ userRole \in Role \cup {NULL}
    /\ loading \in BOOLEAN
    /\ picked \in {Nothing} \cup (Campaigns \X Buyers \X Priorities)
    /\ Len(tasks) <= MaxTasks
    /\ \A t \in ToSet(tasks) :
          /\ t.ws \in Workspaces \cup {NULL}
          /\ \A r \in t.waits : r \in Requests /\ request[r] # Free
    /\ failures \in 0..MaxFailures
    /\ calm \in BOOLEAN /\ faulted \in BOOLEAN
    /\ mine \in [Workspaces -> [Lists -> 0..MaxSaves]]

Init ==
    /\ AccessInit
    /\ session = FALSE /\ path = "login"
    /\ page = ProtectedPage /\ shown = Blank(ProtectedPage)
    /\ selected = NULL /\ userRole = NULL /\ loading = TRUE
    /\ picked = Nothing /\ tasks = << >>
    /\ failures = 0 /\ calm \in BOOLEAN /\ faulted = FALSE
    /\ mine = [w \in Workspaces |-> [l \in Lists |-> 0]]

-----------------------------------------------------------------------------
(* An effect, an asynchronous function, and its end.                       *)

LoadTasks(p, w) ==
    IF w = NULL THEN << >>
    ELSE [i \in DOMAIN p.loads |-> Task("load", FALSE, w, Nothing, p.loads[i])]

\* Mutant: the state of the page before stays.
Mount_KeepsShown(p, w) ==
    /\ page' = p /\ selected' = w
    /\ UNCHANGED <<shown, userRole, picked>>
    /\ loading' = (p.flag # "none")
    /\ tasks' = LoadTasks(p, w)
    /\ faulted' = FALSE

\* A page is mounted: useState's values, and the effect.
Mount(p, w) ==
    /\ page' = p /\ selected' = w
    /\ shown' = Blank(p) /\ userRole' = NULL /\ picked' = Nothing
    /\ loading' = (p.flag # "none")
    /\ tasks' = LoadTasks(p, w)
    /\ faulted' = FALSE

\* The effect runs again; what the page shows stays.
SwitchWorkspace(w) ==
    /\ path = "protected"
    /\ w \in workspaces \ {selected}
    /\ calm => \A t \in ToSet(tasks) : ~t.writing
    /\ Len(tasks) + Len(page.loads) <= MaxTasks
    /\ selected' = w
    /\ tasks' = tasks \o LoadTasks(page, w)
    /\ loading' = (loading \/ page.flag \in {"effect", "always"})
    /\ faulted' = FALSE
    /\ UNCHANGED <<accessVars, route, page, shown, userRole, picked, failures,
                   calm, mine>>

\* A link of the sidebar: without ?workspace=, some workspace of the user.
OpenPage(p) ==
    /\ path = "protected"
    /\ \E w \in workspaces :
          /\ selected # NULL => w = selected
          /\ Mount(p, w)
    /\ UNCHANGED <<accessVars, route, failures, calm, mine>>

\* openAddBuyerModal, and the modal's selects.
PickBuyer(c, b, p) ==
    /\ path = "protected" /\ page = CampaignsPage /\ ~loading
    /\ \/ Owner[c] = shown["listCampaigns"].ws
       \/ picked # Nothing /\ picked[1] = c
    /\ Owner[b] = shown["listBuyers"].ws
    /\ picked' = <<c, b, p>>
    /\ UNCHANGED <<accessVars, route, past, page, selected, shown, userRole,
                   loading, tasks>>

\* What the page lets a write name.
Named(op) ==
    CASE op = "addBuyer" -> {picked}
      [] op = "revokeKey" -> {<<k>> : k \in {l \in Keys :
                                  key[l].ws = shown["listKeys"].ws}}
      [] OTHER -> SaysOf(op)

\* handleCreate, handleAddBuyerSubmit, handleRemove, handleSave, ...
Click(op) ==
    /\ path = "protected" /\ selected # NULL
    /\ op \in page.writes
    /\ op \in HiddenByLoading => ~loading
    /\ op \in ForManagers => userRole \in Managers
    /\ op \in Busy => ~Running(op)
    /\ Len(tasks) < MaxTasks
    /\ \E says \in Named(op) \cap SaysOf(op) :
          tasks' = Append(tasks, Task(op, TRUE, selected, says, <<{op}>>))
    /\ UNCHANGED <<accessVars, route, past, page, selected, shown, userRole,
                   loading, picked>>

\* apiFetch: the requests of a stage leave together, once the session is read.
apiFetch(i) ==
    LET t == tasks[i]
        ops == Head(t.todo)
        slots == Injection(ops, FreeRequests)
        slot == CHOOSE f \in slots : TRUE
        Ask(op) == FromUser(Visitor, IF op \in Unguarded THEN NULL ELSE t.ws,
                            op, t.says)
    IN  /\ t.waits = {} /\ t.todo # << >>
        /\ calm => i = 1
        /\ slots # {}
        /\ request' = [r \in Requests |->
               IF \E op \in ops : slot[op] = r
               THEN Ask(CHOOSE op \in ops : slot[op] = r) ELSE request[r]]
        /\ tasks' = [tasks EXCEPT ![i] =
               [t EXCEPT !.todo = Tail(t.todo), !.waits = {slot[op] : op \in ops}]]
        /\ UNCHANGED <<tables, route, past, page, selected, shown, userRole,
                       loading, picked>>

\* The task goes on in its turn, if the network is calm.
Answered(i, r) ==
    /\ r \in tasks[i].waits
    /\ request[r].step = "answered"
    /\ calm => i = 1

Received(r) == request' = [request EXCEPT ![r] = Free]

\* Promise.all has another answer to wait for.
answerArrives(i, r) ==
    LET t == tasks[i]
        answer == [op |-> request[r].op, reply |-> request[r].reply]
    IN  /\ Answered(i, r) /\ request[r].reply.ok
        /\ t.waits # {r}
        /\ Received(r)
        /\ tasks' = [tasks EXCEPT ![i] =
               [t EXCEPT !.waits = t.waits \ {r}, !.got = t.got \cup {answer}]]
        /\ UNCHANGED <<tables, route, past, page, selected, shown, userRole,
                       loading, picked>>

\* The answers of a stage are shown, whatever workspace is selected by now.
stageShown(i, r) ==
    LET t == tasks[i]
        got == t.got \cup {[op |-> request[r].op, reply |-> request[r].reply]}
        Of(op) == CHOOSE g \in got : g.op = op
        last == t.todo = << >>
        rest == RemoveAt(tasks, i)
    IN  /\ Answered(i, r) /\ request[r].reply.ok
        /\ t.waits = {r} /\ ~t.writing
        /\ Received(r)
        /\ shown' = [op \in DOMAIN shown |->
               IF \E g \in got : g.op = op
               THEN [ws |-> t.ws, count |-> Of(op).reply.count] ELSE shown[op]]
        /\ userRole' = IF request[r].op = "getWorkspaces"
                       THEN request[r].reply.roles[t.ws] ELSE userRole
        /\ loading' = (loading /\ ~last)
        /\ tasks' = IF last THEN rest
                    ELSE Append(rest, [t EXCEPT !.waits = {}, !.got = {}])
        /\ UNCHANGED <<tables, route, past, page, selected, picked>>

\* Mutant: the page is not loaded again after a write.
writeAnswered_NoRefresh(i, r) ==
    LET t == tasks[i]
    IN  /\ Answered(i, r) /\ request[r].reply.ok
        /\ t.writing
        /\ Received(r)
        /\ mine' = [mine EXCEPT ![t.ws][ShownBy[t.for]] = request[r].reply.count]
        /\ tasks' = RemoveAt(tasks, i)
        /\ UNCHANGED <<tables, route, failures, calm, faulted, page, selected,
                       shown, userRole, loading, picked>>

\* The write is done: the form is cleared and the page loaded again, in the
\* workspace of the write; updateSettings shows its own answer.
writeAnswered(i, r) ==
    LET t == tasks[i]
        count == request[r].reply.count
        rest == RemoveAt(tasks, i)
    IN  /\ Answered(i, r) /\ request[r].reply.ok
        /\ t.writing
        /\ Received(r)
        /\ mine' = [mine EXCEPT ![t.ws][ShownBy[t.for]] = IF count > @ THEN count ELSE @]
        /\ picked' = IF t.for = "addBuyer" THEN Nothing ELSE picked
        /\ shown' = IF t.for = "updateSettings"
                    THEN [shown EXCEPT !["getWorkspace"] =
                             [ws |-> t.ws, count |-> count]]
                    ELSE shown
        /\ tasks' = IF page.again = << >> THEN rest
                    ELSE Append(rest, Task(t.for, FALSE, t.ws, Nothing, page.again))
        /\ loading' = (loading \/ page.flag = "always")
        /\ UNCHANGED <<tables, route, failures, calm, faulted, page, selected,
                       userRole>>

\* Mutant: the flag is reset after the answer, not in a finally.
Fails_NoFinally(i) ==
    /\ tasks' = RemoveAt(tasks, i)
    /\ faulted' = (faulted \/ ~tasks[i].writing)
    /\ UNCHANGED <<loading, route, calm, mine, page, selected, shown, userRole,
                   picked>>

\* The catch and the finally of a load; a failed write only says so.
Fails(i) ==
    /\ tasks' = RemoveAt(tasks, i)
    /\ loading' = (loading /\ tasks[i].writing)
    /\ faulted' = (faulted \/ ~tasks[i].writing)
    /\ UNCHANGED <<route, calm, mine, page, selected, shown, userRole, picked>>

\* !res.ok
refused(i, r) ==
    /\ Answered(i, r) /\ ~request[r].reply.ok
    /\ Received(r)
    /\ Fails(i)
    /\ UNCHANGED <<tables, failures>>

\* fetch rejects; the API may still serve the request.
lost(i, r) ==
    /\ r \in tasks[i].waits
    /\ failures < MaxFailures
    /\ failures' = failures + 1
    /\ calm => i = 1
    /\ Fails(i)
    /\ UNCHANGED accessVars

Continues(i) ==
    \/ apiFetch(i)
    \/ \E r \in Requests :
          \/ answerArrives(i, r) \/ stageShown(i, r) \/ writeAnswered(i, r)
          \/ refused(i, r)

\* Nobody waits for the answer any more.
dropped(r) ==
    /\ r \notin Waited
    /\ Receive(r)
    /\ UNCHANGED <<view, route, past>>

-----------------------------------------------------------------------------
(* Login, onboarding and the layout of /protected.                         *)

\* login, and the code exchange of /auth/callback.
Login ==
    /\ path = "login"
    /\ session' = TRUE /\ path' = "toProtected"
    /\ UNCHANGED <<accessVars, view, past>>

Redirect(to) ==
    /\ path' = to
    /\ UNCHANGED <<accessVars, view, past, session>>

MyWorkspaces == {w \in Workspaces : role[w][Visitor] # NULL}

\* The page is mounted without ?workspace=.
Enter ==
    /\ path' = "protected"
    /\ Mount(ProtectedPage, NULL)
    /\ UNCHANGED <<accessVars, session, failures, calm, mine>>

\* GET /workspaces fails: an empty list goes on.
fetchFails(to) ==
    /\ failures < MaxFailures
    /\ failures' = failures + 1
    /\ path' = to
    /\ UNCHANGED <<accessVars, view, session, calm, faulted, mine>>

\* The middleware and the layout.
ProtectedLayout ==
    /\ path = "toProtected"
    /\ IF ~session THEN Redirect("login")
       ELSE \/ fetchFails("toOnboarding")
            \/ IF MyWorkspaces = {} THEN Redirect("toOnboarding") ELSE Enter

\* Mutant: the answer is not looked at.
OnboardingPage_Always ==
    /\ path = "toOnboarding"
    /\ IF ~session THEN Redirect("login")
       ELSE \/ fetchFails("onboarding")
            \/ Redirect("toProtected")

OnboardingPage ==
    /\ path = "toOnboarding"
    /\ IF ~session THEN Redirect("login")
       ELSE \/ fetchFails("onboarding")
            \/ IF MyWorkspaces # {} THEN Redirect("toProtected")
               ELSE Redirect("onboarding")

\* OnboardingClient.handleSubmit, while its button is not off.
submitWorkspace ==
    /\ path = "onboarding"
    /\ \A r \in Requests : request[r].op # "createWorkspace"
    /\ \E r \in Requests : jwtRequest(r, Visitor, NULL, "createWorkspace", Nothing)
    /\ UNCHANGED <<view, route, past>>

\* The user is sent to /protected, or told of the failure.
workspaceCreated(r) ==
    /\ path = "onboarding"
    /\ request[r].op = "createWorkspace"
    /\ path' = IF request[r].reply.ok THEN "toProtected" ELSE path
    /\ Receive(r)
    /\ UNCHANGED <<view, session, past>>

\* A URL is entered, or the page loaded again.
Visit(to) ==
    /\ path \in {"login", "onboarding", "protected"}
    /\ path' = to
    /\ tasks' = << >>
    /\ UNCHANGED <<accessVars, session, past, page, selected, shown, userRole,
                   loading, picked>>

SignOut ==
    /\ path = "protected"
    /\ session' = FALSE /\ path' = "login" /\ tasks' = << >>
    /\ UNCHANGED <<accessVars, past, page, selected, shown, userRole, loading,
                   picked>>

-----------------------------------------------------------------------------
Navigates ==
    \/ Login \/ ProtectedLayout \/ OnboardingPage \/ SignOut
    \/ submitWorkspace \/ \E r \in Requests : workspaceCreated(r)
    \/ Visit("toProtected") \/ Visit("toOnboarding")

Uses ==
    \/ \E w \in Workspaces : SwitchWorkspace(w)
    \/ \E p \in Pages : OpenPage(p)
    \/ \E c \in Campaigns, b \in Buyers, p \in Priorities : PickBuyer(c, b, p)
    \/ \E op \in Writes : Click(op)

Works ==
    \/ \E i \in DOMAIN tasks :
          Continues(i) \/ \E r \in Requests : lost(i, r)
    \/ \E r \in Requests :
          dropped(r) \/ (Serve(r) /\ UNCHANGED <<view, route, past>>)

\* Other users and clients of the public API.
Others ==
    /\ \/ \E r \in Requests : ClientRequests(r)
       \/ \E w \in Workspaces, u \in Users, as \in Role : MembershipChanges(w, u, as)
    /\ UNCHANGED <<view, route, past>>

Next == Navigates \/ Uses \/ Works \/ Others

\* The servers answer, and the browser goes on with the oldest task.
Fairness ==
    /\ WF_vars(ProtectedLayout) /\ WF_vars(OnboardingPage)
    /\ WF_vars(tasks # << >> /\ Continues(1))
    /\ \A r \in Requests :
          /\ WF_vars(Serve(r) /\ UNCHANGED <<view, route, past>>)
          /\ WF_vars(dropped(r)) /\ WF_vars(workspaceCreated(r))

Spec == Init /\ [][Next]_vars /\ Fairness

-----------------------------------------------------------------------------
(* What the pages promise.                                                 *)

\* When the page has loaded, it shows the selected workspace, and in it every
\* write this browser made: provided no load failed, requests were served one
\* after the other and nobody switched the workspace during a write.  The
\* application has nothing that would make it hold without them.
PageIsCurrent ==
    (/\ calm /\ ~faulted
     /\ path = "protected" /\ selected # NULL /\ tasks = << >>) =>
        \A op \in DOMAIN shown \ Unguarded :
            /\ shown[op].ws = selected
            /\ op \in {ShownBy[write] : write \in page.writes} =>
                   shown[op].count >= mine[selected][op]

\* A page that has a workspace to load stops saying that it loads, whatever
\* fails (the finally of each load).
LoadingEnds == (path = "protected" /\ selected # NULL /\ loading) ~> ~loading

\* Layout and onboarding ask for the same answer one after the other, and it may
\* change between them: once the user is in a workspace or in none for good, they
\* stop sending each other round.
RedirectsEnd ==
    (<>[](MyWorkspaces = {}) \/ <>[](MyWorkspaces # {})) =>
        ((path \in {"toProtected", "toOnboarding"}) ~>
            (path \in {"login", "protected", "onboarding"}))
=============================================================================
