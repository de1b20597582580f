---------------------------- MODULE MCDashboard ----------------------------
(* One workspace pair, once with clients of the API and once with a browser. *)
EXTENDS Dashboard

CONSTANTS w1, w2, u1, u2, k1, c1, c2, b1, b2

MCOwner == (c1 :> w1 @@ b1 :> w1 @@ c2 :> w2 @@ b2 :> w2)

VARIABLE scenario
mcVars == <<vars, scenario>>

\* One page of each shape.
MCPages == {CampaignsPage, PhoneNumbersPage, BuyersPage, WebhooksPage,
            MembersPage, SettingsPage}
MCOps == {"addBuyer", "createBuyer", "createKey", "revokeKey", "removeMember"}

Saves == FoldSet(LAMBDA wl, n : n + saved[wl[1]][wl[2]], 0, Workspaces \X Lists)

MCInit ==
    /\ Init
    /\ scenario \in {"clients", "navigation"} \X {ProtectedPage}
                    \cup {"page"} \X MCPages
    /\ CASE scenario[1] = "clients" -> calm
         [] scenario[1] = "navigation" -> ~calm
         [] OTHER -> calm \/ scenario[2] = BuyersPage
    /\ IF scenario[1] = "clients"
       THEN /\ workspaces = Workspaces
            /\ role \in {[w \in Workspaces |-> [u \in Users |->
                             IF <<w, u>> \in {<<w1, u1>>, <<w2, u2>>}
                             THEN "OWNER" ELSE r]] : r \in {NULL, "VIEWER"}}
       ELSE /\ workspaces \in IF scenario[1] = "page" THEN {Workspaces}
                             ELSE {{}, {w1}}
            /\ \A w \in workspaces :
                  /\ role[w][u1] = IF scenario[1] = "page" /\ w = w2
                                   THEN "VIEWER" ELSE "OWNER"
                  /\ role[w][u2] = IF scenario[1] = "page" THEN NULL ELSE "OWNER"

\* While the user is sent round, the other owner of w1 removes the user, and the
\* database takes the user back.
Admits ==
    /\ scenario[1] = "navigation"
    /\ \/ /\ Saves = 0 /\ tasks = << >>
          /\ path # "protected" /\ role[w1][Visitor] # NULL /\ role[w1][u2] # NULL
          /\ jwtRequest(2, u2, w1, "removeMember", <<Visitor>>)
       \/ role[w1][Visitor] = NULL /\ MembershipChanges(w1, Visitor, "OWNER")
    /\ UNCHANGED <<view, route, past>>

\* A page is used in one visit, which a user who waits for it does not leave.
Browser ==
    \/ Login \/ ProtectedLayout \/ OnboardingPage
    \/ submitWorkspace \/ \E r \in Requests : workspaceCreated(r)
    \/ /\ scenario[1] = "navigation"
       /\ ~loading \/ selected = NULL
       /\ \/ SignOut
          \/ \E to \in {"toProtected", "toOnboarding"} : Visit(to)
          \/ OpenPage(ProtectedPage)
    \/ Admits
    \/ selected = NULL /\ scenario[1] = "page" /\ OpenPage(scenario[2])
    \/ scenario[1] = "page" /\ \E w \in Workspaces : SwitchWorkspace(w)
    \/ \E c \in Campaigns, b \in Buyers, p \in Priorities : PickBuyer(c, b, p)
    \/ Saves = 0 /\ (\A t \in ToSet(tasks) : ~t.writing) /\ \E op \in Writes : Click(op)
    \/ Works

\* The clients write twice in all; the first request slot is anybody's, the
\* second is w1's owner removing a member.
Clients ==
    /\ \/ /\ Saves < 2
          /\ \/ \E op \in MCOps, w \in Workspaces, says \in Says :
                   \/ \E u \in Users : jwtRequest(1, u, w, op, says)
                   \/ \E k \in Keys : keyRequest(1, k, w, op, says)
             \/ \E u \in Users : jwtRequest(2, u1, w1, "removeMember", <<u>>)
       \/ \E r \in Requests : Serve(r) \/ Receive(r)
       \/ \E as \in {"OWNER", "VIEWER"} : MembershipChanges(w1, u2, as)
    /\ UNCHANGED <<view, route, past>>

MCNext ==
    /\ \/ scenario[1] # "clients" /\ Browser
       \/ scenario[1] = "clients" /\ Clients
    /\ UNCHANGED scenario

MCSpec == MCInit /\ [][MCNext]_mcVars /\ Fairness
=============================================================================
