---------------------------- MODULE PortalAccess ----------------------------
(***************************************************************************)
(* Who is signed in, and what the tabs of a browser show: AuthProvider,    *)
(* the sign-in page, AppShell, and the guards of the portal's server, over *)
(* the sessions of the pilot service.                                      *)
(*                                                                         *)
(* The session cookie belongs to the browser and is shared by its tabs;    *)
(* each tab has a provider of its own, which asks the service once, when   *)
(* the document is loaded, who is signed in. The calls of a tab are sent,  *)
(* served and answered in separate steps. Pages are of three kinds: the    *)
(* sign-in page, the customer's pages, which fetch in the browser, and the *)
(* operations pages, which the portal's server renders behind guards.      *)
(*                                                                         *)
(* excused is bookkeeping: since a tab's document was asked for, something *)
(* befell it that its provider cannot know of or takes amiss.              *)
(***************************************************************************)
EXTENDS Naturals

CONSTANTS Tabs, Users,
          Admins,       \* the users whose role is pilot_admin
          Nobody,
          MaxSessions   \* bound: sessions ever created

ASSUME AccessConstants ==
    Admins \subseteq Users /\ Nobody \notin Users /\ MaxSessions \in Nat

VARIABLES sessions,   \* the user of each session that is neither revoked nor expired
          issued,     \* how many were created
          cookie,     \* the browser's session, 0 for none
          shell,      \* AuthProvider: its user, and whether it is loading
          route,      \* the page of a tab
          content,    \* what the page has fetched, and for whom
          render,     \* the operations page a tab is waiting for
          me, signing, leaving,  \* a tab's calls: who am I, sign in, sign out
          excused

calls == <<me, signing, leaving>>
vars == <<sessions, issued, cookie, shell, route, content, render, calls, excused>>

SessionIds == 1..MaxSessions
Routes == {"signin", "workspace", "operations"}
Someone == Users \cup {Nobody}
Cookies == 0..MaxSessions

None == [state |-> "none"]
NoContent == [state |-> "none", for |-> Nobody]

TypeOK ==
    /\ sessions \in [SessionIds -> Someone]
    /\ issued \in Cookies /\ cookie \in Cookies
    /\ shell \in [Tabs -> [user : Someone, loading : BOOLEAN]]
    /\ route \in [Tabs -> Routes]
    /\ content \in [Tabs -> [state : {"none", "fetched", "shown"}, for : Someone]]
    /\ render \in [Tabs -> {None} \cup [state : {"served"}, to : Routes, for : Someone]]
    /\ me \in [Tabs -> {None} \cup [state : {"sent"}, cookie : Cookies]
                       \cup [state : {"served"}, user : Someone]
                       \cup {[state |-> "broken"]}]
    /\ signing \in [Tabs -> {None} \cup [state : {"sent", "stored"}, user : Users]]
    /\ leaving \in [Tabs -> {None} \cup [state : {"sent"}, cookie : Cookies]
                            \cup {[state |-> "served"]}]
    /\ excused \in [Tabs -> BOOLEAN]

-----------------------------------------------------------------------------
\* pilotCurrentUser: the user of a session, Nobody without one.
CurrentUser(c) == IF c = 0 THEN Nobody ELSE sessions[c]

\* The pages a role finds in the navigation.
VisibleNavigation(user) ==
    {"workspace"} \cup IF user \in Admins THEN {"operations"} ELSE {}

\* AppShell renders its page, and with it the page's calls, only for a user.
ShellOpen(t) == ~shell[t].loading /\ shell[t].user # Nobody

\* Variant of RequirePilotAdmin: any user will do.
RequirePilotUser(user) ==
    IF user = Nobody THEN [state |-> "served", to |-> "signin", for |-> Nobody]
    ELSE [state |-> "served", to |-> "operations", for |-> user]

\* What a request for an operations page is answered with: the guards of the
\* layout and of every call of the page.
RequirePilotAdmin(user) ==
    IF user = Nobody THEN [state |-> "served", to |-> "signin", for |-> Nobody]
    ELSE IF user \notin Admins THEN [state |-> "served", to |-> "workspace", for |-> Nobody]
    ELSE [state |-> "served", to |-> "operations", for |-> user]

Rendered(c) == RequirePilotAdmin(CurrentUser(c))

Init ==
    /\ sessions = [s \in SessionIds |-> Nobody]
    /\ issued = 0 /\ cookie = 0
    /\ shell = [t \in Tabs |-> [user |-> Nobody, loading |-> TRUE]]
    /\ route = [t \in Tabs |-> "signin"]
    /\ content = [t \in Tabs |-> NoContent]
    /\ render = [t \in Tabs |-> None]
    /\ me = [t \in Tabs |-> [state |-> "sent", cookie |-> 0]]
    /\ signing = [t \in Tabs |-> None]
    /\ leaving = [t \in Tabs |-> None]
    /\ excused = [t \in Tabs |-> FALSE]

-----------------------------------------------------------------------------
(***************************************************************************)
(* Documents and pages.                                                    *)
(***************************************************************************)
\* What the portal's server answers a document with. An operations page may have
\* been asked for with a cookie that was replaced before the document arrived.
Documents ==
    {[state |-> "served", to |-> r, for |-> Nobody] : r \in {"signin", "workspace"}}
        \cup {Rendered(asked) : asked \in 0..issued}

\* A page is loaded from scratch: the calls of the document before it are given up.
\* The provider asks who is signed in with the present cookie. A sign-in given up
\* before its answer makes at most a session that no cookie names; for a sign-out
\* given up and served later, see Expire.
LoadDocument(t, answer) ==
    /\ shell' = [shell EXCEPT ![t] = [user |-> Nobody, loading |-> TRUE]]
    /\ me' = [me EXCEPT ![t] = [state |-> "sent", cookie |-> cookie]]
    /\ signing' = [signing EXCEPT ![t] = None]
    /\ leaving' = [leaving EXCEPT ![t] = None]
    /\ route' = [route EXCEPT ![t] = answer.to]
    /\ content' = [content EXCEPT ![t] =
           IF answer.for = Nobody THEN NoContent
           ELSE [state |-> "fetched", for |-> answer.for]]
    /\ render' = [render EXCEPT ![t] = None]
    /\ excused' = [excused EXCEPT ![t] = answer.for \notin {Nobody, CurrentUser(cookie)}]
    /\ UNCHANGED <<sessions, issued, cookie>>

\* A link of the navigation. The customer's pages are there at once.
OpenWorkspace(t) ==
    /\ ShellOpen(t) /\ route[t] # "signin"
    /\ route' = [route EXCEPT ![t] = "workspace"]
    /\ content' = [content EXCEPT ![t] = NoContent]
    /\ render' = [render EXCEPT ![t] = None]
    /\ UNCHANGED <<sessions, issued, cookie, shell, calls, excused>>

\* Operations pages are asked of the portal's server, which answers at once; the
\* answer arrives later, whatever happened meanwhile.
OpenOperations(t) ==
    /\ ShellOpen(t) /\ route[t] # "signin"
    /\ "operations" \in VisibleNavigation(shell[t].user)
    /\ render[t] = None
    /\ render' = [render EXCEPT ![t] = Rendered(cookie)]
    /\ UNCHANGED <<sessions, issued, cookie, shell, route, content, calls, excused>>

\* The command palette is mounted beside the pages, not in AppShell: its entries
\* lead to operations pages whatever the user's role. For an admin they do what the
\* links do. (It opens without a user as well; the page is then given up, or leads
\* back to the sign-in page.)
OpenPalette(t) ==
    /\ ShellOpen(t) /\ route[t] # "signin"
    /\ "operations" \notin VisibleNavigation(shell[t].user)
    /\ render[t] = None
    /\ render' = [render EXCEPT ![t] = Rendered(cookie)]
    /\ UNCHANGED <<sessions, issued, cookie, shell, route, content, calls, excused>>

ShowRendered(t) ==
    /\ render[t].state = "served"
    /\ route' = [route EXCEPT ![t] = render[t].to]
    /\ content' = [content EXCEPT ![t] =
           IF render[t].for = Nobody THEN NoContent
           ELSE [state |-> "fetched", for |-> render[t].for]]
    /\ render' = [render EXCEPT ![t] = None]
    /\ UNCHANGED <<sessions, issued, cookie, shell, calls, excused>>

\* A customer's page, once it is mounted, fetches with the cookie of the moment;
\* without a user the fetch fails and the page shows the error.
FetchWorkspace(t) ==
    /\ ShellOpen(t) /\ route[t] = "workspace" /\ content[t] = NoContent
    /\ content' = [content EXCEPT ![t] = [state |-> "fetched", for |-> CurrentUser(cookie)]]
    /\ UNCHANGED <<sessions, issued, cookie, shell, route, render, calls, excused>>

ShowContent(t) ==
    /\ ShellOpen(t) /\ content[t].state = "fetched"
    /\ content' = [content EXCEPT ![t].state = "shown"]
    /\ UNCHANGED <<sessions, issued, cookie, shell, route, render, calls, excused>>

\* AppShell's effect: a product page without a user gives way to the sign-in page.
Redirect(t) ==
    /\ route[t] # "signin" /\ ~shell[t].loading /\ shell[t].user = Nobody
    /\ route' = [route EXCEPT ![t] = "signin"]
    /\ content' = [content EXCEPT ![t] = NoContent]
    /\ render' = [render EXCEPT ![t] = None]
    /\ UNCHANGED <<sessions, issued, cookie, shell, calls, excused>>

\* What becomes of a page's content when the provider's user changes: without a
\* user the page is unmounted.
KeptFor(t, user) == IF user = Nobody THEN NoContent ELSE content[t]

-----------------------------------------------------------------------------
(***************************************************************************)
(* Who am I: fetchMe.                                                      *)
(***************************************************************************)
ServeMe(t) ==
    /\ me[t].state = "sent"
    /\ me' = [me EXCEPT ![t] = [state |-> "served", user |-> CurrentUser(me[t].cookie)]]
    /\ UNCHANGED <<sessions, issued, cookie, shell, route, content, render, signing, leaving, excused>>

\* Variant of LoseMe: the error is not caught.
LoseMeUncaught(t) ==
    /\ me[t].state = "sent"
    /\ me' = [me EXCEPT ![t] = [state |-> "failed"]]
    /\ excused' = [excused EXCEPT ![t] = TRUE]
    /\ UNCHANGED <<sessions, issued, cookie, shell, route, content, render, signing, leaving>>

\* A lost call is taken for Nobody.
LoseMe(t) ==
    /\ me[t].state = "sent"
    /\ me' = [me EXCEPT ![t] = [state |-> "served", user |-> Nobody]]
    /\ excused' = [excused EXCEPT ![t] = TRUE]
    /\ UNCHANGED <<sessions, issued, cookie, shell, route, content, render, signing, leaving>>

\* The answer breaks off after its head: fetchMe returns the reading of the body,
\* which fails outside its try, and the provider goes on loading.
BreakMe(t) ==
    /\ me[t].state = "sent"
    /\ me' = [me EXCEPT ![t] = [state |-> "broken"]]
    /\ excused' = [excused EXCEPT ![t] = TRUE]
    /\ UNCHANGED <<sessions, issued, cookie, shell, route, content, render, signing, leaving>>

\* Variant of MeAnswered: without a user the provider goes on loading.
MeAnsweredLoading(t) ==
    /\ me[t].state = "served"
    /\ shell' = [shell EXCEPT ![t] = [user |-> me[t].user, loading |-> me[t].user = Nobody]]
    /\ content' = [content EXCEPT ![t] = KeptFor(t, me[t].user)]
    /\ me' = [me EXCEPT ![t] = None]
    /\ UNCHANGED <<sessions, issued, cookie, route, render, signing, leaving, excused>>

\* The answer is taken whatever happened since the document was loaded.
MeAnswered(t) ==
    /\ me[t].state = "served"
    /\ shell' = [shell EXCEPT ![t] = [user |-> me[t].user, loading |-> FALSE]]
    /\ content' = [content EXCEPT ![t] = KeptFor(t, me[t].user)]
    /\ me' = [me EXCEPT ![t] = None]
    /\ UNCHANGED <<sessions, issued, cookie, route, render, signing, leaving, excused>>

(***************************************************************************)
(* Signing in.                                                             *)
(***************************************************************************)
\* The button is disabled while a sign-in is under way. Signing in while the
\* provider still waits for fetchMe lets that answer overtake this one's.
SignIn(t, user) ==
    /\ route[t] = "signin" /\ signing[t] = None
    /\ signing' = [signing EXCEPT ![t] = [state |-> "sent", user |-> user]]
    /\ excused' = [excused EXCEPT ![t] = @ \/ me[t] # None \/ leaving[t] # None]
    /\ UNCHANGED <<sessions, issued, cookie, shell, route, content, render, me, leaving>>

\* signIn of the pilot service, the credentials being right.
CreateSession(user) ==
    /\ issued < MaxSessions
    /\ issued' = issued + 1
    /\ sessions' = [sessions EXCEPT ![issued + 1] = user]

\* The head of the answer arrives: the browser stores the cookie, for every tab. The
\* session is created before that, when nobody can name it yet.
HeadArrives(t) ==
    /\ signing[t].state = "sent"
    /\ CreateSession(signing[t].user)
    /\ cookie' = issued + 1
    /\ signing' = [signing EXCEPT ![t].state = "stored"]
    /\ excused' = [u \in Tabs |-> excused[u] \/ u # t]
    /\ UNCHANGED <<shell, route, content, render, me, leaving>>

\* Wrong credentials, a lost call, or an answer that breaks off: the page shows the
\* error. When the head has arrived by then, the browser is signed in all the same;
\* before that, there is at most a session that no cookie names.
SignInFailed(t) ==
    /\ signing[t] # None
    /\ signing' = [signing EXCEPT ![t] = None]
    /\ excused' = [excused EXCEPT ![t] = @ \/ signing[t].state = "stored"]
    /\ UNCHANGED <<sessions, issued, cookie, shell, route, content, render, me, leaving>>

\* Variant of SignedIn: the provider is not told.
SignedInUntold(t) ==
    /\ signing[t].state = "stored"
    /\ route' = [route EXCEPT ![t] = "workspace"]
    /\ content' = [content EXCEPT ![t] = NoContent]
    /\ signing' = [signing EXCEPT ![t] = None]
    /\ UNCHANGED <<sessions, issued, cookie, shell, render, me, leaving, excused>>

\* The body names the user, and this tab moves on to its matters.
SignedIn(t) ==
    /\ signing[t].state = "stored"
    /\ shell' = [shell EXCEPT ![t].user = signing[t].user]
    /\ route' = [route EXCEPT ![t] = "workspace"]
    /\ content' = [content EXCEPT ![t] = NoContent]
    /\ signing' = [signing EXCEPT ![t] = None]
    /\ UNCHANGED <<sessions, issued, cookie, render, me, leaving, excused>>

(***************************************************************************)
(* Signing out. The provider does not wait for the call.                   *)
(***************************************************************************)
SignOut(t) ==
    /\ ShellOpen(t) /\ route[t] # "signin" /\ leaving[t] = None
    /\ shell' = [shell EXCEPT ![t].user = Nobody]
    /\ content' = [content EXCEPT ![t] = NoContent]
    /\ leaving' = [leaving EXCEPT ![t] = [state |-> "sent", cookie |-> cookie]]
    /\ excused' = [excused EXCEPT ![t] = @ \/ me[t] # None]
    /\ UNCHANGED <<sessions, issued, cookie, route, render, me, signing>>

ServeSignOut(t) ==
    /\ leaving[t].state = "sent"
    /\ sessions' = IF leaving[t].cookie = 0 THEN sessions
                   ELSE [sessions EXCEPT ![leaving[t].cookie] = Nobody]
    /\ leaving' = [leaving EXCEPT ![t] = [state |-> "served"]]
    /\ excused' = [u \in Tabs |-> excused[u] \/ u # t]
    /\ UNCHANGED <<issued, cookie, shell, route, content, render, me, signing>>

\* The answer deletes the cookie, whichever session it is by now.
SignedOut(t) ==
    /\ leaving[t].state = "served"
    /\ cookie' = 0
    /\ leaving' = [leaving EXCEPT ![t] = None]
    /\ excused' = [u \in Tabs |-> excused[u] \/ u # t]
    /\ UNCHANGED <<sessions, issued, shell, route, content, render, me, signing>>

\* The call or its answer is lost, and the error is dropped.
LoseSignOut(t) ==
    /\ leaving[t] # None
    /\ leaving' = [leaving EXCEPT ![t] = None]
    /\ excused' = [excused EXCEPT ![t] = TRUE]
    /\ UNCHANGED <<sessions, issued, cookie, shell, route, content, render, me, signing>>

\* A session ends without a tab's doing: a day is over, the user is no longer active,
\* or a sign-out is served whose document was given up for another.
Expire(s) ==
    /\ sessions[s] # Nobody
    /\ sessions' = [sessions EXCEPT ![s] = Nobody]
    /\ excused' = [t \in Tabs |-> TRUE]
    /\ UNCHANGED <<issued, cookie, shell, route, content, render, calls>>

-----------------------------------------------------------------------------
PageStep(t) ==
    \/ \E answer \in Documents : LoadDocument(t, answer)
    \/ OpenWorkspace(t)
    \/ OpenOperations(t) \/ OpenPalette(t)
    \/ ShowRendered(t)
    \/ FetchWorkspace(t) \/ ShowContent(t)
    \/ Redirect(t)

CallStep(t) ==
    \/ ServeMe(t) \/ LoseMe(t) \/ BreakMe(t) \/ MeAnswered(t)
    \/ \E user \in Users : SignIn(t, user)
    \/ HeadArrives(t) \/ SignInFailed(t) \/ SignedIn(t)
    \/ SignOut(t) \/ ServeSignOut(t) \/ SignedOut(t) \/ LoseSignOut(t)

Next ==
    \/ \E t \in Tabs : PageStep(t) \/ CallStep(t)
    \/ \E s \in SessionIds : Expire(s)

Spec == Init /\ [][Next]_vars

\* Who am I is answered one way or the other, and the answer taken.
AskingStep(t) == ServeMe(t) \/ LoseMe(t) \/ BreakMe(t) \/ MeAnswered(t)

\* The page goes on by itself: at any moment by one of these steps.
SettlingStep(t) == Redirect(t) \/ FetchWorkspace(t) \/ ShowContent(t)

Fairness ==
    \A t \in Tabs :
        WF_vars(AskingStep(t)) /\ WF_vars(ShowRendered(t)) /\ WF_vars(SettlingStep(t))

FairSpec == Spec /\ Fairness
-----------------------------------------------------------------------------
\* An operations page shows only what was fetched for a pilot_admin, though the
\* layout's guard is not asked again between two of them.
OperationsForAdmins ==
    \A t \in Tabs :
        route[t] = "operations" /\ content[t].state = "shown" => content[t].for \in Admins

Quiet(t) == me[t] = None /\ signing[t] = None /\ leaving[t] = None

\* Once a tab's calls are answered, the shell names the user of the browser's
\* session and the page shows that user's data, unless since its document was asked
\* for a session ended by itself or from another tab, another tab signed in, a call
\* was lost or its answer broke off, or the user did not wait for an answer before
\* signing in or out.
ShellTellsTheTruth ==
    \A t \in Tabs :
        Quiet(t) /\ ~excused[t] =>
            /\ shell[t].user = CurrentUser(cookie)
            /\ content[t].state = "shown" => content[t].for = shell[t].user

\* A product page comes to show something, or gives way to the sign-in page, unless
\* the user never stops loading pages, or the answer to who am I broke off: then the
\* shell stays shut, even after a sign-in, until the document is loaded again.
TabsSettle ==
    \A t \in Tabs :
        \/ []<>(route[t] = "signin" \/ content[t].state = "shown")
        \/ []<><<OpenWorkspace(t) \/ OpenPalette(t)>>_vars
        \/ []<>(me[t].state = "sent")
        \/ <>[](me[t].state = "broken" /\ shell[t].loading)
=============================================================================
