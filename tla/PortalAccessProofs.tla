------------------------- MODULE PortalAccessProofs -------------------------
(***************************************************************************)
(* The safety properties of PortalAccess, for any number of tabs, users,   *)
(* admins and sessions.                                                    *)
(***************************************************************************)
EXTENDS PortalAccess, TLAPS

\* An operations page has, and is sent, only what was fetched for an admin.
FetchedForAdmins ==
    \A t \in Tabs :
        /\ render[t].state = "served" =>
               IF render[t].to = "operations" THEN render[t].for \in Admins
               ELSE render[t].for = Nobody
        /\ route[t] = "operations" /\ content[t].state # "none" => content[t].for \in Admins

\* The sign-in page waits for no other page and fetches nothing, and a sign-in is
\* sent from nowhere else. What is shown is shown to somebody.
PagesAgree ==
    \A t \in Tabs :
        /\ route[t] = "signin" => render[t] = None /\ content[t].state = "none"
        /\ signing[t] # None => route[t] = "signin"
        /\ content[t].state = "shown" => ShellOpen(t)

\* What a tab waits for, of which nothing has befallen it, is about the present
\* session: the answer to who am I, the user of the shell, the pages fetched and
\* rendered since, the session whose cookie a sign-in brought, and a shell closed by a sign-out.
Attached(t) == leaving[t] = None /\ (me[t] # None \/ shell[t].user # Nobody)

AnswersAreCurrent(t) ==
    /\ me[t].state = "sent" => me[t].cookie = cookie
    /\ me[t].state = "served" => me[t].user = CurrentUser(cookie)
    /\ me[t] = None /\ leaving[t] = None /\ signing[t].state # "stored"
          => shell[t].user = CurrentUser(cookie)
    /\ signing[t] # None => me[t] = None /\ leaving[t] = None
    /\ signing[t].state = "stored" => CurrentUser(cookie) = signing[t].user
    /\ leaving[t] # None => shell[t].user = Nobody /\ me[t] = None
    /\ Attached(t) =>
        /\ content[t].state # "none" => content[t].for = CurrentUser(cookie)
        /\ render[t].state = "served" /\ render[t].for # Nobody => render[t].for = CurrentUser(cookie)

NothingBefell == \A t \in Tabs : ~excused[t] => AnswersAreCurrent(t)

IInv == TypeOK /\ FetchedForAdmins /\ PagesAgree /\ NothingBefell

-----------------------------------------------------------------------------
LEMMA InitEstablishes == Init => IInv
<1> SUFFICES ASSUME Init PROVE IInv
  OBVIOUS
<1> USE AccessConstants DEF AccessConstants, Init, None, NoContent, Someone, Cookies
<1>1. TypeOK
  BY DEF TypeOK, Routes, SessionIds
<1>2. FetchedForAdmins /\ PagesAgree
  BY DEF FetchedForAdmins, PagesAgree
<1>3. NothingBefell
  BY DEF NothingBefell, AnswersAreCurrent, Attached
<1> QED
  BY <1>1, <1>2, <1>3 DEF IInv

\* The user of a cookie is somebody or Nobody.
LEMMA CurrentUserType ==
    ASSUME TypeOK, NEW c \in Cookies
    PROVE  CurrentUser(c) \in Someone
BY AccessConstants DEF TypeOK, CurrentUser, Someone, Cookies, SessionIds, AccessConstants

\* Who am I is asked with a cookie.
LEMMA SentCookies ==
    ASSUME TypeOK, NEW t \in Tabs
    PROVE  me[t].state = "sent" => me[t].cookie \in Cookies
<1>1. me[t] \in {None} \cup [state : {"sent"}, cookie : Cookies]
               \cup [state : {"served"}, user : Someone] \cup {[state |-> "broken"]}
  BY DEF TypeOK
<1> QED
  BY <1>1 DEF None

\* An operations page is for admins; whoever is turned away gets a page of nobody.
LEMMA RenderedType ==
    ASSUME TypeOK, NEW c \in Cookies
    PROVE  /\ Rendered(c) \in [state : {"served"}, to : Routes, for : Someone]
           /\ Rendered(c).to = "operations" => Rendered(c).for \in Admins
           /\ Rendered(c).to # "operations" => Rendered(c).for = Nobody
           /\ Rendered(c).for # Nobody => Rendered(c).for = CurrentUser(c)
BY CurrentUserType DEF Rendered, RequirePilotAdmin, Routes, Someone

LEMMA OpenWorkspaceStep ==
    ASSUME IInv, NEW t \in Tabs, OpenWorkspace(t)
    PROVE  IInv'
<1> USE DEF IInv, OpenWorkspace, calls
<1>1. TypeOK'
  BY DEF TypeOK, Routes, NoContent, None, Someone
<1>2. FetchedForAdmins'
  BY DEF TypeOK, FetchedForAdmins, NoContent, None
<1>3. PagesAgree'
  BY DEF TypeOK, PagesAgree, ShellOpen, NoContent, None
<1>4. NothingBefell'
  BY DEF TypeOK, NothingBefell, AnswersAreCurrent, Attached, CurrentUser, NoContent, None
<1> QED
  BY <1>1, <1>2, <1>3, <1>4

LEMMA OpenOperationsStep ==
    ASSUME IInv, NEW t \in Tabs, OpenOperations(t)
    PROVE  IInv'
<1> USE DEF IInv, calls
<1>1. /\ Rendered(cookie) \in [state : {"served"}, to : Routes, for : Someone]
      /\ Rendered(cookie).to = "operations" => Rendered(cookie).for \in Admins
      /\ Rendered(cookie).to # "operations" => Rendered(cookie).for = Nobody
      /\ Rendered(cookie).for # Nobody => Rendered(cookie).for = CurrentUser(cookie)
  BY RenderedType DEF TypeOK
<1>2. /\ render' = [render EXCEPT ![t] = Rendered(cookie)]
      /\ ShellOpen(t) /\ route[t] # "signin"
      /\ UNCHANGED <<sessions, issued, cookie, shell, route, content, calls, excused>>
  BY DEF OpenOperations
<1>3. TypeOK'
  BY <1>1, <1>2 DEF TypeOK
<1>4. FetchedForAdmins'
  BY <1>1, <1>2 DEF TypeOK, FetchedForAdmins
<1>5. PagesAgree'
  BY <1>2 DEF TypeOK, PagesAgree, ShellOpen
<1>6. NothingBefell'
  BY <1>1, <1>2 DEF TypeOK, NothingBefell, AnswersAreCurrent, Attached, CurrentUser
<1> QED
  BY <1>3, <1>4, <1>5, <1>6

LEMMA OpenPaletteStep ==
    ASSUME IInv, NEW t \in Tabs, OpenPalette(t)
    PROVE  IInv'
<1> USE DEF IInv, calls
<1>1. /\ Rendered(cookie) \in [state : {"served"}, to : Routes, for : Someone]
      /\ Rendered(cookie).to = "operations" => Rendered(cookie).for \in Admins
      /\ Rendered(cookie).to # "operations" => Rendered(cookie).for = Nobody
      /\ Rendered(cookie).for # Nobody => Rendered(cookie).for = CurrentUser(cookie)
  BY RenderedType DEF TypeOK
<1>2. /\ render' = [render EXCEPT ![t] = Rendered(cookie)]
      /\ ShellOpen(t) /\ route[t] # "signin"
      /\ UNCHANGED <<sessions, issued, cookie, shell, route, content, calls, excused>>
  BY DEF OpenPalette
<1>3. TypeOK'
  BY <1>1, <1>2 DEF TypeOK
<1>4. FetchedForAdmins'
  BY <1>1, <1>2 DEF TypeOK, FetchedForAdmins
<1>5. PagesAgree'
  BY <1>2 DEF TypeOK, PagesAgree, ShellOpen
<1>6. NothingBefell'
  BY <1>1, <1>2 DEF TypeOK, NothingBefell, AnswersAreCurrent, Attached, CurrentUser
<1> QED
  BY <1>3, <1>4, <1>5, <1>6

LEMMA ShowRenderedStep ==
    ASSUME IInv, NEW t \in Tabs, ShowRendered(t)
    PROVE  IInv'
<1> USE DEF IInv, ShowRendered, calls
<1>1. TypeOK'
  BY DEF TypeOK, None, NoContent, Someone
<1>2. FetchedForAdmins'
  <2>1. /\ render'[t] = None /\ route'[t] = render[t].to
        /\ content'[t] = IF render[t].for = Nobody THEN NoContent
                         ELSE [state |-> "fetched", for |-> render[t].for]
    BY DEF TypeOK
  <2>2. \A u \in Tabs \ {t} :
            render'[u] = render[u] /\ route'[u] = route[u] /\ content'[u] = content[u]
    BY DEF TypeOK
  <2>3. render[t].to = "operations" => render[t].for \in Admins
    BY DEF FetchedForAdmins
  <2> QED
    BY <2>1, <2>2, <2>3 DEF FetchedForAdmins, None, NoContent
<1>3. PagesAgree'
  <2>1. render[t].to = "signin" => render[t].for = Nobody
    BY DEF FetchedForAdmins
  <2> QED
    BY <2>1 DEF TypeOK, PagesAgree, ShellOpen, None, NoContent
<1>4. NothingBefell'
  BY DEF TypeOK, NothingBefell, AnswersAreCurrent, Attached, CurrentUser, None, NoContent
<1> QED
  BY <1>1, <1>2, <1>3, <1>4

LEMMA FetchWorkspaceStep ==
    ASSUME IInv, NEW t \in Tabs, FetchWorkspace(t)
    PROVE  IInv'
<1> USE DEF IInv, FetchWorkspace, calls
<1>0. CurrentUser(cookie) \in Someone
  BY CurrentUserType DEF TypeOK
<1>1. TypeOK'
  BY <1>0 DEF TypeOK
<1>2. FetchedForAdmins'
  BY <1>0 DEF TypeOK, FetchedForAdmins, NoContent
<1>3. PagesAgree'
  BY <1>0 DEF TypeOK, PagesAgree, ShellOpen, NoContent
<1>4. NothingBefell'
  BY <1>0 DEF TypeOK, NothingBefell, AnswersAreCurrent, Attached, CurrentUser, NoContent
<1> QED
  BY <1>1, <1>2, <1>3, <1>4

LEMMA ShowContentStep ==
    ASSUME IInv, NEW t \in Tabs, ShowContent(t)
    PROVE  IInv'
<1> USE DEF calls
<1>1. /\ content' = [content EXCEPT ![t] = [state |-> "shown", for |-> content[t].for]]
      /\ content[t].state = "fetched" /\ content[t].for \in Someone
      /\ ShellOpen(t)
      /\ UNCHANGED <<sessions, issued, cookie, shell, route, render, calls, excused>>
  <2>1. content \in [Tabs -> [state : {"none", "fetched", "shown"}, for : Someone]]
    BY DEF IInv, TypeOK
  <2>2. content' = [content EXCEPT ![t] = [@ EXCEPT !.state = "shown"]]
    BY DEF ShowContent
  <2>3. [content[t] EXCEPT !.state = "shown"] = [state |-> "shown", for |-> content[t].for]
    BY <2>1
  <2> QED
    BY <2>1, <2>2, <2>3 DEF ShowContent
<1>2. TypeOK'
  BY <1>1 DEF IInv, TypeOK
<1>3. FetchedForAdmins'
  BY <1>1 DEF IInv, TypeOK, FetchedForAdmins
<1>4. PagesAgree'
  BY <1>1 DEF IInv, TypeOK, PagesAgree, ShellOpen
<1>5. NothingBefell'
  BY <1>1 DEF IInv, TypeOK, NothingBefell, AnswersAreCurrent, Attached, CurrentUser
<1> QED
  BY <1>2, <1>3, <1>4, <1>5 DEF IInv

LEMMA RedirectStep ==
    ASSUME IInv, NEW t \in Tabs, Redirect(t)
    PROVE  IInv'
<1> USE DEF IInv, Redirect, calls
<1>1. TypeOK'
  BY DEF TypeOK, Routes, NoContent, None, Someone
<1>2. FetchedForAdmins'
  BY DEF TypeOK, FetchedForAdmins, NoContent, None
<1>3. PagesAgree'
  BY DEF TypeOK, PagesAgree, ShellOpen, NoContent, None
<1>4. NothingBefell'
  BY DEF TypeOK, NothingBefell, AnswersAreCurrent, Attached, CurrentUser, NoContent, None
<1> QED
  BY <1>1, <1>2, <1>3, <1>4

LEMMA ServeMeStep ==
    ASSUME IInv, NEW t \in Tabs, ServeMe(t)
    PROVE  IInv'
<1> USE DEF IInv, ServeMe, calls
<1>0. CurrentUser(me[t].cookie) \in Someone
  <2>1. TypeOK /\ me[t].state = "sent"
    OBVIOUS
  <2> HIDE DEF IInv, ServeMe
  <2> QED
    BY <2>1, SentCookies, CurrentUserType
<1>1. TypeOK'
  BY <1>0 DEF TypeOK, None
<1>2. FetchedForAdmins'
  BY <1>0 DEF TypeOK, FetchedForAdmins
<1>3. PagesAgree'
  BY <1>0 DEF TypeOK, PagesAgree, ShellOpen
<1>4. NothingBefell'
  BY <1>0 DEF TypeOK, NothingBefell, AnswersAreCurrent, Attached, CurrentUser, None
<1> QED
  BY <1>1, <1>2, <1>3, <1>4

LEMMA LoseMeStep ==
    ASSUME IInv, NEW t \in Tabs, LoseMe(t)
    PROVE  IInv'
<1> USE DEF IInv, LoseMe, calls
<1>1. TypeOK'
  BY DEF TypeOK, None, Someone
<1>2. FetchedForAdmins'
  BY DEF TypeOK, FetchedForAdmins
<1>3. PagesAgree'
  BY DEF TypeOK, PagesAgree, ShellOpen
<1>4. NothingBefell'
  BY DEF TypeOK, NothingBefell, AnswersAreCurrent, Attached, CurrentUser, None
<1> QED
  BY <1>1, <1>2, <1>3, <1>4

LEMMA BreakMeStep ==
    ASSUME IInv, NEW t \in Tabs, BreakMe(t)
    PROVE  IInv'
<1> USE DEF IInv, BreakMe, calls
<1>1. TypeOK'
  BY DEF TypeOK, None
<1>2. FetchedForAdmins'
  BY DEF TypeOK, FetchedForAdmins
<1>3. PagesAgree'
  BY DEF TypeOK, PagesAgree, ShellOpen
<1>4. NothingBefell'
  BY DEF TypeOK, NothingBefell, AnswersAreCurrent, Attached, CurrentUser, None
<1> QED
  BY <1>1, <1>2, <1>3, <1>4

LEMMA MeAnsweredStep ==
    ASSUME IInv, NEW t \in Tabs, MeAnswered(t)
    PROVE  IInv'
<1> USE DEF IInv, MeAnswered, calls
<1>1. TypeOK'
  <2>1. me[t].user \in Someone
    <3>1. me[t] \in {None} \cup [state : {"sent"}, cookie : Cookies]
                   \cup [state : {"served"}, user : Someone] \cup {[state |-> "broken"]}
      BY DEF TypeOK
    <3>2. me[t].state = "served"
      OBVIOUS
    <3> HIDE DEF IInv, MeAnswered
    <3> QED
      BY <3>1, <3>2 DEF None
  <2>2. KeptFor(t, me[t].user) \in [state : {"none", "fetched", "shown"}, for : Someone]
    <3>1. NoContent \in [state : {"none", "fetched", "shown"}, for : Someone]
      BY DEF NoContent, Someone
    <3>2. content[t] \in [state : {"none", "fetched", "shown"}, for : Someone]
      BY DEF TypeOK
    <3> HIDE DEF IInv, MeAnswered
    <3> QED
      BY <3>1, <3>2 DEF KeptFor
  <2> HIDE DEF KeptFor
  <2>3. /\ shell' \in [Tabs -> [user : Someone, loading : BOOLEAN]]
        /\ content' \in [Tabs -> [state : {"none", "fetched", "shown"}, for : Someone]]
    BY <2>1, <2>2 DEF TypeOK
  <2> QED
    BY <2>3 DEF TypeOK, None
<1>2. FetchedForAdmins'
  BY DEF TypeOK, FetchedForAdmins, KeptFor, NoContent
<1>3. PagesAgree'
  BY DEF TypeOK, PagesAgree, ShellOpen, KeptFor, NoContent
<1>4. NothingBefell'
  BY DEF TypeOK, NothingBefell, AnswersAreCurrent, Attached, CurrentUser, None, KeptFor, NoContent
<1> QED
  BY <1>1, <1>2, <1>3, <1>4

LEMMA SignInStep ==
    ASSUME IInv, NEW t \in Tabs, NEW user \in Users, SignIn(t, user)
    PROVE  IInv'
<1> USE DEF IInv, SignIn, calls
<1>1. TypeOK'
  BY DEF TypeOK, None
<1>2. FetchedForAdmins'
  BY DEF TypeOK, FetchedForAdmins
<1>3. PagesAgree'
  BY DEF TypeOK, PagesAgree, ShellOpen, None
<1>4. ASSUME NEW u \in Tabs, ~excused'[u] PROVE AnswersAreCurrent(u)'
  <2>1. ~excused[u] /\ AnswersAreCurrent(u)
    BY <1>4 DEF TypeOK, NothingBefell
  <2>2. CASE u = t
    <3>1. /\ signing'[t].state = "sent"
          /\ me[t] = None /\ leaving[t] = None /\ signing[t] = None
      BY <1>4, <2>2 DEF TypeOK
    <3> QED
      BY <2>1, <2>2, <3>1 DEF AnswersAreCurrent, Attached, CurrentUser, None
  <2>3. CASE u # t
    <3>1. signing'[u] = signing[u]
      BY <2>3 DEF TypeOK
    <3> QED
      BY <2>1, <3>1 DEF AnswersAreCurrent, Attached, CurrentUser
  <2> QED
    BY <2>2, <2>3
<1> QED
  BY <1>1, <1>2, <1>3, <1>4 DEF NothingBefell

LEMMA SignInFailedStep ==
    ASSUME IInv, NEW t \in Tabs, SignInFailed(t)
    PROVE  IInv'
<1> USE DEF IInv, SignInFailed, calls
<1>1. TypeOK'
  BY DEF TypeOK, None
<1>2. FetchedForAdmins'
  BY DEF TypeOK, FetchedForAdmins
<1>3. PagesAgree'
  BY DEF TypeOK, PagesAgree, ShellOpen, None
<1>4. ASSUME NEW u \in Tabs, ~excused'[u] PROVE AnswersAreCurrent(u)'
  <2>1. ~excused[u] /\ AnswersAreCurrent(u)
    BY <1>4 DEF TypeOK, NothingBefell
  <2>2. CASE u = t
    <3>1. signing'[t] = None /\ signing[t].state # "stored"
      BY <1>4, <2>2 DEF TypeOK
    <3> QED
      BY <2>1, <2>2, <3>1 DEF AnswersAreCurrent, Attached, CurrentUser, None
  <2>3. CASE u # t
    <3>1. signing'[u] = signing[u]
      BY <2>3 DEF TypeOK
    <3> QED
      BY <2>1, <3>1 DEF AnswersAreCurrent, Attached, CurrentUser
  <2> QED
    BY <2>2, <2>3
<1> QED
  BY <1>1, <1>2, <1>3, <1>4 DEF NothingBefell

LEMMA HeadArrivesStep ==
    ASSUME IInv, NEW t \in Tabs, HeadArrives(t)
    PROVE  IInv'
<1> USE DEF IInv, calls
<1>0. issued + 1 \in SessionIds /\ issued + 1 # 0
  BY AccessConstants DEF HeadArrives, CreateSession, TypeOK, Cookies, SessionIds, AccessConstants
<1>1. signing[t] \in [state : {"sent"}, user : Users] /\ route[t] = "signin"
  BY DEF HeadArrives, TypeOK, None, PagesAgree
<1>2. /\ issued' = issued + 1 /\ cookie' = issued + 1
      /\ sessions' = [sessions EXCEPT ![issued + 1] = signing[t].user]
      /\ signing' = [signing EXCEPT ![t] = [state |-> "stored", user |-> signing[t].user]]
      /\ excused' = [u \in Tabs |-> excused[u] \/ u # t]
      /\ UNCHANGED <<shell, route, content, render, me, leaving>>
  <2>1. [signing[t] EXCEPT !.state = "stored"] = [state |-> "stored", user |-> signing[t].user]
    BY <1>1
  <2> QED
    BY <2>1 DEF HeadArrives, CreateSession
<1>3. TypeOK'
  BY <1>0, <1>1, <1>2 DEF TypeOK, Cookies, SessionIds, Someone
<1>4. FetchedForAdmins'
  BY <1>2 DEF FetchedForAdmins
<1>5. PagesAgree'
  BY <1>1, <1>2 DEF TypeOK, PagesAgree, ShellOpen, None
<1>6. ASSUME ~excused'[t] PROVE AnswersAreCurrent(t)'
  <2>0. signing[t] # None /\ signing[t].state = "sent"
    BY <1>1 DEF None
  <2>1. me[t] = None /\ leaving[t] = None /\ render[t] = None /\ content[t].state = "none"
    <3>1. AnswersAreCurrent(t)
      BY <1>2, <1>6 DEF TypeOK, NothingBefell
    <3>2. me[t] = None /\ leaving[t] = None
      BY <2>0, <3>1 DEF AnswersAreCurrent
    <3> QED
      BY <1>1, <3>2 DEF PagesAgree
  <2>2. signing'[t].state = "stored" /\ signing'[t].user = signing[t].user
    BY <1>2 DEF TypeOK
  <2>3. CurrentUser(cookie)' = signing[t].user
    BY <1>0, <1>2 DEF TypeOK, CurrentUser
  <2> QED
    BY <1>2, <2>1, <2>2, <2>3 DEF AnswersAreCurrent, None
<1>7. \A u \in Tabs \ {t} : excused'[u]
  BY <1>2 DEF TypeOK
<1> QED
  BY <1>3, <1>4, <1>5, <1>6, <1>7 DEF NothingBefell

LEMMA SignedInStep ==
    ASSUME IInv, NEW t \in Tabs, SignedIn(t)
    PROVE  IInv'
<1> USE DEF IInv, SignedIn
<1>1. signing[t].user \in Users /\ route[t] = "signin" /\ signing[t] # None
  BY DEF TypeOK, None, PagesAgree
<1>2. shell' \in [Tabs -> [user : Someone, loading : BOOLEAN]] /\ shell'[t].user = signing[t].user
  <2> DEFINE r == [shell[t] EXCEPT !.user = signing[t].user]
  <2>0. shell \in [Tabs -> [user : Someone, loading : BOOLEAN]]
    BY DEF TypeOK
  <2>1. r \in [user : Someone, loading : BOOLEAN] /\ r.user = signing[t].user
    BY <1>1, <2>0 DEF Someone
  <2>2. shell' = [shell EXCEPT ![t] = r]
    OBVIOUS
  <2> HIDE DEF r, IInv
  <2> QED
    BY <2>0, <2>1, <2>2
<1>3. TypeOK'
  BY <1>2 DEF TypeOK, None, NoContent, Routes, Someone
<1>4. FetchedForAdmins'
  BY DEF TypeOK, FetchedForAdmins, NoContent
<1>5. PagesAgree'
  BY DEF TypeOK, PagesAgree, ShellOpen, None, NoContent
<1>6. ASSUME ~excused'[t] PROVE AnswersAreCurrent(t)'
  <2>1. /\ me[t] = None /\ leaving[t] = None /\ render[t] = None
        /\ CurrentUser(cookie) = signing[t].user
    BY <1>1, <1>6 DEF TypeOK, NothingBefell, AnswersAreCurrent, PagesAgree, None
  <2>2. /\ content'[t].state = "none" /\ signing'[t] = None /\ render'[t] = None
        /\ me'[t] = None /\ leaving'[t] = None
    BY <2>1 DEF TypeOK, NoContent
  <2>3. shell'[t].user = CurrentUser(cookie)'
    BY <1>2, <2>1 DEF CurrentUser
  <2> QED
    BY <2>2, <2>3 DEF AnswersAreCurrent, None
<1>7. ASSUME NEW u \in Tabs \ {t}, ~excused'[u] PROVE AnswersAreCurrent(u)'
  <2>1. /\ shell'[u] = shell[u] /\ content'[u] = content[u] /\ signing'[u] = signing[u]
        /\ ~excused[u] /\ AnswersAreCurrent(u)
    BY <1>7 DEF TypeOK, NothingBefell
  <2> QED
    BY <2>1 DEF AnswersAreCurrent, Attached, CurrentUser
<1> QED
  BY <1>3, <1>4, <1>5, <1>6, <1>7 DEF NothingBefell

LEMMA SignOutStep ==
    ASSUME IInv, NEW t \in Tabs, SignOut(t)
    PROVE  IInv'
<1> USE DEF IInv, SignOut, calls
<1>1. shell' \in [Tabs -> [user : Someone, loading : BOOLEAN]] /\ shell'[t].user = Nobody
  <2> DEFINE r == [shell[t] EXCEPT !.user = Nobody]
  <2>0. shell \in [Tabs -> [user : Someone, loading : BOOLEAN]]
    BY DEF TypeOK
  <2>1. r \in [user : Someone, loading : BOOLEAN] /\ r.user = Nobody
    BY <2>0 DEF Someone
  <2>2. shell' = [shell EXCEPT ![t] = r]
    OBVIOUS
  <2> HIDE DEF r, IInv
  <2> QED
    BY <2>0, <2>1, <2>2
<1>2. \A u \in Tabs \ {t} : shell'[u] = shell[u]
  BY DEF TypeOK
<1>3. TypeOK'
  BY <1>1 DEF TypeOK, None, NoContent, Someone, Cookies
<1>4. FetchedForAdmins'
  BY DEF TypeOK, FetchedForAdmins, NoContent
<1>5. PagesAgree'
  BY DEF TypeOK, PagesAgree, ShellOpen, None, NoContent
<1>6. ASSUME ~excused'[t] PROVE AnswersAreCurrent(t)'
  <2>1. me[t] = None /\ signing[t] = None /\ ~excused[t]
    BY <1>6 DEF TypeOK, PagesAgree
  <2>2. me'[t] = None /\ signing'[t] = None /\ leaving'[t] # None
    BY <2>1 DEF TypeOK, None
  <2> QED
    BY <1>1, <2>2 DEF AnswersAreCurrent, Attached, None
<1>7. ASSUME NEW u \in Tabs \ {t}, ~excused'[u] PROVE AnswersAreCurrent(u)'
  BY <1>2, <1>7 DEF TypeOK, NothingBefell, AnswersAreCurrent, Attached, CurrentUser
<1> QED
  BY <1>3, <1>4, <1>5, <1>6, <1>7 DEF NothingBefell

LEMMA ServeSignOutStep ==
    ASSUME IInv, NEW t \in Tabs, ServeSignOut(t)
    PROVE  IInv'
<1> USE DEF IInv, ServeSignOut
<1>1. leaving[t] # None /\ leaving[t].cookie \in Cookies
  BY DEF TypeOK, None
<1>2. leaving[t].cookie # 0 => leaving[t].cookie \in SessionIds
  BY <1>1, AccessConstants DEF Cookies, SessionIds, AccessConstants
<1>3. TypeOK'
  BY <1>2 DEF TypeOK, None, Someone
<1>4. FetchedForAdmins'
  BY DEF TypeOK, FetchedForAdmins
<1>5. PagesAgree'
  BY DEF TypeOK, PagesAgree, ShellOpen
<1>6. ASSUME ~excused'[t] PROVE AnswersAreCurrent(t)'
  <2>1. me[t] = None /\ signing[t] = None /\ shell[t].user = Nobody
    BY <1>1, <1>6 DEF TypeOK, NothingBefell, AnswersAreCurrent
  <2>2. leaving'[t] # None
    BY DEF TypeOK, None
  <2> QED
    BY <2>1, <2>2 DEF AnswersAreCurrent, Attached, None
<1>7. \A u \in Tabs \ {t} : excused'[u]
  BY DEF TypeOK
<1> QED
  BY <1>3, <1>4, <1>5, <1>6, <1>7 DEF NothingBefell

LEMMA SignedOutStep ==
    ASSUME IInv, NEW t \in Tabs, SignedOut(t)
    PROVE  IInv'
<1> USE DEF IInv, SignedOut
<1>1. leaving[t] # None
  BY DEF None
<1>2. TypeOK'
  BY AccessConstants DEF TypeOK, None, Cookies, AccessConstants
<1>3. FetchedForAdmins'
  BY DEF TypeOK, FetchedForAdmins
<1>4. PagesAgree'
  BY DEF TypeOK, PagesAgree, ShellOpen
<1>5. ASSUME ~excused'[t] PROVE AnswersAreCurrent(t)'
  <2>1. me[t] = None /\ signing[t] = None /\ shell[t].user = Nobody
    BY <1>1, <1>5 DEF TypeOK, NothingBefell, AnswersAreCurrent
  <2>2. leaving'[t] = None
    BY DEF TypeOK
  <2> QED
    BY <2>1, <2>2 DEF AnswersAreCurrent, Attached, CurrentUser, None
<1>6. \A u \in Tabs \ {t} : excused'[u]
  BY DEF TypeOK
<1> QED
  BY <1>2, <1>3, <1>4, <1>5, <1>6 DEF NothingBefell

LEMMA LoseSignOutStep ==
    ASSUME IInv, NEW t \in Tabs, LoseSignOut(t)
    PROVE  IInv'
<1> USE DEF IInv, LoseSignOut, calls
<1>1. TypeOK'
  BY DEF TypeOK, None
<1>2. FetchedForAdmins'
  BY DEF TypeOK, FetchedForAdmins
<1>3. PagesAgree'
  BY DEF TypeOK, PagesAgree, ShellOpen
<1>4. NothingBefell'
  BY DEF TypeOK, NothingBefell, AnswersAreCurrent, Attached, CurrentUser, None
<1> QED
  BY <1>1, <1>2, <1>3, <1>4

LEMMA ExpireStep ==
    ASSUME IInv, NEW s \in SessionIds, Expire(s)
    PROVE  IInv'
<1> USE DEF IInv, Expire, calls
<1>1. TypeOK'
  BY DEF TypeOK, Someone
<1>2. FetchedForAdmins'
  BY DEF TypeOK, FetchedForAdmins
<1>3. PagesAgree'
  BY DEF TypeOK, PagesAgree, ShellOpen
<1>4. NothingBefell'
  BY DEF TypeOK, NothingBefell, AnswersAreCurrent, Attached, CurrentUser
<1> QED
  BY <1>1, <1>2, <1>3, <1>4

LEMMA LoadDocumentStep ==
    ASSUME IInv, NEW t \in Tabs, NEW answer \in Documents, LoadDocument(t, answer)
    PROVE  IInv'
<1>0. 0..issued \subseteq Cookies
  BY AccessConstants DEF IInv, TypeOK, Cookies, AccessConstants
<1>1. /\ answer.to \in Routes /\ answer.for \in Someone
      /\ IF answer.to = "operations" THEN answer.for \in Admins ELSE answer.for = Nobody
  <2>1. CASE answer \in {[state |-> "served", to |-> r, for |-> Nobody] :
                          r \in {"signin", "workspace"}}
    BY <2>1 DEF Routes, Someone
  <2>2. ASSUME NEW asked \in 0..issued, answer = Rendered(asked)
        PROVE  /\ answer.to \in Routes /\ answer.for \in Someone
               /\ IF answer.to = "operations" THEN answer.for \in Admins ELSE answer.for = Nobody
    BY <1>0, <2>2, RenderedType DEF IInv
  <2> QED
    BY <2>1, <2>2 DEF Documents
<1>2. /\ shell' = [shell EXCEPT ![t] = [user |-> Nobody, loading |-> TRUE]]
      /\ me' = [me EXCEPT ![t] = [state |-> "sent", cookie |-> cookie]]
      /\ signing' = [signing EXCEPT ![t] = None]
      /\ leaving' = [leaving EXCEPT ![t] = None]
      /\ route' = [route EXCEPT ![t] = answer.to]
      /\ content' = [content EXCEPT ![t] =
             IF answer.for = Nobody THEN NoContent
             ELSE [state |-> "fetched", for |-> answer.for]]
      /\ render' = [render EXCEPT ![t] = None]
      /\ excused' = [excused EXCEPT ![t] = answer.for \notin {Nobody, CurrentUser(cookie)}]
      /\ UNCHANGED <<sessions, issued, cookie>>
  BY DEF LoadDocument
<1> USE DEF IInv
<1>3. TypeOK'
  BY <1>1, <1>2 DEF TypeOK, NoContent, None, Someone, Cookies
<1>4. FetchedForAdmins'
  BY <1>1, <1>2 DEF TypeOK, FetchedForAdmins, None, NoContent
<1>5. PagesAgree'
  BY <1>1, <1>2 DEF TypeOK, PagesAgree, ShellOpen, None, NoContent
<1>6. NothingBefell'
  <2>1. CurrentUser(cookie)' = CurrentUser(cookie)
    BY <1>2 DEF CurrentUser
  <2>2. ASSUME ~excused'[t] PROVE AnswersAreCurrent(t)'
    <3>1. answer.for \in {Nobody, CurrentUser(cookie)}
      BY <1>2, <2>2 DEF TypeOK
    <3>2. /\ me'[t] = [state |-> "sent", cookie |-> cookie] /\ signing'[t] = None
          /\ leaving'[t] = None /\ render'[t] = None
          /\ content'[t] = IF answer.for = Nobody THEN NoContent
                           ELSE [state |-> "fetched", for |-> answer.for]
      BY <1>2 DEF TypeOK
    <3> QED
      BY <1>2, <2>1, <3>1, <3>2 DEF AnswersAreCurrent, None, NoContent
  <2>3. ASSUME NEW u \in Tabs \ {t}, ~excused'[u] PROVE AnswersAreCurrent(u)'
    <3>1. AnswersAreCurrent(u)
      BY <1>2, <2>3 DEF TypeOK, NothingBefell
    <3>2. /\ shell'[u] = shell[u] /\ me'[u] = me[u] /\ signing'[u] = signing[u]
          /\ leaving'[u] = leaving[u] /\ content'[u] = content[u] /\ render'[u] = render[u]
          /\ route'[u] = route[u]
      BY <1>2 DEF TypeOK
    <3> QED
      BY <1>2, <2>1, <3>1, <3>2 DEF AnswersAreCurrent, Attached, CurrentUser
  <2> QED
    BY <2>2, <2>3 DEF NothingBefell
<1> QED
  BY <1>3, <1>4, <1>5, <1>6

-----------------------------------------------------------------------------
LEMMA StepPreserves == IInv /\ [Next]_vars => IInv'
<1> SUFFICES ASSUME IInv, [Next]_vars PROVE IInv'
  OBVIOUS
<1>1. CASE UNCHANGED vars
  BY <1>1 DEF vars, calls, IInv, TypeOK, FetchedForAdmins, PagesAgree, ShellOpen,
              NothingBefell, AnswersAreCurrent, Attached, CurrentUser
<1>2. ASSUME NEW t \in Tabs, PageStep(t) PROVE IInv'
  BY <1>2, LoadDocumentStep, OpenWorkspaceStep, OpenOperationsStep, OpenPaletteStep,
     ShowRenderedStep, FetchWorkspaceStep, ShowContentStep, RedirectStep
     DEF PageStep
<1>3. ASSUME NEW t \in Tabs, CallStep(t) PROVE IInv'
  BY <1>3, ServeMeStep, LoseMeStep, BreakMeStep, MeAnsweredStep, SignInStep, HeadArrivesStep,
     SignInFailedStep, SignedInStep, SignOutStep, ServeSignOutStep, SignedOutStep, LoseSignOutStep
     DEF CallStep
<1> QED
  BY <1>1, <1>2, <1>3, ExpireStep DEF Next

\* The inductive invariant holds however the tabs and their calls interleave.
THEOREM Invariance == Spec => []IInv
BY InitEstablishes, StepPreserves, PTL DEF Spec

\* Tabs, calls and sessions stay of their types.
THEOREM TypeCorrect == Spec => []TypeOK
<1>1. IInv => TypeOK
  BY DEF IInv
<1> QED
  BY <1>1, Invariance, PTL

\* For any number of tabs and users, an operations page shows only what was fetched
\* for a pilot_admin.
THEOREM OperationsAreForAdmins == Spec => []OperationsForAdmins
<1>1. IInv => OperationsForAdmins
  BY DEF IInv, FetchedForAdmins, OperationsForAdmins
<1> QED
  BY <1>1, Invariance, PTL

\* Once a tab's calls are answered the shell and the page are about the session of
\* the browser, unless something befell the tab that its provider cannot know of.
THEOREM ShellsTellTheTruth == Spec => []ShellTellsTheTruth
<1>1. IInv => ShellTellsTheTruth
  <2> SUFFICES ASSUME IInv, NEW t \in Tabs, Quiet(t), ~excused[t]
               PROVE  /\ shell[t].user = CurrentUser(cookie)
                      /\ content[t].state = "shown" => content[t].for = shell[t].user
    BY DEF ShellTellsTheTruth
  <2>1. shell[t].user = CurrentUser(cookie)
    BY DEF IInv, NothingBefell, AnswersAreCurrent, Quiet, None
  <2>2. content[t].state = "shown" => shell[t].user # Nobody
    BY DEF IInv, PagesAgree, ShellOpen
  <2> QED
    BY <2>1, <2>2 DEF IInv, NothingBefell, AnswersAreCurrent, Attached, Quiet
<1> QED
  BY <1>1, Invariance, PTL
=============================================================================
