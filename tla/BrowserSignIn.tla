---------------------------- MODULE BrowserSignIn ----------------------------
(***************************************************************************)
(* Who the web pages say is signed in.  The tabs of a browser share the    *)
(* cookie of the access token; each keeps the user it shows in a context,  *)
(* which it fills from the answers to /auth/me: one it asks for when the   *)
(* page loads, and one after each sign-in.  Answers take their time, and   *)
(* tell whose cookie went with the request.                                *)
(***************************************************************************)
CONSTANTS People, Tabs

\* A user is not one of the words that stand for none.
ASSUME BrowserAssumption == {"nobody", "no"} \cap People = {}

VARIABLES cookie,   \* whose access token the browser holds
          founded,  \* the deployment has its first user
          tab,      \* each tab, with what it shows and what it waits for
          moved,    \* tabs behind whose back the cookie changed
          overtaken \* tabs whose first answer came after a later one

browserVars == <<cookie, founded, tab, moved, overtaken>>

Nobody == "nobody"
Shut == [page |-> "shut", shows |-> Nobody, first |-> "no", setup |-> FALSE,
         form |-> "idle", person |-> Nobody]
SetTab(t, to) == tab' = [tab EXCEPT ![t] = to]

(* A page load: the context asks who is signed in, and the sign-in page    *)
(* whether there is a first user.                                          *)
PageLoad(at, who) == [Shut EXCEPT !.page = at, !.first = who, !.setup = ~founded]

BrowserInit ==
    /\ cookie = Nobody /\ founded \in BOOLEAN
    /\ tab = [t \in Tabs |-> Shut] /\ moved = {} /\ overtaken = {}

OpenTabs(t) == {s \in Tabs \ {t} : tab[s].page # "shut"}
CookieChanges(t, to) == cookie' = to /\ moved' = (IF to = cookie THEN moved ELSE moved \cup OpenTabs(t)) \ {t}

OpenPage(t, at) ==
    /\ tab[t].page = "shut" /\ SetTab(t, PageLoad(at, cookie))
    /\ UNCHANGED <<cookie, founded, moved, overtaken>>

(* The page's first question is answered; a page that needs a user goes to *)
(* the sign-in page by itself.                                             *)
FirstAnswer(t) ==
    /\ tab[t].first # "no"
    /\ SetTab(t, [tab[t] EXCEPT !.first = "no", !.shows = tab[t].first,
                     !.page = IF tab[t].first = Nobody THEN "login" ELSE @])
    /\ overtaken' = IF tab[t].shows # Nobody THEN overtaken \cup {t} ELSE overtaken
    /\ UNCHANGED <<cookie, founded, moved>>
-----------------------------------------------------------------------------
(* handleLogin, and the registration, which signs in too.  The page does   *)
(* not wait for the first answer, nor look whether somebody is signed in.  *)
SubmitSignIn(t, p) ==
    /\ tab[t].page = "login" /\ tab[t].form \in {"idle", "code"} /\ ~tab[t].setup
    /\ tab[t].form = "code" => p = tab[t].person
    /\ SetTab(t, [tab[t] EXCEPT !.form = "posting", !.person = p])
    /\ UNCHANGED <<cookie, founded, moved, overtaken>>

(* handleBootstrap: the first user, then a sign-in; both may be refused.   *)
SubmitSetup(t, p) ==
    /\ tab[t].page = "login" /\ tab[t].form = "idle" /\ tab[t].setup
    /\ IF founded THEN UNCHANGED tab
       ELSE SetTab(t, [tab[t] EXCEPT !.form = "posting", !.person = p])
    /\ founded' = TRUE
    /\ UNCHANGED <<cookie, moved, overtaken>>

SignInRefused(t) ==
    /\ tab[t].form = "posting" /\ SetTab(t, [tab[t] EXCEPT !.form = "idle", !.person = Nobody])
    /\ UNCHANGED <<cookie, founded, moved, overtaken>>

(* A second factor is asked for; "Back to login" forgets it.               *)
AskedForCode(t) ==
    /\ tab[t].form = "posting" /\ ~tab[t].setup /\ SetTab(t, [tab[t] EXCEPT !.form = "code"])
    /\ UNCHANGED <<cookie, founded, moved, overtaken>>

BackToLogin(t) ==
    /\ tab[t].form = "code" /\ SetTab(t, [tab[t] EXCEPT !.form = "idle", !.person = Nobody])
    /\ UNCHANGED <<cookie, founded, moved, overtaken>>

\* Mutated: the page goes on without asking who is signed in now.
NavigatesAtOnce(t) ==
    /\ tab[t].form = "posting"
    /\ SetTab(t, [tab[t] EXCEPT !.form = "idle", !.page = "app"])
    /\ CookieChanges(t, tab[t].person) /\ founded' = TRUE
    /\ UNCHANGED overtaken

(* The answer sets the cookie, and refreshAuth asks who is signed in.      *)
SignedIn(t) ==
    /\ tab[t].form = "posting"
    /\ SetTab(t, [tab[t] EXCEPT !.form = "asking"])
    /\ CookieChanges(t, tab[t].person) /\ founded' = TRUE
    /\ UNCHANGED overtaken

RefreshAnswer(t) ==
    /\ tab[t].form = "asking"
    /\ SetTab(t, [tab[t] EXCEPT !.form = "idle", !.shows = tab[t].person, !.person = Nobody, !.page = "app"])
    /\ UNCHANGED <<cookie, founded, moved, overtaken>>
-----------------------------------------------------------------------------
(* logout, whether or not its request succeeds, and any call of a page that*)
(* is answered 401: the browser loads the sign-in page anew, which forgets *)
(* everything the tab had.                                                 *)
SignOut(t) ==
    /\ tab[t].page = "app" /\ tab[t].shows # Nobody
    /\ \E left \in {Nobody, cookie} : CookieChanges(t, left) /\ SetTab(t, PageLoad("login", left))
    /\ overtaken' = overtaken \ {t} /\ UNCHANGED founded

CallRefused(t) ==
    /\ tab[t].page = "app" /\ tab[t].shows # Nobody /\ cookie = Nobody
    /\ SetTab(t, PageLoad("login", Nobody))
    /\ moved' = moved \ {t} /\ overtaken' = overtaken \ {t}
    /\ UNCHANGED <<cookie, founded>>

(* The access token's lifetime; no page renews it.                         *)
TokenExpires ==
    /\ cookie # Nobody /\ cookie' = Nobody
    /\ moved' = {t \in Tabs : tab[t].page # "shut"}
    /\ UNCHANGED <<founded, tab, overtaken>>

Shuts(t) ==
    /\ tab[t].page # "shut" /\ tab[t].form # "posting" /\ SetTab(t, Shut)
    /\ moved' = moved \ {t} /\ overtaken' = overtaken \ {t}
    /\ UNCHANGED <<cookie, founded>>

BrowserNext ==
    \/ TokenExpires
    \/ \E t \in Tabs :
        \/ FirstAnswer(t) \/ SignInRefused(t) \/ AskedForCode(t) \/ BackToLogin(t) \/ SignedIn(t)
        \/ RefreshAnswer(t) \/ SignOut(t) \/ CallRefused(t) \/ Shuts(t)
        \/ \E at \in {"app", "login"} : OpenPage(t, at)
        \/ \E p \in People : SubmitSignIn(t, p) \/ SubmitSetup(t, p)

BrowserSpec == BrowserInit /\ [][BrowserNext]_browserVars
-----------------------------------------------------------------------------
\* Types of the context and of the forms (useAuth.tsx:38-105, LoginPage.tsx:30-135).
BrowserTypeOK ==
    /\ cookie \in People \cup {Nobody} /\ founded \in BOOLEAN
    /\ moved \subseteq Tabs /\ overtaken \subseteq Tabs
    /\ \A t \in Tabs :
        /\ tab[t].page \in {"shut", "login", "app"} /\ tab[t].shows \in People \cup {Nobody}
        /\ tab[t].first \in People \cup {Nobody, "no"} /\ tab[t].person \in People \cup {Nobody}
        /\ tab[t].form \in {"idle", "posting", "code", "asking"}

\* A page that waits for nothing shows the user its requests are made for, unless the
\* cookie changed behind its back, in another tab or by running out, or the first answer
\* came after the sign-in's (useAuth.tsx:49-91, LoginPage.tsx:87-131).
PageShowsTheSignedIn ==
    \A t \in Tabs \ (moved \cup overtaken) :
        tab[t].page = "app" /\ tab[t].first = "no" /\ tab[t].form = "idle" => tab[t].shows = cookie
=============================================================================
