------------------------------ MODULE Workspace ------------------------------
(***************************************************************************)
(* The browser's workspace (src/web/src/App.tsx and its hooks): who is     *)
(* signed in, the sessions on the list, the session that is selected, the  *)
(* transcript on display, the prompt being streamed and the flags that     *)
(* disable buttons.                                                        *)
(*                                                                         *)
(* Every call to the API is asynchronous.  Nothing cancels a call and      *)
(* nothing compares an answer with what the user is looking at when it     *)
(* arrives, so answers are applied in any order, after the selection, the  *)
(* project or the user has changed.  A call carries the cookie it was sent *)
(* with.  The state updates that follow one await are rendered together    *)
(* with the effects they trigger, and are one step here.                   *)
(*                                                                         *)
(* The marketing pages are outside AppScreen: going there unmounts it, and *)
(* coming back mounts another one with the state of a first visit.  The    *)
(* calls of the old one are not aborted.  Their answers update no state,   *)
(* but they change what the server has, and the continue route still       *)
(* navigates when its call is over.                                        *)
(*                                                                         *)
(* The lists that follow the pattern of the sessions or of the transcript  *)
(* (documents, pins, engrams, timeline) and error texts are left out.      *)
(***************************************************************************)
EXTENDS Naturals, FiniteSets, Bags

CONSTANTS
    Users, Projects, Sessions, Prompts,
    None,
    Stored,         \* sessions the server knows at first: their owner and project
    MaxCalls        \* bound: calls in flight at once, unless one action sends two

Homes == [owner : Users, project : Projects]

ASSUME WorkspaceAssumption ==
    /\ Stored \in [Sessions -> Homes \cup {None}]
    /\ None \notin Users \cup Projects \cup Sessions \cup Prompts \cup Homes
    /\ MaxCalls \in Nat

VARIABLES
    cookie,         \* whom the server takes the browser for
    home,           \* server: owner and project of every session created so far
    user,           \* user
    screen,         \* "app", "login" or "away" (AppScreen is not mounted): the
                    \* route, as far as it matters here
    route,          \* the session named by the app route (or by login's next=)
    project,        \* projectId
    listed,         \* sessions
    chosen,         \* selectedSessionIdState
    shown,          \* the session that messages, pins and timeline belong to
    chat,           \* chatSending, pendingUserText, streamingAssistantText,
                    \* composerText and lastPrompt
    loading,        \* the flags sessionsLoading, engramLoading and creatingSession
    calls,          \* bag of the calls of the mounted AppScreen in flight
    orphans         \* bag of the calls in flight of those unmounted before

server == <<cookie, home>>
vars == <<cookie, home, user, screen, route, project, listed, chosen, shown, chat, loading,
          calls, orphans>>

Flags == {"sessions", "details", "creating"}

Calls ==
    [kind : {"profile", "logout"}, as : Users \cup {None}]
      \cup [kind : {"login"}, as : Users \cup {None}, name : Users]
      \cup [kind : {"sessions"}, as : Users \cup {None}, project : Projects,
            preferred : Sessions \cup {None}]
      \cup [kind : {"details", "mutation"}, as : Users \cup {None}, session : Sessions]
      \cup [kind : {"stream", "refresh"}, as : Users \cup {None}, session : Sessions,
            prompt : Prompts]
      \cup [kind : {"create"}, as : Users \cup {None}, project : Projects]
      \cup [kind : {"continue"}, as : Users \cup {None}, session : Sessions, leave : BOOLEAN]

InFlight(kinds) == {c \in BagToSet(calls) : c.kind \in kinds}
Bag(c) == SetToBag({c})
Room == BagCardinality(calls) + BagCardinality(orphans) < MaxCalls

\* Whose answer matters when AppScreen is gone.  The others go on as well, a
\* stream on the server to its end, and tell nobody.
Lingering == {"login", "logout", "create", "continue"}

\* selectedSessionId: the session of the route goes before the chosen one.
SelectedAt(s, r, c) == IF s = "app" /\ r # None THEN r ELSE c
Selected == SelectedAt(screen, route, chosen)

\* selectedSession: the buttons of the chat panel want a session on the list.
HasSession == user # None /\ Selected \in listed

SessionsCall(as, p, preferred) ==
    [kind |-> "sessions", as |-> as, project |-> p, preferred |-> preferred]
DetailsCall(as, s) == [kind |-> "details", as |-> as, session |-> s]

------------------------------------------------------------------------------
(* Effects.  A step ends a call (done), sends others (sent), and clears and *)
(* sets flags; the effect on the selection adds to both.                    *)

\* useSessionWorkspaceRefresh: runs when the selection has changed.
Rerender(done, sent, flags, transcript) ==
    LET selected == SelectedAt(screen', route', chosen')
        reset == selected # Selected /\ (user' = None \/ selected = None)
        load == selected # Selected /\ ~ reset
    IN  /\ shown' = IF reset THEN None ELSE transcript
        /\ loading' = flags \cup (IF load THEN {"details"} ELSE {})
        /\ calls' = ((calls (-) done) (+) sent)
                      (+) (IF load THEN Bag(DetailsCall(cookie', selected)) ELSE EmptyBag)

\* The state of a chat that was just mounted (the useState defaults).
NewChat == [sending |-> FALSE, pending |-> None, streamed |-> FALSE,
            composer |-> None, lastPrompt |-> None]

Init ==
    /\ cookie \in Users \cup {None}
    /\ home = Stored
    /\ user = None
    /\ screen = "app"
    /\ route \in Sessions \cup {None}
    /\ project \in Projects
    /\ listed = {}
    /\ chosen = None
    /\ shown = None
    /\ chat = NewChat
    /\ loading = {}
    /\ calls = Bag([kind |-> "profile", as |-> cookie])
    /\ orphans = EmptyBag

------------------------------------------------------------------------------
(* Signing in and out.                                                     *)

\* handleLogin: the button is disabled while a login is being submitted.
HandleLogin(u) ==
    /\ screen = "login" /\ user = None
    /\ InFlight({"profile", "login"}) = {}
    /\ calls' = calls (+) Bag([kind |-> "login", as |-> cookie, name |-> u])
    /\ UNCHANGED <<server, user, screen, route, project, listed, chosen, shown, chat, loading>>

\* loginWithPassword answers; hydrateWorkspaceAfterLogin asks for the profile.
LoginAnswered(c, ok) ==
    /\ cookie' = IF ok THEN c.name ELSE cookie
    /\ calls' = (calls (-) Bag(c))
         (+) (IF ok THEN Bag([kind |-> "profile", as |-> c.name]) ELSE EmptyBag)
    /\ UNCHANGED <<home, user, screen, route, project, listed, chosen, shown, chat, loading>>

\* getSessionProfile answers, at the start or after a login: setUser and the
\* loaders, and the login page gives way to the page it was reached from.
ProfileAnswered(c, ok) ==
    \/ /\ ok /\ c.as # None
       /\ user' = c.as
       /\ screen' = "app"
       /\ UNCHANGED <<server, route, project, listed, chosen, chat>>
       /\ Rerender(Bag(c), Bag(SessionsCall(cookie, project, None)),
                   loading \cup {"sessions"}, shown)
    \/ /\ ~ ok
       /\ screen' = "login"
       /\ UNCHANGED <<server, user, route, project, listed, chosen, chat>>
       /\ Rerender(Bag(c), EmptyBag, loading, shown)

\* handleLogout
HandleLogout ==
    /\ user # None /\ Room
    /\ calls' = calls (+) Bag([kind |-> "logout", as |-> cookie])
    /\ UNCHANGED <<server, user, screen, route, project, listed, chosen, shown, chat, loading>>

\* Mutant of ResetChat: the reset ends the stream's flags as well.
ResetChatToo(state) == [state EXCEPT !.sending = FALSE, !.pending = None]

\* What resetWorkspaceState leaves of the chat: everything.
ResetChat(state) == state

\* handleLogout's second half: resetWorkspaceState, whatever the server said.
LogoutAnswered(c, ok) ==
    /\ cookie' = IF ok THEN None ELSE cookie
    /\ user' = None
    /\ listed' = {}
    /\ chosen' = None
    /\ screen' = "login"
    /\ chat' = ResetChat(chat)
    /\ UNCHANGED <<home, route, project>>
    /\ Rerender(Bag(c), EmptyBag, loading, None)

------------------------------------------------------------------------------
(* Loaders.                                                                *)

\* listChatSessions, as the server answers the user of the cookie.
ListChatSessions(c) ==
    {s \in Sessions : home[s] = [owner |-> c.as, project |-> c.project]}

\* pickSession: the previous session when it is on the list, else the first,
\* whichever that is.
PickSession(sessions, previous) ==
    IF previous \in sessions THEN {previous}
    ELSE IF sessions # {} THEN sessions ELSE {None}

\* Mutant of Finally: a failed call leaves its flag set.
FinallyUnlessFailed(flag, ok) == IF ok THEN loading \ {flag} ELSE loading

\* The finally clause of the loaders.
Finally(flag, ok) == loading \ {flag}

\* loadSessions
SessionsAnswered(c, ok) ==
    /\ ok => c.as # None
    /\ IF ok
       THEN /\ listed' = ListChatSessions(c)
            /\ chosen' \in PickSession(listed', IF c.preferred # None THEN c.preferred ELSE chosen)
       ELSE UNCHANGED <<listed, chosen>>
    /\ UNCHANGED <<server, user, screen, route, project, chat>>
    /\ Rerender(Bag(c), EmptyBag, Finally("sessions", ok), shown)

\* The server shows a session to its owner.
Visible(as, s) == home[s] # None /\ home[s].owner = as

\* loadSessionData
DetailsAnswered(c, ok) ==
    /\ ok => Visible(c.as, c.session)
    /\ shown' = IF ok THEN c.session ELSE shown
    /\ loading' = Finally("details", ok)
    /\ calls' = calls (-) Bag(c)
    /\ UNCHANGED <<server, user, screen, route, project, listed, chosen, chat>>

------------------------------------------------------------------------------
(* Moving around.                                                          *)

\* onSelectSession
SelectSession(s) ==
    /\ user # None /\ Room
    /\ s \in listed
    /\ chosen' = s
    /\ UNCHANGED <<server, user, screen, route, project, listed, chat>>
    /\ Rerender(EmptyBag, EmptyBag, loading, shown)

\* The user follows a link, or goes back, to another route.
Navigate(r) ==
    /\ user # None /\ Room
    /\ route' = r
    /\ UNCHANGED <<server, user, screen, project, listed, chosen, chat>>
    /\ Rerender(EmptyBag, EmptyBag, loading, shown)

\* onProjectChange and useProjectWorkspaceRefresh
ChangeProject(p) ==
    /\ user # None /\ Room
    /\ p # project
    /\ project' = p
    /\ loading' = loading \cup {"sessions"}
    /\ calls' = calls (+) Bag(SessionsCall(cookie, p, Selected))
    /\ UNCHANGED <<server, user, screen, route, listed, chosen, shown, chat>>

\* handleRefreshEngrams
HandleRefreshEngrams ==
    /\ user # None /\ Room
    /\ Selected # None /\ "details" \notin loading
    /\ loading' = loading \cup {"details"}
    /\ calls' = calls (+) Bag(DetailsCall(cookie, Selected))
    /\ UNCHANGED <<server, user, screen, route, project, listed, chosen, shown, chat>>

\* runSessionMutation (pins) and handleSaveEngram
RunSessionMutation ==
    /\ user # None /\ Room
    /\ Selected # None
    /\ calls' = calls (+) Bag([kind |-> "mutation", as |-> cookie, session |-> Selected])
    /\ UNCHANGED <<server, user, screen, route, project, listed, chosen, shown, chat, loading>>

\* After the mutation the session that was selected then is loaded again.
MutationAnswered(c, ok) ==
    /\ ok => Visible(c.as, c.session)
    /\ loading' = IF ok THEN loading \cup {"details"} ELSE loading
    /\ calls' = (calls (-) Bag(c))
         (+) (IF ok THEN Bag(DetailsCall(cookie, c.session)) ELSE EmptyBag)
    /\ UNCHANGED <<server, user, screen, route, project, listed, chosen, shown, chat>>

------------------------------------------------------------------------------
(* New sessions.                                                           *)

\* handleCreateSession
HandleCreateSession ==
    /\ user # None /\ Room
    /\ "creating" \notin loading
    /\ loading' = loading \cup {"creating"}
    /\ calls' = calls (+) Bag([kind |-> "create", as |-> cookie, project |-> project])
    /\ UNCHANGED <<server, user, screen, route, project, listed, chosen, shown, chat>>

\* handleContinueSession, from the chat panel or from the continue route
HandleContinueSession(leave) ==
    /\ Room
    /\ IF leave THEN user # None /\ screen = "app" /\ route # None
                ELSE HasSession /\ ~ chat.sending
    /\ calls' = calls (+) Bag([kind |-> "continue", as |-> cookie, session |-> Selected, leave |-> leave])
    /\ UNCHANGED <<server, user, screen, route, project, listed, chosen, shown, chat, loading>>

\* The server creates session s.
Stores(s, owner, p) ==
    /\ home[s] = None
    /\ home' = [home EXCEPT ![s] = [owner |-> owner, project |-> p]]

\* The new session is put on the list and chosen.
Created(s, owner, p) ==
    /\ Stores(s, owner, p)
    /\ listed' = listed \cup {s}
    /\ chosen' = s

CreateAnswered(c, ok) ==
    /\ IF ok
       THEN /\ c.as # None
            /\ \E s \in Sessions : Created(s, c.as, c.project)
            /\ chat' = [chat EXCEPT !.composer = None]
       ELSE UNCHANGED <<home, listed, chosen, chat>>
    /\ UNCHANGED <<cookie, user, screen, route, project>>
    /\ Rerender(Bag(c), EmptyBag, Finally("creating", ok), shown)

ContinueAnswered(c, ok) ==
    /\ IF ok
       THEN /\ Visible(c.as, c.session)
            /\ \E s \in Sessions : Created(s, c.as, home[c.session].project)
       ELSE UNCHANGED <<home, listed, chosen>>
    /\ route' = IF c.leave THEN None ELSE route
    /\ UNCHANGED <<cookie, user, screen, project, chat>>
    /\ Rerender(Bag(c), EmptyBag, loading, shown)

------------------------------------------------------------------------------
(* Prompts.                                                                *)

\* onComposerChange: the text area is disabled while a prompt is sent.
Type(text) ==
    /\ HasSession /\ ~ chat.sending
    /\ chat.composer # text
    /\ chat' = [chat EXCEPT !.composer = text]
    /\ UNCHANGED <<server, user, screen, route, project, listed, chosen, shown, loading, calls>>

\* Mutant of BeginPromptStreaming: the composer keeps its text.
BeginKeepsComposer(state, prompt) ==
    [state EXCEPT !.sending = TRUE, !.pending = prompt, !.streamed = FALSE, !.lastPrompt = prompt]

\* beginPromptStreaming
BeginPromptStreaming(state, prompt) ==
    [sending |-> TRUE, pending |-> prompt, streamed |-> FALSE,
     composer |-> None, lastPrompt |-> prompt]

\* sendPrompt: handleSend sends the composer's text, handleRetry lastPrompt.
SendPrompt(prompt) ==
    /\ HasSession /\ ~ chat.sending /\ Room
    /\ prompt # None
    /\ chat' = BeginPromptStreaming(chat, prompt)
    /\ calls' = calls (+) Bag([kind |-> "stream", as |-> cookie, session |-> Selected, prompt |-> prompt])
    /\ UNCHANGED <<server, user, screen, route, project, listed, chosen, shown, loading>>

HandleSend == SendPrompt(chat.composer)
HandleRetry == SendPrompt(chat.lastPrompt)

\* A chunk event: the server answers only who may see the session.
StreamChunk(c) ==
    /\ Visible(c.as, c.session)
    /\ ~ chat.streamed
    /\ chat' = [chat EXCEPT !.streamed = TRUE]
    /\ UNCHANGED <<server, user, screen, route, project, listed, chosen, shown, loading, calls>>

\* The stream is over: refreshFromSession with the session of the prompt.
StreamEnds(c) ==
    /\ Visible(c.as, c.session)
    /\ loading' = loading \cup {"details"}
    /\ calls' = (calls (-) Bag(c)) (+)
         Bag([kind |-> "refresh", as |-> cookie, session |-> c.session, prompt |-> c.prompt])
    /\ UNCHANGED <<server, user, screen, route, project, listed, chosen, shown, chat>>

\* The refresh is answered; its errors are swallowed.  finalizePromptStreamSuccess.
RefreshAnswered(c, ok) ==
    /\ ok => Visible(c.as, c.session)
    /\ shown' = IF ok THEN c.session ELSE shown
    /\ loading' = Finally("details", ok)
    /\ chat' = [chat EXCEPT !.sending = FALSE, !.pending = None, !.streamed = FALSE]
    /\ calls' = calls (-) Bag(c)
    /\ UNCHANGED <<server, user, screen, route, project, listed, chosen>>

\* finalizePromptStreamError: the prompt goes back to the composer.
FinalizePromptStreamError(state, prompt) ==
    [state EXCEPT !.sending = FALSE, !.pending = None, !.streamed = FALSE, !.composer = prompt]

\* The request fails, the connection breaks or an error event arrives.
StreamFails(c) ==
    /\ chat' = FinalizePromptStreamError(chat, c.prompt)
    /\ calls' = calls (-) Bag(c)
    /\ UNCHANGED <<server, user, screen, route, project, listed, chosen, shown, loading>>

------------------------------------------------------------------------------

Answered(c, ok) ==
    \/ c.kind = "profile" /\ ProfileAnswered(c, ok)
    \/ c.kind = "login" /\ LoginAnswered(c, ok)
    \/ c.kind = "logout" /\ LogoutAnswered(c, ok)
    \/ c.kind = "sessions" /\ SessionsAnswered(c, ok)
    \/ c.kind = "details" /\ DetailsAnswered(c, ok)
    \/ c.kind = "mutation" /\ MutationAnswered(c, ok)
    \/ c.kind = "create" /\ CreateAnswered(c, ok)
    \/ c.kind = "continue" /\ ContinueAnswered(c, ok)
    \/ c.kind = "refresh" /\ RefreshAnswered(c, ok)

StreamCloses(c) == c.kind = "stream" /\ (StreamEnds(c) \/ StreamFails(c))

Reply == \E c \in BagToSet(calls) : StreamCloses(c) \/ \E ok \in BOOLEAN : Answered(c, ok)

Chunk == \E c \in InFlight({"stream"}) : StreamChunk(c)

UserActs ==
    \/ \E u \in Users : HandleLogin(u)
    \/ HandleLogout
    \/ \E s \in Sessions : SelectSession(s)
    \/ \E r \in Sessions \cup {None} : Navigate(r)
    \/ \E p \in Projects : ChangeProject(p)
    \/ HandleRefreshEngrams
    \/ RunSessionMutation
    \/ HandleCreateSession
    \/ \E leave \in BOOLEAN : HandleContinueSession(leave)
    \/ \E text \in Prompts \cup {None} : Type(text)
    \/ HandleSend
    \/ HandleRetry

------------------------------------------------------------------------------
(* Unmounting and mounting AppScreen.                                      *)

\* The state of AppScreen before its effects have run, which is also what is
\* left of it when it is unmounted.
Defaults ==
    /\ user' = None /\ listed' = {} /\ chosen' = None /\ shown' = None
    /\ chat' = NewChat /\ loading' = {}

\* The user goes to a marketing page.  The project stays: it is in localStorage.
Leave ==
    /\ screen # "away"
    /\ screen' = "away"
    /\ route' = None
    /\ Defaults
    /\ calls' = EmptyBag
    /\ orphans' = orphans (+) [c \in InFlight(Lingering) |-> calls[c]]
    /\ UNCHANGED <<server, project>>

\* AppScreen is mounted on route r: useAuthBootstrap asks for the profile.
Mount(r) ==
    /\ screen' = "app"
    /\ route' = r
    /\ Defaults
    /\ calls' = Bag([kind |-> "profile", as |-> cookie])
    /\ UNCHANGED project

\* The user comes back to the app, or to the login page.
Enter(r) ==
    /\ screen = "away" /\ Room
    /\ Mount(r)
    /\ UNCHANGED <<server, orphans>>

\* An answer to handleLogin, handleLogout or handleCreateSession of an AppScreen
\* that is gone.
OrphanAnswered(c, ok) ==
    /\ \/ /\ c.kind \in {"login", "logout"}
          /\ cookie' = IF ~ ok THEN cookie ELSE IF c.kind = "login" THEN c.name ELSE None
          /\ UNCHANGED home
       \/ /\ c.kind = "create"
          /\ IF ok THEN c.as # None /\ \E s \in Sessions : Stores(s, c.as, c.project)
                   ELSE UNCHANGED home
          /\ UNCHANGED cookie
    /\ orphans' = orphans (-) Bag(c)
    /\ UNCHANGED <<user, screen, route, project, listed, chosen, shown, chat, loading, calls>>

\* An answer to its handleContinueSession; handleRouteContinue goes on to the
\* workspace route, which mounts AppScreen when there is none.
OrphanContinued(c, ok) ==
    /\ c.kind = "continue"
    /\ IF ok
       THEN /\ Visible(c.as, c.session)
            /\ \E s \in Sessions : Stores(s, c.as, home[c.session].project)
       ELSE UNCHANGED home
    /\ orphans' = orphans (-) Bag(c)
    /\ UNCHANGED cookie
    /\ IF c.leave /\ screen = "away"
       THEN Mount(None)
       ELSE /\ route' = IF c.leave THEN None ELSE route
            /\ UNCHANGED <<user, screen, project, listed, chosen, chat>>
            /\ Rerender(EmptyBag, EmptyBag, loading, shown)

------------------------------------------------------------------------------

Mounted == Reply \/ Chunk \/ UserActs

Orphaned ==
    \E c \in BagToSet(orphans), ok \in BOOLEAN : OrphanAnswered(c, ok) \/ OrphanContinued(c, ok)

Next ==
    \/ Mounted /\ UNCHANGED orphans
    \/ Leave
    \/ \E r \in Sessions \cup {None} : Enter(r)
    \/ Orphaned

Spec == Init /\ [][Next]_vars

------------------------------------------------------------------------------
(* Properties.                                                             *)

TypeOK ==
    /\ cookie \in Users \cup {None}
    /\ home \in [Sessions -> Homes \cup {None}]
    /\ user \in Users \cup {None}
    /\ screen \in {"app", "login", "away"}
    /\ route \in Sessions \cup {None}
    /\ project \in Projects
    /\ listed \subseteq Sessions
    /\ chosen \in Sessions \cup {None}
    /\ shown \in Sessions \cup {None}
    /\ chat \in [sending : BOOLEAN, pending : Prompts \cup {None}, streamed : BOOLEAN,
                 composer : Prompts \cup {None}, lastPrompt : Prompts \cup {None}]
    /\ loading \subseteq Flags
    /\ IsABag(calls) /\ BagToSet(calls) \subseteq Calls
    /\ IsABag(orphans) /\ BagToSet(orphans) \subseteq {c \in Calls : c.kind \in Lingering}

\* chatSending of the mounted workspace stands for exactly one prompt it has
\* under way, and the bubbles on display are that prompt's: also when the
\* session, the project or the user changed while it streamed, and after a
\* visit to the marketing pages.  Hence a workspace never runs two streams.  (A
\* browser can: the stream of a workspace left for a marketing page runs on,
\* unseen, beside those of the next one.)
OneStream ==
    LET streams == InFlight({"stream", "refresh"})
    IN  IF chat.sending
        THEN \E c \in streams :
               /\ streams = {c} /\ calls[c] = 1
               /\ chat.pending = c.prompt /\ chat.lastPrompt = c.prompt
        ELSE streams = {} /\ chat.pending = None /\ ~ chat.streamed

\* Putting a failed prompt back into the composer overwrites nothing: while a
\* prompt is under way the composer is empty, whatever sessions are created
\* and users sign in meanwhile (finalizePromptStreamError).
RestoreOverwritesNothing == chat.sending => chat.composer = None

\* A flag is set only while a call that will clear it is under way: no loader
\* is over and leaves a button disabled behind it.
LoadingJustified ==
    /\ "sessions" \in loading => InFlight({"sessions"}) # {}
    /\ "details" \in loading => InFlight({"details", "refresh"}) # {}
    /\ "creating" \in loading <=> InFlight({"create"}) # {}
==============================================================================
