--------------------------- MODULE WorkspaceProofs ---------------------------
(***************************************************************************)
(* Proofs about Workspace, for any users, projects, sessions and prompts,  *)
(* and for any number of calls in flight, answered in any order.           *)
(***************************************************************************)
EXTENDS Workspace, TLAPS

------------------------------------------------------------------------------
(* Bags.                                                                   *)

LEMMA BagOfOne ==
    ASSUME NEW c
    PROVE  IsABag(Bag(c)) /\ BagToSet(Bag(c)) = {c} /\ Bag(c)[c] = 1
BY DEF Bag, SetToBag, IsABag, BagToSet

LEMMA BagOfNone ==
    ASSUME NEW B, IsABag(B)
    PROVE  B (+) EmptyBag = B /\ B (-) EmptyBag = B
<1>1. B (+) EmptyBag = B
  BY DEF EmptyBag, SetToBag, IsABag, (+)
<1>2. B (-) EmptyBag = B
  BY DEF EmptyBag, SetToBag, IsABag, (-)
<1> QED BY <1>1, <1>2

LEMMA BagPlus ==
    ASSUME NEW B, IsABag(B), NEW d
    PROVE  /\ IsABag(B (+) Bag(d))
           /\ BagToSet(B (+) Bag(d)) = BagToSet(B) \cup {d}
           /\ \A e \in BagToSet(B) \ {d} : (B (+) Bag(d))[e] = B[e]
           /\ d \notin BagToSet(B) => (B (+) Bag(d))[d] = 1
BY DEF IsABag, BagToSet, (+), Bag, SetToBag

LEMMA BagMinus ==
    ASSUME NEW B, IsABag(B), NEW c \in BagToSet(B)
    PROVE  /\ IsABag(B (-) Bag(c))
           /\ BagToSet(B (-) Bag(c)) = IF B[c] = 1 THEN BagToSet(B) \ {c} ELSE BagToSet(B)
           /\ \A e \in BagToSet(B) \ {c} : (B (-) Bag(c))[e] = B[e]
BY DEF IsABag, BagToSet, (-), Bag, SetToBag

\* Bag C is bag B without one copy of each member of E, and with one copy more
\* of each member of T.
Changed(B, C, E, T) ==
    /\ IsABag(C)
    /\ BagToSet(C) \subseteq BagToSet(B) \cup T
    /\ T \subseteq BagToSet(C)
    /\ \A e \in BagToSet(B) \ (E \cup T) : e \in BagToSet(C) /\ C[e] = B[e]
    /\ \A e \in E \ T : B[e] = 1 => e \notin BagToSet(C)
    /\ \A t \in T \ BagToSet(B) : C[t] = 1

LEMMA NothingChanged ==
    ASSUME NEW B, IsABag(B)
    PROVE  Changed(B, B, {}, {})
BY DEF Changed

LEMMA OneLess ==
    ASSUME NEW B, IsABag(B), NEW c \in BagToSet(B)
    PROVE  Changed(B, B (-) Bag(c), {c}, {})
BY BagMinus DEF Changed

LEMMA OneMore ==
    ASSUME NEW B, NEW C, NEW E, NEW T, Changed(B, C, E, T), NEW d, d \notin T
    PROVE  Changed(B, C (+) Bag(d), E, T \cup {d})
BY BagPlus DEF Changed

------------------------------------------------------------------------------
(* Calls.                                                                  *)

Anyone == Users \cup {None}

\* The record of a call, by its kind.
LEMMA CallShape ==
    ASSUME NEW c \in Calls
    PROVE  /\ c.as \in Anyone
           /\ c.kind = "login" => c.name \in Users
           /\ c.kind = "sessions" => c.project \in Projects /\ c.preferred \in Sessions \cup {None}
           /\ c.kind = "create" => c.project \in Projects
           /\ c.kind \in {"details", "mutation", "stream", "refresh", "continue"} => c.session \in Sessions
           /\ c.kind \in {"stream", "refresh"} => c.prompt \in Prompts
           /\ c.kind = "continue" => c.leave \in BOOLEAN
BY DEF Calls, Anyone

LEMMA NewCalls ==
    ASSUME NEW a \in Anyone
    PROVE  /\ \A k \in {"profile", "logout"} : [kind |-> k, as |-> a] \in Calls
           /\ \A u \in Users : [kind |-> "login", as |-> a, name |-> u] \in Calls
           /\ \A p \in Projects, s \in Sessions \cup {None} : SessionsCall(a, p, s) \in Calls
           /\ \A s \in Sessions : DetailsCall(a, s) \in Calls
           /\ \A s \in Sessions : [kind |-> "mutation", as |-> a, session |-> s] \in Calls
           /\ \A k \in {"stream", "refresh"}, s \in Sessions, p \in Prompts :
                [kind |-> k, as |-> a, session |-> s, prompt |-> p] \in Calls
           /\ \A p \in Projects : [kind |-> "create", as |-> a, project |-> p] \in Calls
           /\ \A s \in Sessions, leave \in BOOLEAN :
                [kind |-> "continue", as |-> a, session |-> s, leave |-> leave] \in Calls
BY DEF Calls, Anyone, SessionsCall, DetailsCall

\* A step ends the calls in E and sends those in T.
Effect(E, T) == E \subseteq BagToSet(calls) /\ T \subseteq Calls /\ Changed(calls, calls', E, T)

LEMMA Sent ==
    ASSUME IsABag(calls), NEW d \in Calls, calls' = calls (+) Bag(d)
    PROVE  Effect({}, {d})
BY NothingChanged, OneMore DEF Effect

LEMMA Ended ==
    ASSUME IsABag(calls), NEW c \in BagToSet(calls), calls' = calls (-) Bag(c)
    PROVE  Effect({c}, {})
BY OneLess DEF Effect

LEMMA EndedAndSent ==
    ASSUME IsABag(calls), NEW c \in BagToSet(calls), NEW d \in Calls,
           calls' = (calls (-) Bag(c)) (+) Bag(d)
    PROVE  Effect({c}, {d})
BY OneLess, OneMore DEF Effect

\* Calls of kinds that a step neither ends nor sends stay as they are.
LEMMA Untouched ==
    ASSUME NEW E, NEW T, Effect(E, T), NEW kinds, \A e \in E \cup T : e.kind \notin kinds
    PROVE  InFlight(kinds)' = InFlight(kinds) /\ \A e \in InFlight(kinds) : calls'[e] = calls[e]
BY DEF Effect, Changed, InFlight

------------------------------------------------------------------------------
(* What a step does to the calls, the flags and the chat.                  *)

Prompting == {"stream", "refresh"}

\* A flag stays set only when no call that clears it ended, and is set with a
\* call that will clear it; a session is created only when none is.
FlagStep(E, T) ==
    /\ "sessions" \in loading' =>
         \/ "sessions" \in loading /\ \A e \in E : e.kind # "sessions"
         \/ \E t \in T : t.kind = "sessions"
    /\ "details" \in loading' =>
         \/ "details" \in loading /\ \A e \in E : e.kind \notin {"details", "refresh"}
         \/ \E t \in T : t.kind \in {"details", "refresh"}
    /\ \/ /\ \A e \in E \cup T : e.kind # "create"
          /\ "creating" \in loading' <=> "creating" \in loading
       \/ /\ E = {} /\ \E t \in T : T = {t} /\ t.kind = "create"
          /\ "creating" \notin loading /\ "creating" \in loading'
       \/ /\ \E e \in E : E = {e} /\ e.kind = "create"
          /\ \A t \in T : t.kind # "create"
          /\ "creating" \notin loading'

\* Nothing that is about a prompt, but for the text of the composer.
ChatKept ==
    \/ chat' = chat
    \/ chat' = [chat EXCEPT !.composer = None]
    \/ ~ chat.sending /\ \E text \in Prompts \cup {None} : chat' = [chat EXCEPT !.composer = text]

PromptOver ==
    /\ ~ chat'.sending /\ chat'.pending = None /\ ~ chat'.streamed
    /\ chat'.lastPrompt = chat.lastPrompt

ChatStep(E, T) ==
    \/ (\A e \in E \cup T : e.kind \notin Prompting) /\ ChatKept
    \/ E = {} /\ T = {} /\ InFlight({"stream"}) # {} /\ chat' = [chat EXCEPT !.streamed = TRUE]
    \/ /\ ~ chat.sending /\ E = {}
       /\ \E d \in T : T = {d} /\ d.kind = "stream" /\ chat' = BeginPromptStreaming(chat, d.prompt)
    \/ /\ chat' = chat
       /\ \E c \in E, d \in T : /\ E = {c} /\ c.kind = "stream"
                                /\ T = {d} /\ d.kind = "refresh" /\ d.prompt = c.prompt
    \/ /\ PromptOver /\ T = {}
       /\ \E c \in E : E = {c} /\ c.kind \in Prompting

ChatStates ==
    [sending : BOOLEAN, pending : Prompts \cup {None}, streamed : BOOLEAN,
     composer : Prompts \cup {None}, lastPrompt : Prompts \cup {None}]

\* The type invariant, but for the calls.
Typed ==
    /\ cookie \in Anyone /\ home \in [Sessions -> Homes \cup {None}]
    /\ user \in Anyone /\ screen \in {"app", "login", "away"}
    /\ route \in Sessions \cup {None} /\ project \in Projects
    /\ listed \subseteq Sessions
    /\ chosen \in Sessions \cup {None} /\ shown \in Sessions \cup {None}
    /\ chat \in ChatStates
    /\ loading \subseteq Flags

\* The calls of workspaces that are gone.
OrphansTyped ==
    IsABag(orphans) /\ BagToSet(orphans) \subseteq {c \in Calls : c.kind \in Lingering}

LEMMA Types ==
    TypeOK <=> Typed /\ IsABag(calls) /\ BagToSet(calls) \subseteq Calls /\ OrphansTyped
BY DEF TypeOK, Typed, ChatStates, Anyone, OrphansTyped

Step(E, T) == Effect(E, T) /\ FlagStep(E, T) /\ ChatStep(E, T) /\ Typed'

LEMMA ChatTypes ==
    ASSUME NEW x \in ChatStates
    PROVE  /\ \A t \in Prompts \cup {None} : [x EXCEPT !.composer = t] \in ChatStates
           /\ [x EXCEPT !.streamed = TRUE] \in ChatStates
           /\ \A p \in Prompts : BeginPromptStreaming(x, p) \in ChatStates
           /\ [x EXCEPT !.sending = FALSE, !.pending = None, !.streamed = FALSE] \in ChatStates
           /\ \A p \in Prompts : FinalizePromptStreamError(x, p) \in ChatStates
BY DEF ChatStates, BeginPromptStreaming, FinalizePromptStreamError

LEMMA SelectedTypes ==
    ASSUME NEW s, NEW r \in Sessions \cup {None}, NEW c \in Sessions \cup {None}
    PROVE  SelectedAt(s, r, c) \in Sessions \cup {None}
BY DEF SelectedAt

\* Bag done holds the call in E, if any, and is in flight; bag sent the call in
\* T, if any, that is not for a session's details.
Ends(done, E) ==
    \/ done = EmptyBag /\ E = {}
    \/ \E c \in BagToSet(calls) : done = Bag(c) /\ E = {c}

Sends(sent, T) ==
    \/ sent = EmptyBag /\ T = {}
    \/ \E d \in Calls : d.kind # "details" /\ sent = Bag(d) /\ T = {d}

\* The effect on the selection: it may send a call for the session's details,
\* with the flag, and may empty the transcript.
LEMMA RerenderStep ==
    ASSUME IsABag(calls), NEW E, NEW T, NEW done, NEW sent, NEW flags, NEW transcript,
           Ends(done, E), Sends(sent, T),
           cookie' \in Anyone, route' \in Sessions \cup {None}, chosen' \in Sessions \cup {None},
           Rerender(done, sent, flags, transcript)
    PROVE  /\ \E L : /\ Effect(E, T \cup L) /\ \A d \in L : d.kind = "details"
                     /\ L = {} => loading' = flags
                     /\ L # {} => loading' = flags \cup {"details"}
           /\ shown' \in {transcript, None}
<1> DEFINE selected == SelectedAt(screen', route', chosen')
           reset == selected # Selected /\ (user' = None \/ selected = None)
           load == selected # Selected /\ ~ reset
           B1 == calls (-) done
           B2 == B1 (+) sent
           d == DetailsCall(cookie', selected)
<1>1. /\ shown' = IF reset THEN None ELSE transcript
      /\ loading' = flags \cup (IF load THEN {"details"} ELSE {})
      /\ calls' = B2 (+) (IF load THEN Bag(d) ELSE EmptyBag)
  BY DEF Rerender
<1>2. selected \in Sessions \cup {None}
  BY SelectedTypes
<1>3. Changed(calls, B1, E, {})
  BY NothingChanged, OneLess, BagOfNone DEF Ends
<1>4. Changed(calls, B2, E, T)
  <2> HIDE DEF B1
  <2>1. CASE sent = EmptyBag /\ T = {}
    BY <1>3, <2>1, BagOfNone DEF Changed
  <2>2. CASE \E x \in Calls : x.kind # "details" /\ sent = Bag(x) /\ T = {x}
    BY <1>3, <2>2, OneMore
  <2> QED BY <2>1, <2>2 DEF Sends
<1>5. E \subseteq BagToSet(calls) /\ T \subseteq Calls /\ \A x \in T : x.kind # "details"
  BY DEF Ends, Sends
<1>6. CASE load
  <2>1. d \in Calls /\ d.kind = "details"
    BY <1>2, <1>6, NewCalls DEF DetailsCall
  <2>2. calls' = B2 (+) Bag(d) /\ loading' = flags \cup {"details"}
    BY <1>1, <1>6
  <2> HIDE DEF d, B2, reset, load
  <2>3. Changed(calls, calls', E, T \cup {d})
    BY <1>4, <1>5, <2>1, <2>2, OneMore
  <2>4. Effect(E, T \cup {d}) /\ {d} # {}
    BY <1>5, <2>1, <2>3 DEF Effect
  <2> QED BY <1>1, <2>1, <2>2, <2>4
<1>7. CASE ~ load
  <2>1. calls' = B2 (+) EmptyBag /\ loading' = flags \cup {}
    BY <1>1, <1>7
  <2> HIDE DEF d, B2, reset, load
  <2>2. Changed(calls, calls', E, T)
    BY <1>4, <2>1, BagOfNone DEF Changed
  <2>3. Effect(E, T \cup {}) /\ loading' = flags
    BY <1>5, <2>1, <2>2 DEF Effect
  <2> QED BY <1>1, <2>3
<1> QED BY <1>6, <1>7

------------------------------------------------------------------------------
(* The user's actions.                                                     *)

\* An action that sends one call, of a kind that is about no prompt and no new
\* session.
LEMMA SendStep ==
    ASSUME TypeOK, NEW d \in Calls, d.kind \notin Prompting \cup {"create"}, calls' = calls (+) Bag(d),
           \/ loading' = loading
           \/ d.kind \in {"sessions", "details"} /\ loading' = loading \cup {d.kind},
           chat' = chat, Typed'
    PROVE  Step({}, {d})
<1>1. Effect({}, {d})
  BY Types, Sent
<1>2. FlagStep({}, {d})
  BY DEF FlagStep, Prompting
<1>3. ChatStep({}, {d})
  BY DEF ChatStep, ChatKept
<1> QED BY <1>1, <1>2, <1>3 DEF Step

\* An action that changes the selection.
LEMMA SelectStep ==
    ASSUME TypeOK, Rerender(EmptyBag, EmptyBag, loading, shown), chat' = chat,
           cookie' = cookie, home' \in [Sessions -> Homes \cup {None}],
           UNCHANGED <<user, screen, project, listed>>,
           route' \in Sessions \cup {None}, chosen' \in Sessions \cup {None}
    PROVE  \E E, T : Step(E, T)
<1>0. Typed /\ IsABag(calls) /\ cookie' \in Anyone
  BY Types DEF Typed
<1>1. /\ \E L : /\ Effect({}, {} \cup L) /\ \A d \in L : d.kind = "details"
                /\ L = {} => loading' = loading
                /\ L # {} => loading' = loading \cup {"details"}
      /\ shown' \in {shown, None}
  <2>1. Ends(EmptyBag, {}) /\ Sends(EmptyBag, {})
    BY DEF Ends, Sends
  <2> QED BY <1>0, <2>1, RerenderStep
<1>2. PICK L : /\ Effect({}, L) /\ \A d \in L : d.kind = "details"
               /\ L = {} => loading' = loading
               /\ L # {} => loading' = loading \cup {"details"}
  BY <1>1
<1>3. FlagStep({}, L)
  BY <1>2 DEF FlagStep
<1>4. ChatStep({}, L)
  BY <1>2 DEF ChatStep, ChatKept, Prompting
<1>5. Typed'
  BY <1>0, <1>1, <1>2 DEF Typed, Flags
<1> QED BY <1>2, <1>3, <1>4, <1>5 DEF Step

LEMMA UserStep ==
    ASSUME TypeOK, UserActs
    PROVE  \E E, T : Step(E, T)
<1>0. Typed /\ IsABag(calls) /\ Selected \in Sessions \cup {None}
  BY Types, SelectedTypes DEF Typed, Selected
<1>a. cookie \in Anyone /\ {"sessions", "details", "creating"} = Flags
  BY <1>0 DEF Typed, Flags
<1>1. ASSUME NEW u \in Users, HandleLogin(u)
      PROVE  \E E, T : Step(E, T)
  <2> DEFINE d == [kind |-> "login", as |-> cookie, name |-> u]
  <2>1. d \in Calls /\ d.kind \notin Prompting \cup {"create"}
    BY <1>a, NewCalls DEF Prompting
  <2>2. Typed' /\ calls' = calls (+) Bag(d) /\ loading' = loading /\ chat' = chat
    BY <1>0, <1>1 DEF HandleLogin, Typed, server
  <2> HIDE DEF d
  <2> QED BY <2>1, <2>2, SendStep
<1>2. CASE HandleLogout
  <2> DEFINE d == [kind |-> "logout", as |-> cookie]
  <2>1. d \in Calls /\ d.kind \notin Prompting \cup {"create"}
    BY <1>a, NewCalls DEF Prompting
  <2>2. Typed' /\ calls' = calls (+) Bag(d) /\ loading' = loading /\ chat' = chat
    BY <1>0, <1>2 DEF HandleLogout, Typed, server
  <2> HIDE DEF d
  <2> QED BY <2>1, <2>2, SendStep
<1>3. ASSUME NEW s \in Sessions, SelectSession(s)
      PROVE  \E E, T : Step(E, T)
  BY <1>0, <1>3, SelectStep DEF SelectSession, Typed, server
<1>4. ASSUME NEW r \in Sessions \cup {None}, Navigate(r)
      PROVE  \E E, T : Step(E, T)
  BY <1>0, <1>4, SelectStep DEF Navigate, Typed, server
<1>5. ASSUME NEW p \in Projects, ChangeProject(p)
      PROVE  \E E, T : Step(E, T)
  <2> DEFINE d == SessionsCall(cookie, p, Selected)
  <2>1. d \in Calls /\ d.kind = "sessions" /\ d.kind \notin Prompting \cup {"create"}
    BY <1>0, <1>a, NewCalls DEF Prompting, SessionsCall
  <2>2. Typed' /\ calls' = calls (+) Bag(d) /\ loading' = loading \cup {"sessions"} /\ chat' = chat
    BY <1>0, <1>a, <1>5 DEF ChangeProject, Typed, server
  <2> HIDE DEF d
  <2> QED BY <2>1, <2>2, SendStep
<1>6. CASE HandleRefreshEngrams
  <2> DEFINE d == DetailsCall(cookie, Selected)
  <2>1. d \in Calls /\ d.kind = "details" /\ d.kind \notin Prompting \cup {"create"}
    BY <1>0, <1>a, <1>6, NewCalls DEF Prompting, DetailsCall, HandleRefreshEngrams
  <2>2. Typed' /\ calls' = calls (+) Bag(d) /\ loading' = loading \cup {"details"} /\ chat' = chat
    BY <1>0, <1>a, <1>6 DEF HandleRefreshEngrams, Typed, server
  <2> HIDE DEF d
  <2> QED BY <2>1, <2>2, SendStep
<1>7. CASE RunSessionMutation
  <2> DEFINE d == [kind |-> "mutation", as |-> cookie, session |-> Selected]
  <2>1. d \in Calls /\ d.kind \notin Prompting \cup {"create"}
    BY <1>0, <1>a, <1>7, NewCalls DEF Prompting, RunSessionMutation
  <2>2. Typed' /\ calls' = calls (+) Bag(d) /\ loading' = loading /\ chat' = chat
    BY <1>0, <1>7 DEF RunSessionMutation, Typed, server
  <2> HIDE DEF d
  <2> QED BY <2>1, <2>2, SendStep
<1>8. CASE HandleCreateSession
  <2> DEFINE d == [kind |-> "create", as |-> cookie, project |-> project]
  <2>1. d \in Calls /\ d.kind = "create"
    BY <1>0, <1>a, NewCalls DEF Typed
  <2>2. /\ Typed' /\ calls' = calls (+) Bag(d) /\ chat' = chat
        /\ "creating" \notin loading /\ loading' = loading \cup {"creating"}
    BY <1>0, <1>a, <1>8 DEF HandleCreateSession, Typed, server
  <2> HIDE DEF d
  <2>3. FlagStep({}, {d})
    BY <2>1, <2>2 DEF FlagStep
  <2>4. ChatStep({}, {d})
    BY <2>1, <2>2 DEF ChatStep, ChatKept, Prompting
  <2> QED BY <1>0, <2>1, <2>2, <2>3, <2>4, Sent DEF Step
<1>9. ASSUME NEW leave \in BOOLEAN, HandleContinueSession(leave)
      PROVE  \E E, T : Step(E, T)
  <2> DEFINE d == [kind |-> "continue", as |-> cookie, session |-> Selected, leave |-> leave]
  <2>0. Selected \in Sessions
    <3>1. CASE screen = "app" /\ route # None
      BY <1>0, <3>1 DEF Typed, Selected, SelectedAt
    <3>2. CASE HasSession
      BY <1>0, <3>2 DEF Typed, HasSession
    <3> QED BY <1>9, <3>1, <3>2 DEF HandleContinueSession
  <2>1. d \in Calls /\ d.kind \notin Prompting \cup {"create"}
    BY <1>a, <2>0, NewCalls DEF Prompting
  <2>2. Typed' /\ calls' = calls (+) Bag(d) /\ loading' = loading /\ chat' = chat
    BY <1>0, <1>9 DEF HandleContinueSession, Typed, server
  <2> HIDE DEF d
  <2> QED BY <2>1, <2>2, SendStep
<1>10. ASSUME NEW text \in Prompts \cup {None}, Type(text)
       PROVE  \E E, T : Step(E, T)
  <2>1. /\ chat' = [chat EXCEPT !.composer = text] /\ ~ chat.sending
        /\ UNCHANGED <<server, user, screen, route, project, listed, chosen, shown, loading, calls>>
    BY <1>10 DEF Type
  <2>2. Typed'
    BY <1>0, <2>1, ChatTypes DEF Typed, server
  <2>3. Effect({}, {})
    BY <1>0, <2>1, NothingChanged DEF Effect
  <2>4. FlagStep({}, {}) /\ ChatStep({}, {})
    BY <2>1 DEF FlagStep, ChatStep, ChatKept
  <2> QED BY <2>2, <2>3, <2>4 DEF Step
<1>11. ASSUME NEW prompt \in Prompts \cup {None}, SendPrompt(prompt)
       PROVE  \E E, T : Step(E, T)
  <2> DEFINE d == [kind |-> "stream", as |-> cookie, session |-> Selected, prompt |-> prompt]
  <2>0. Selected \in Sessions /\ prompt \in Prompts
    BY <1>0, <1>11 DEF Typed, HasSession, SendPrompt
  <2>1. d \in Calls /\ d.kind = "stream" /\ d.prompt = prompt
    BY <1>a, <2>0, NewCalls
  <2>2. /\ calls' = calls (+) Bag(d) /\ chat' = BeginPromptStreaming(chat, prompt) /\ ~ chat.sending
        /\ UNCHANGED <<server, user, screen, route, project, listed, chosen, shown, loading>>
    BY <1>11 DEF SendPrompt
  <2>3. Typed'
    BY <1>0, <2>0, <2>2, ChatTypes DEF Typed, server
  <2> HIDE DEF d
  <2>4. FlagStep({}, {d})
    BY <2>1, <2>2 DEF FlagStep
  <2>5. ChatStep({}, {d})
    BY <2>1, <2>2 DEF ChatStep
  <2> QED BY <1>0, <2>1, <2>2, <2>3, <2>4, <2>5, Sent DEF Step
<1>12. CASE HandleSend \/ HandleRetry
  BY <1>0, <1>11, <1>12 DEF HandleSend, HandleRetry, Typed, ChatStates
<1> QED BY <1>1, <1>2, <1>3, <1>4, <1>5, <1>6, <1>7, <1>8, <1>9, <1>10, <1>12 DEF UserActs

------------------------------------------------------------------------------
(* The answers.                                                            *)

\* An answer after which the effect on the selection runs: it may send the call
\* in T, and leaves the composer or empties it.
LEMMA AnswerStep ==
    ASSUME TypeOK, NEW c \in BagToSet(calls), c.kind \notin Prompting, NEW sent, NEW T, NEW flags, NEW transcript,
           Rerender(Bag(c), sent, flags, transcript), transcript \in {shown, None},
           \/ sent = EmptyBag /\ T = {}
           \/ \E d \in Calls : d.kind = "sessions" /\ sent = Bag(d) /\ T = {d},
           cookie' \in Anyone, home' \in [Sessions -> Homes \cup {None}], user' \in Anyone,
           screen' \in {"app", "login", "away"}, route' \in Sessions \cup {None}, UNCHANGED project,
           listed' \subseteq Sessions, chosen' \in Sessions \cup {None},
           chat' = chat \/ chat' = [chat EXCEPT !.composer = None],
           \/ c.kind \notin {"sessions", "details", "create"} /\ T = {} /\ flags = loading
           \/ c.kind \notin {"sessions", "details", "create"} /\ T # {} /\ flags = loading \cup {"sessions"}
           \/ c.kind = "sessions" /\ T = {} /\ flags = loading \ {"sessions"}
           \/ c.kind = "create" /\ T = {} /\ flags = loading \ {"creating"}
    PROVE  \E E, U : Step(E, U)
<1>0. Typed /\ IsABag(calls)
  BY Types
<1>1. \A d \in T : d.kind = "sessions"
  OBVIOUS
<1>2. /\ \E L : /\ Effect({c}, T \cup L) /\ \A d \in L : d.kind = "details"
                /\ L = {} => loading' = flags
                /\ L # {} => loading' = flags \cup {"details"}
      /\ shown' \in {transcript, None}
  <2>1. Ends(Bag(c), {c}) /\ Sends(sent, T)
    BY DEF Ends, Sends
  <2> QED BY <1>0, <2>1, RerenderStep
<1>3. PICK L : /\ Effect({c}, T \cup L) /\ \A d \in L : d.kind = "details"
               /\ L = {} => loading' = flags
               /\ L # {} => loading' = flags \cup {"details"}
  BY <1>2
<1>4. FlagStep({c}, T \cup L)
  <2>1. "sessions" \in loading' =>
          \/ "sessions" \in loading /\ c.kind # "sessions"
          \/ \E t \in T \cup L : t.kind = "sessions"
    BY <1>1, <1>3
  <2>2. "details" \in loading' =>
          \/ "details" \in loading /\ c.kind \notin {"details", "refresh"}
          \/ \E t \in T \cup L : t.kind \in {"details", "refresh"}
    BY <1>1, <1>3 DEF Prompting
  <2>3. \A t \in T \cup L : t.kind # "create"
    BY <1>1, <1>3
  <2>4. \/ c.kind # "create" /\ ("creating" \in loading' <=> "creating" \in loading)
        \/ c.kind = "create" /\ "creating" \notin loading'
    BY <1>3
  <2> QED BY <2>1, <2>2, <2>3, <2>4 DEF FlagStep
<1>5. ChatStep({c}, T \cup L)
  <2>1. \A t \in T \cup L : t.kind \notin Prompting
    BY <1>1, <1>3 DEF Prompting
  <2> QED BY <2>1 DEF ChatStep, ChatKept
<1>6. Typed'
  <2>1. chat' \in ChatStates
    <3>1. chat \in ChatStates /\ None \in Prompts \cup {None}
      BY <1>0 DEF Typed
    <3>2. [chat EXCEPT !.composer = None] \in ChatStates
      BY <3>1, ChatTypes
    <3> QED BY <3>1, <3>2
  <2>2. shown' \in Sessions \cup {None} /\ loading' \subseteq Flags
    BY <1>0, <1>2, <1>3 DEF Typed, Flags
  <2> QED BY <1>0, <2>1, <2>2 DEF Typed
<1> QED BY <1>3, <1>4, <1>5, <1>6 DEF Step

LEMMA StoresTypes ==
    ASSUME Typed, NEW s \in Sessions, NEW o \in Users, NEW p \in Projects, Stores(s, o, p)
    PROVE  home' \in [Sessions -> Homes \cup {None}]
<1>1. [owner |-> o, project |-> p] \in Homes
  BY DEF Homes
<1> QED BY <1>1 DEF Stores, Typed

LEMMA CreatedTypes ==
    ASSUME Typed, NEW s \in Sessions, NEW o \in Users, NEW p \in Projects, Created(s, o, p)
    PROVE  home' \in [Sessions -> Homes \cup {None}] /\ listed' \subseteq Sessions /\ chosen' \in Sessions
BY StoresTypes DEF Created, Typed

\* A session that is there has an owner and a project.
LEMMA HomeTypes ==
    ASSUME Typed, NEW s \in Sessions, NEW a, Visible(a, s)
    PROVE  a \in Users /\ home[s].project \in Projects
<1>1. home[s] \in Homes
  BY DEF Visible, Typed
<1> QED BY <1>1 DEF Homes, Visible

LEMMA AnsweredStep ==
    ASSUME TypeOK, NEW c \in BagToSet(calls), NEW ok \in BOOLEAN, Answered(c, ok)
    PROVE  \E E, T : Step(E, T)
<1>0. Typed /\ IsABag(calls) /\ c \in Calls
  BY Types
<1>a. None \notin Users
  BY WorkspaceAssumption
<1>1. CASE c.kind = "profile" /\ ProfileAnswered(c, ok)
  <2>1. CASE ok /\ c.as # None
    <3> DEFINE d == SessionsCall(cookie, project, None)
    <3>1. d \in Calls /\ d.kind = "sessions"
      BY <1>0, NewCalls DEF SessionsCall, Typed
    <3>2. /\ user' = c.as /\ screen' = "app" /\ UNCHANGED <<server, route, project, listed, chosen, chat>>
          /\ Rerender(Bag(c), Bag(d), loading \cup {"sessions"}, shown)
      BY <1>1, <2>1 DEF ProfileAnswered
    <3>3. c.as \in Anyone
      BY <1>0, CallShape
    <3> HIDE DEF d
    <3>4. c.kind \notin Prompting /\ c.kind \notin {"sessions", "details", "create"} /\ {d} # {}
      BY <1>1 DEF Prompting
    <3> QED BY <1>0, <3>1, <3>2, <3>3, <3>4, AnswerStep DEF Typed, server
  <2>2. CASE ~ ok
    <3>1. /\ screen' = "login" /\ UNCHANGED <<server, user, route, project, listed, chosen, chat>>
          /\ Rerender(Bag(c), EmptyBag, loading, shown)
      BY <1>1, <2>2 DEF ProfileAnswered
    <3>2. c.kind \notin Prompting /\ c.kind \notin {"sessions", "details", "create"}
      BY <1>1 DEF Prompting
    <3> QED BY <1>0, <3>1, <3>2, AnswerStep DEF Typed, server
  <2> QED BY <1>1, <2>1, <2>2 DEF ProfileAnswered
<1>2. CASE c.kind = "login" /\ LoginAnswered(c, ok)
  <2>0. c.name \in Users
    BY <1>0, <1>2, CallShape
  <2>1. Typed' /\ chat' = chat /\ loading' = loading
    BY <1>0, <1>2, <2>0 DEF LoginAnswered, Typed, Anyone
  <2>2. CASE ok
    <3> DEFINE d == [kind |-> "profile", as |-> c.name]
    <3>1. d \in Calls /\ d.kind = "profile"
      BY <2>0, NewCalls DEF Anyone
    <3>2. calls' = (calls (-) Bag(c)) (+) Bag(d)
      BY <1>2, <2>2 DEF LoginAnswered
    <3> HIDE DEF d
    <3>3. Effect({c}, {d})
      BY <1>0, <3>1, <3>2, EndedAndSent
    <3>4. FlagStep({c}, {d}) /\ ChatStep({c}, {d})
      BY <1>2, <2>1, <3>1 DEF FlagStep, ChatStep, ChatKept, Prompting
    <3> QED BY <2>1, <3>3, <3>4 DEF Step
  <2>3. CASE ~ ok
    <3>1. calls' = calls (-) Bag(c)
      BY <1>0, <1>2, <2>3, BagMinus, BagOfNone DEF LoginAnswered
    <3>2. Effect({c}, {})
      BY <1>0, <3>1, Ended
    <3>3. FlagStep({c}, {}) /\ ChatStep({c}, {})
      BY <1>2, <2>1 DEF FlagStep, ChatStep, ChatKept, Prompting
    <3> QED BY <2>1, <3>2, <3>3 DEF Step
  <2> QED BY <2>2, <2>3
<1>3. CASE c.kind = "logout" /\ LogoutAnswered(c, ok)
  <2>1. /\ cookie' \in {cookie, None} /\ user' = None /\ listed' = {} /\ chosen' = None /\ screen' = "login"
        /\ chat' = chat /\ UNCHANGED <<home, route, project>> /\ Rerender(Bag(c), EmptyBag, loading, None)
    BY <1>3 DEF LogoutAnswered, ResetChat
  <2>2. c.kind \notin Prompting /\ c.kind \notin {"sessions", "details", "create"} /\ None \in Anyone
    BY <1>3 DEF Prompting, Anyone
  <2> QED BY <1>0, <2>1, <2>2, AnswerStep DEF Typed
<1>4. CASE c.kind = "sessions" /\ SessionsAnswered(c, ok)
  <2>1. /\ UNCHANGED <<server, user, screen, route, project, chat>>
        /\ Rerender(Bag(c), EmptyBag, loading \ {"sessions"}, shown)
    BY <1>4 DEF SessionsAnswered, Finally
  <2>2. listed' \subseteq Sessions /\ chosen' \in Sessions \cup {None}
    <3>1. ListChatSessions(c) \subseteq Sessions
      BY DEF ListChatSessions
    <3>2. \A S \in SUBSET Sessions : \A p : PickSession(S, p) \subseteq Sessions \cup {None}
      BY DEF PickSession
    <3> QED BY <1>0, <1>4, <3>1, <3>2 DEF SessionsAnswered, Typed
  <2>3. c.kind \notin Prompting
    BY <1>4 DEF Prompting
  <2> QED BY <1>0, <1>4, <2>1, <2>2, <2>3, AnswerStep DEF Typed, server
<1>5. CASE c.kind = "details" /\ DetailsAnswered(c, ok)
  <2>1. /\ calls' = calls (-) Bag(c) /\ loading' = loading \ {"details"} /\ shown' \in {c.session, shown}
        /\ UNCHANGED <<server, user, screen, route, project, listed, chosen, chat>>
    BY <1>5 DEF DetailsAnswered, Finally
  <2>2. Typed'
    BY <1>0, <1>5, <2>1, CallShape DEF Typed, server
  <2>3. FlagStep({c}, {}) /\ ChatStep({c}, {})
    BY <1>5, <2>1 DEF FlagStep, ChatStep, ChatKept, Prompting
  <2> QED BY <1>0, <2>1, <2>2, <2>3, Ended DEF Step
<1>6. CASE c.kind = "mutation" /\ MutationAnswered(c, ok)
  <2> DEFINE d == DetailsCall(cookie, c.session)
  <2>1. d \in Calls /\ d.kind = "details"
    BY <1>0, <1>6, CallShape, NewCalls DEF DetailsCall, Typed
  <2>2. /\ loading' = IF ok THEN loading \cup {"details"} ELSE loading
        /\ calls' = (calls (-) Bag(c)) (+) (IF ok THEN Bag(d) ELSE EmptyBag)
        /\ UNCHANGED <<server, user, screen, route, project, listed, chosen, shown, chat>>
    BY <1>6 DEF MutationAnswered
  <2> HIDE DEF d
  <2>3. Typed'
    BY <1>0, <2>2 DEF Typed, server, Flags
  <2>4. CASE ok
    <3>1. Effect({c}, {d})
      BY <1>0, <2>1, <2>2, <2>4, EndedAndSent
    <3>2. FlagStep({c}, {d}) /\ ChatStep({c}, {d})
      BY <1>6, <2>1, <2>2, <2>4 DEF FlagStep, ChatStep, ChatKept, Prompting
    <3> QED BY <2>3, <3>1, <3>2 DEF Step
  <2>5. CASE ~ ok
    <3>1. calls' = calls (-) Bag(c)
      BY <1>0, <2>2, <2>5, BagMinus, BagOfNone
    <3>2. Effect({c}, {})
      BY <1>0, <3>1, Ended
    <3>3. FlagStep({c}, {}) /\ ChatStep({c}, {})
      BY <1>6, <2>2, <2>5 DEF FlagStep, ChatStep, ChatKept, Prompting
    <3> QED BY <2>3, <3>2, <3>3 DEF Step
  <2> QED BY <2>4, <2>5
<1>7. CASE c.kind = "create" /\ CreateAnswered(c, ok)
  <2>1. /\ UNCHANGED <<cookie, user, screen, route, project>>
        /\ Rerender(Bag(c), EmptyBag, loading \ {"creating"}, shown)
        /\ chat' = chat \/ chat' = [chat EXCEPT !.composer = None]
    BY <1>7 DEF CreateAnswered, Finally
  <2>2. home' \in [Sessions -> Homes \cup {None}] /\ listed' \subseteq Sessions /\ chosen' \in Sessions \cup {None}
    <3>1. CASE ok
      <4>1. c.as \in Users /\ c.project \in Projects
        BY <1>0, <1>7, <3>1, CallShape DEF CreateAnswered, Anyone
      <4>2. PICK s \in Sessions : Created(s, c.as, c.project)
        BY <1>7, <3>1 DEF CreateAnswered
      <4> QED BY <1>0, <4>1, <4>2, CreatedTypes
    <3>2. CASE ~ ok
      BY <1>0, <1>7, <3>2 DEF CreateAnswered, Typed
    <3> QED BY <3>1, <3>2
  <2>3. c.kind \notin Prompting
    BY <1>7 DEF Prompting
  <2> QED BY <1>0, <1>7, <2>1, <2>2, <2>3, AnswerStep DEF Typed
<1>8. CASE c.kind = "continue" /\ ContinueAnswered(c, ok)
  <2>1. /\ UNCHANGED <<cookie, user, screen, project, chat>> /\ route' \in {route, None}
        /\ Rerender(Bag(c), EmptyBag, loading, shown)
    BY <1>8 DEF ContinueAnswered
  <2>2. home' \in [Sessions -> Homes \cup {None}] /\ listed' \subseteq Sessions /\ chosen' \in Sessions \cup {None}
    <3>1. CASE ok
      <4>1. c.as \in Users /\ home[c.session].project \in Projects
        BY <1>0, <1>8, <3>1, CallShape, HomeTypes DEF ContinueAnswered
      <4>2. PICK s \in Sessions : Created(s, c.as, home[c.session].project)
        BY <1>8, <3>1 DEF ContinueAnswered
      <4> QED BY <1>0, <4>1, <4>2, CreatedTypes
    <3>2. CASE ~ ok
      BY <1>0, <1>8, <3>2 DEF ContinueAnswered, Typed
    <3> QED BY <3>1, <3>2
  <2>3. c.kind \notin Prompting /\ c.kind \notin {"sessions", "details", "create"}
    BY <1>8 DEF Prompting
  <2> QED BY <1>0, <2>1, <2>2, <2>3, AnswerStep DEF Typed
<1>9. CASE c.kind = "refresh" /\ RefreshAnswered(c, ok)
  <2>1. /\ calls' = calls (-) Bag(c) /\ loading' = loading \ {"details"} /\ shown' \in {c.session, shown}
        /\ chat' = [chat EXCEPT !.sending = FALSE, !.pending = None, !.streamed = FALSE]
        /\ UNCHANGED <<server, user, screen, route, project, listed, chosen>>
    BY <1>9 DEF RefreshAnswered, Finally
  <2>2. Typed' /\ chat \in ChatStates
    BY <1>0, <1>9, <2>1, CallShape, ChatTypes DEF Typed, server
  <2>3. PromptOver
    BY <2>1, <2>2 DEF PromptOver, ChatStates
  <2>4. FlagStep({c}, {}) /\ ChatStep({c}, {})
    BY <1>9, <2>1, <2>3 DEF FlagStep, ChatStep, Prompting
  <2> QED BY <1>0, <2>1, <2>2, <2>4, Ended DEF Step
<1> QED BY <1>1, <1>2, <1>3, <1>4, <1>5, <1>6, <1>7, <1>8, <1>9 DEF Answered

LEMMA StreamStep ==
    ASSUME TypeOK, NEW c \in BagToSet(calls), c.kind = "stream", StreamChunk(c) \/ StreamEnds(c) \/ StreamFails(c)
    PROVE  \E E, T : Step(E, T)
<1>0. /\ Typed /\ IsABag(calls) /\ c \in Calls /\ chat \in ChatStates
      /\ c.session \in Sessions /\ c.prompt \in Prompts
  BY Types, CallShape DEF Typed
<1>1. CASE StreamChunk(c)
  <2>1. /\ chat' = [chat EXCEPT !.streamed = TRUE]
        /\ UNCHANGED <<server, user, screen, route, project, listed, chosen, shown, loading, calls>>
    BY <1>1 DEF StreamChunk
  <2>2. Typed'
    BY <1>0, <2>1, ChatTypes DEF Typed, server
  <2>3. Effect({}, {})
    BY <1>0, <2>1, NothingChanged DEF Effect
  <2>4. FlagStep({}, {}) /\ ChatStep({}, {})
    BY <2>1 DEF FlagStep, ChatStep, InFlight
  <2> QED BY <2>2, <2>3, <2>4 DEF Step
<1>2. CASE StreamEnds(c)
  <2> DEFINE d == [kind |-> "refresh", as |-> cookie, session |-> c.session, prompt |-> c.prompt]
  <2>1. d \in Calls /\ d.kind = "refresh" /\ d.prompt = c.prompt
    BY <1>0, NewCalls DEF Typed
  <2>2. /\ loading' = loading \cup {"details"} /\ calls' = (calls (-) Bag(c)) (+) Bag(d)
        /\ UNCHANGED <<server, user, screen, route, project, listed, chosen, shown, chat>>
    BY <1>2 DEF StreamEnds
  <2> HIDE DEF d
  <2>3. Typed'
    BY <1>0, <2>2 DEF Typed, server, Flags
  <2>4. FlagStep({c}, {d}) /\ ChatStep({c}, {d})
    BY <2>1, <2>2 DEF FlagStep, ChatStep
  <2> QED BY <1>0, <2>1, <2>2, <2>3, <2>4, EndedAndSent DEF Step
<1>3. CASE StreamFails(c)
  <2>1. /\ calls' = calls (-) Bag(c) /\ chat' = FinalizePromptStreamError(chat, c.prompt)
        /\ UNCHANGED <<server, user, screen, route, project, listed, chosen, shown, loading>>
    BY <1>3 DEF StreamFails
  <2>2. Typed'
    BY <1>0, <2>1, ChatTypes DEF Typed, server
  <2>3. PromptOver
    BY <1>0, <2>1 DEF PromptOver, ChatStates, FinalizePromptStreamError
  <2>4. FlagStep({c}, {}) /\ ChatStep({c}, {})
    BY <2>1, <2>3 DEF FlagStep, ChatStep, Prompting
  <2> QED BY <1>0, <2>1, <2>2, <2>4, Ended DEF Step
<1> QED BY <1>1, <1>2, <1>3

LEMMA MountedStep ==
    ASSUME TypeOK, Mounted
    PROVE  \E E, T : Step(E, T)
<1>1. CASE Reply
  BY <1>1, AnsweredStep, StreamStep DEF Reply, StreamCloses
<1>2. CASE Chunk
  BY <1>2, StreamStep DEF Chunk, InFlight
<1>3. CASE UserActs
  BY <1>3, UserStep
<1> QED BY <1>1, <1>2, <1>3 DEF Mounted

------------------------------------------------------------------------------
(* Unmounting and mounting.                                                *)

\* A workspace as it is mounted, or none: nothing is under way but, perhaps,
\* the call for the profile.
Fresh ==
    /\ Typed /\ chat = NewChat /\ loading = {}
    /\ IsABag(calls) /\ BagToSet(calls) \subseteq {c \in Calls : c.kind = "profile"}

LEMMA NewChatTypes == NewChat \in ChatStates
BY DEF NewChat, ChatStates

LEMMA NoCalls == IsABag(EmptyBag) /\ BagToSet(EmptyBag) = {}
BY DEF EmptyBag, SetToBag, IsABag, BagToSet

LEMMA ProfileCall ==
    ASSUME NEW a \in Anyone
    PROVE  /\ IsABag(Bag([kind |-> "profile", as |-> a]))
           /\ BagToSet(Bag([kind |-> "profile", as |-> a])) \subseteq {c \in Calls : c.kind = "profile"}
<1> DEFINE c == [kind |-> "profile", as |-> a]
<1>1. c \in Calls /\ c.kind = "profile"
  BY NewCalls
<1> HIDE DEF c
<1>2. IsABag(Bag(c)) /\ BagToSet(Bag(c)) \subseteq {d \in Calls : d.kind = "profile"}
  BY <1>1, BagOfOne
<1> QED BY <1>2 DEF c

LEMMA InitFresh == Init => Fresh /\ OrphansTyped
<1> SUFFICES ASSUME Init PROVE Fresh /\ OrphansTyped
  OBVIOUS
<1>1. cookie \in Anyone /\ calls = Bag([kind |-> "profile", as |-> cookie])
  BY DEF Init, Anyone
<1>2. Typed
  BY NewChatTypes, WorkspaceAssumption DEF Init, Typed, Anyone
<1>3. OrphansTyped
  BY NoCalls DEF Init, OrphansTyped
<1> QED BY <1>1, <1>2, <1>3, ProfileCall DEF Init, Fresh

LEMMA LeaveFresh ==
    ASSUME TypeOK, Leave
    PROVE  Fresh' /\ OrphansTyped'
<1>0. Typed /\ OrphansTyped /\ IsABag(calls) /\ BagToSet(calls) \subseteq Calls
  BY Types
<1>1. Fresh'
  <2>1. /\ calls' = EmptyBag /\ chat' = NewChat /\ loading' = {} /\ screen' = "away" /\ route' = None
        /\ user' = None /\ listed' = {} /\ chosen' = None /\ shown' = None /\ UNCHANGED <<cookie, home, project>>
    BY DEF Leave, Defaults, server
  <2>2. Typed'
    BY <1>0, <2>1, NewChatTypes DEF Typed, Anyone
  <2> QED BY <2>1, <2>2, NoCalls DEF Fresh, NewChat
<1>2. OrphansTyped'
  <2> DEFINE left == [c \in InFlight(Lingering) |-> calls[c]]
  <2>1. IsABag(left) /\ BagToSet(left) \subseteq {c \in Calls : c.kind \in Lingering}
    BY <1>0 DEF IsABag, BagToSet, InFlight
  <2>2. orphans' = orphans (+) left
    BY DEF Leave
  <2> HIDE DEF left
  <2>3. IsABag(orphans') /\ BagToSet(orphans') = BagToSet(orphans) \cup BagToSet(left)
    BY <1>0, <2>1, <2>2 DEF IsABag, BagToSet, (+), OrphansTyped
  <2> QED BY <1>0, <2>1, <2>3 DEF OrphansTyped
<1> QED BY <1>1, <1>2

LEMMA MountFresh ==
    ASSUME TypeOK, NEW r \in Sessions \cup {None}, Mount(r),
           cookie' = cookie, home' \in [Sessions -> Homes \cup {None}]
    PROVE  Fresh'
<1>1. Typed
  BY Types
<1>2. /\ calls' = Bag([kind |-> "profile", as |-> cookie]) /\ chat' = NewChat /\ loading' = {}
      /\ screen' = "app" /\ route' = r /\ user' = None /\ listed' = {} /\ chosen' = None /\ shown' = None
      /\ project' = project
  BY DEF Mount, Defaults
<1>3. Typed'
  BY <1>1, <1>2, NewChatTypes DEF Typed, Anyone
<1>4. cookie \in Anyone
  BY <1>1 DEF Typed
<1> QED BY <1>2, <1>3, <1>4, ProfileCall DEF Fresh, NewChat

LEMMA OrphanStep ==
    ASSUME TypeOK, Orphaned
    PROVE  (Fresh' \/ \E E, T : Step(E, T)) /\ OrphansTyped'
<1>0. Typed /\ OrphansTyped /\ IsABag(calls)
  BY Types
<1>1. PICK c \in BagToSet(orphans), ok \in BOOLEAN : OrphanAnswered(c, ok) \/ OrphanContinued(c, ok)
  BY DEF Orphaned
<1>2. c \in Calls /\ c.as \in Anyone
  BY <1>0, CallShape DEF OrphansTyped
<1>3. OrphansTyped'
  <2>1. orphans' = orphans (-) Bag(c)
    BY <1>1 DEF OrphanAnswered, OrphanContinued
  <2> QED BY <1>0, <2>1, BagMinus DEF OrphansTyped
<1>4. CASE OrphanAnswered(c, ok)
  <2>1. UNCHANGED <<user, screen, route, project, listed, chosen, shown, chat, loading, calls>>
    BY <1>4 DEF OrphanAnswered
  <2>2. cookie' \in Anyone /\ home' \in [Sessions -> Homes \cup {None}]
    <3>1. CASE c.kind \in {"login", "logout"}
      BY <1>0, <1>2, <1>4, <3>1, CallShape DEF OrphanAnswered, Typed, Anyone
    <3>2. CASE c.kind = "create" /\ ok
      <4>1. c.as \in Users /\ c.project \in Projects /\ cookie' = cookie
        BY <1>2, <1>4, <3>2, CallShape DEF OrphanAnswered, Anyone
      <4>2. PICK s \in Sessions : Stores(s, c.as, c.project)
        BY <1>4, <3>2 DEF OrphanAnswered
      <4> QED BY <1>0, <4>1, <4>2, StoresTypes DEF Typed
    <3>3. CASE c.kind = "create" /\ ~ ok
      BY <1>0, <1>4, <3>3 DEF OrphanAnswered, Typed
    <3> QED BY <1>4, <3>1, <3>2, <3>3 DEF OrphanAnswered
  <2>3. Typed'
    BY <1>0, <2>1, <2>2 DEF Typed
  <2>4. Effect({}, {})
    BY <1>0, <2>1, NothingChanged DEF Effect
  <2>5. FlagStep({}, {}) /\ ChatStep({}, {})
    BY <2>1 DEF FlagStep, ChatStep, ChatKept
  <2> QED BY <1>3, <2>3, <2>4, <2>5 DEF Step
<1>5. CASE OrphanContinued(c, ok)
  <2>1. cookie' = cookie /\ c.kind = "continue"
    BY <1>5 DEF OrphanContinued
  <2>2. home' \in [Sessions -> Homes \cup {None}]
    <3>1. CASE ok
      <4>1. c.as \in Users /\ home[c.session].project \in Projects
        BY <1>0, <1>2, <1>5, <2>1, <3>1, CallShape, HomeTypes DEF OrphanContinued
      <4>2. PICK s \in Sessions : Stores(s, c.as, home[c.session].project)
        BY <1>5, <3>1 DEF OrphanContinued
      <4> QED BY <1>0, <4>1, <4>2, StoresTypes
    <3>2. CASE ~ ok
      BY <1>0, <1>5, <3>2 DEF OrphanContinued, Typed
    <3> QED BY <3>1, <3>2
  <2>3. CASE c.leave /\ screen = "away"
    <3>1. Mount(None)
      BY <1>5, <2>3 DEF OrphanContinued
    <3> QED BY <1>3, <2>1, <2>2, <3>1, MountFresh
  <2>4. CASE ~ (c.leave /\ screen = "away")
    <3>1. /\ Rerender(EmptyBag, EmptyBag, loading, shown) /\ route' \in {route, None}
          /\ UNCHANGED <<user, screen, project, listed, chosen, chat>>
      BY <1>5, <2>4 DEF OrphanContinued
    <3>2. route' \in Sessions \cup {None} /\ chosen' \in Sessions \cup {None}
      BY <1>0, <3>1 DEF Typed
    <3> QED BY <1>3, <2>1, <2>2, <3>1, <3>2, SelectStep
  <2> QED BY <2>3, <2>4
<1> QED BY <1>1, <1>4, <1>5

\* Every step: of the workspace, or to a new one.
LEMMA NextStep ==
    ASSUME TypeOK, Next
    PROVE  (Fresh' \/ \E E, T : Step(E, T)) /\ OrphansTyped'
<1>0. Typed /\ OrphansTyped
  BY Types
<1>1. CASE Mounted /\ UNCHANGED orphans
  BY <1>0, <1>1, MountedStep DEF OrphansTyped
<1>2. CASE Leave
  BY <1>2, LeaveFresh
<1>3. ASSUME NEW r \in Sessions \cup {None}, Enter(r)
      PROVE  Fresh' /\ OrphansTyped'
  <2>1. Mount(r) /\ UNCHANGED <<cookie, home, orphans>>
    BY <1>3 DEF Enter, server
  <2> QED BY <1>0, <2>1, MountFresh DEF Typed, OrphansTyped
<1>4. CASE Orphaned
  BY <1>4, OrphanStep
<1> QED BY <1>1, <1>2, <1>3, <1>4 DEF Next

------------------------------------------------------------------------------
(* The invariants.                                                         *)

LEMMA StepTypes ==
    ASSUME TypeOK, NEW E, NEW T, Step(E, T), OrphansTyped'
    PROVE  TypeOK'
<1>1. IsABag(calls') /\ BagToSet(calls') \subseteq Calls
  BY Types DEF Step, Effect, Changed
<1>2. Typed'
  BY DEF Step
<1> QED BY <1>1, <1>2 DEF TypeOK, Typed, ChatStates, Anyone, OrphansTyped

LEMMA FreshTypes ==
    ASSUME Fresh, OrphansTyped
    PROVE  TypeOK
BY Types DEF Fresh

\* The workspace is always in one of the states the hooks declare, and every
\* call in flight is one that some handler of App.tsx sends.
THEOREM TypeCorrect == Spec => []TypeOK
<1>2. Init => TypeOK
  BY InitFresh, FreshTypes
<1>1. TypeOK /\ [Next]_vars => TypeOK'
  <2>1. ASSUME TypeOK, Next PROVE TypeOK'
    <3>1. CASE Fresh'
      BY <2>1, <3>1, NextStep DEF Fresh, TypeOK, Typed, ChatStates, Anyone, OrphansTyped
    <3>2. CASE \E E, T : Step(E, T)
      BY <2>1, <3>2, NextStep, StepTypes
    <3> QED BY <2>1, <3>1, <3>2, NextStep
  <2>2. ASSUME TypeOK, UNCHANGED vars PROVE TypeOK'
    BY <2>2 DEF TypeOK, vars
  <2> QED BY <2>1, <2>2
<1> QED BY <1>1, <1>2, PTL DEF Spec

LEMMA StepOneStream ==
    ASSUME TypeOK, OneStream, NEW E, NEW T, Step(E, T)
    PROVE  OneStream'
<1> DEFINE streams == InFlight(Prompting)
<1>0. /\ chat \in ChatStates /\ Prompting = {"stream", "refresh"}
      /\ Effect(E, T) /\ \A e \in E : e \in BagToSet(calls)
      /\ \A e \in BagToSet(calls) : e.kind \in Prompting => e \in streams
      /\ \A e \in streams : e \in BagToSet(calls) /\ e.kind \in Prompting
  BY Types DEF Typed, Step, Effect, InFlight, Prompting
<1>1. IF chat.sending
      THEN \E c \in streams : /\ streams = {c} /\ calls[c] = 1
                             /\ chat.pending = c.prompt /\ chat.lastPrompt = c.prompt
      ELSE streams = {} /\ chat.pending = None /\ ~ chat.streamed
  BY DEF OneStream, Prompting
<1>2. SUFFICES IF chat'.sending
               THEN \E c \in streams' : /\ streams' = {c} /\ calls'[c] = 1
                                       /\ chat'.pending = c.prompt /\ chat'.lastPrompt = c.prompt
               ELSE streams' = {} /\ chat'.pending = None /\ ~ chat'.streamed
  BY <1>2 DEF OneStream, Prompting
<1>3. CASE (\A e \in E \cup T : e.kind \notin Prompting) /\ ChatKept
  <2>1. streams' = streams /\ \A e \in streams : calls'[e] = calls[e]
    BY <1>0, <1>3, Untouched
  <2>2. /\ chat'.sending = chat.sending /\ chat'.pending = chat.pending
        /\ chat'.streamed = chat.streamed /\ chat'.lastPrompt = chat.lastPrompt
    BY <1>0, <1>3 DEF ChatKept, ChatStates
  <2> QED BY <1>1, <2>1, <2>2
<1>4. CASE E = {} /\ T = {} /\ InFlight({"stream"}) # {} /\ chat' = [chat EXCEPT !.streamed = TRUE]
  <2>1. streams' = streams /\ \A e \in streams : calls'[e] = calls[e]
    BY <1>0, <1>4, Untouched
  <2>2. streams # {}
    BY <1>4 DEF InFlight, Prompting
  <2>3. /\ chat'.sending = chat.sending /\ chat'.pending = chat.pending
        /\ chat'.lastPrompt = chat.lastPrompt
    BY <1>0, <1>4 DEF ChatStates
  <2> QED BY <1>1, <2>1, <2>2, <2>3
<1>5. ASSUME ~ chat.sending, E = {}, NEW d \in T, T = {d}, d.kind = "stream",
             chat' = BeginPromptStreaming(chat, d.prompt)
      PROVE  /\ chat'.sending /\ streams' = {d} /\ calls'[d] = 1
             /\ chat'.pending = d.prompt /\ chat'.lastPrompt = d.prompt
  <2>1. streams = {} /\ d \notin BagToSet(calls)
    BY <1>0, <1>1, <1>5
  <2>2. streams' = {d} /\ calls'[d] = 1
    BY <1>0, <1>5, <2>1 DEF Effect, Changed, InFlight
  <2> QED BY <1>5, <2>2 DEF BeginPromptStreaming
<1>6. ASSUME chat' = chat, NEW c \in E, NEW d \in T, E = {c}, c.kind = "stream",
             T = {d}, d.kind = "refresh", d.prompt = c.prompt
      PROVE  /\ chat'.sending /\ streams' = {d} /\ calls'[d] = 1
             /\ chat'.pending = d.prompt /\ chat'.lastPrompt = d.prompt
  <2>1. c \in streams
    BY <1>0, <1>6
  <2>2. chat.sending /\ streams = {c} /\ calls[c] = 1 /\ chat.pending = c.prompt /\ chat.lastPrompt = c.prompt
    BY <1>1, <2>1
  <2>3. d # c /\ d \notin BagToSet(calls)
    BY <1>0, <1>6, <2>2
  <2>4. streams' = {d} /\ calls'[d] = 1
    BY <1>0, <1>6, <2>2, <2>3 DEF Effect, Changed, InFlight
  <2> QED BY <1>6, <2>2, <2>4
<1>7. ASSUME PromptOver, T = {}, NEW c \in E, E = {c}, c.kind \in Prompting
      PROVE  ~ chat'.sending /\ streams' = {} /\ chat'.pending = None /\ ~ chat'.streamed
  <2>1. c \in streams
    BY <1>0, <1>7
  <2>2. streams = {c} /\ calls[c] = 1
    BY <1>1, <2>1
  <2>3. streams' = {}
    BY <1>0, <1>7, <2>2 DEF Effect, Changed, InFlight
  <2> QED BY <1>7, <2>3 DEF PromptOver
<1> HIDE DEF streams
<1>8. ChatStep(E, T)
  BY DEF Step
<1> QED BY <1>3, <1>4, <1>5, <1>6, <1>7, <1>8 DEF ChatStep

LEMMA FreshOneStream ==
    ASSUME Fresh
    PROVE  OneStream
<1>1. InFlight({"stream", "refresh"}) = {}
  BY DEF Fresh, InFlight
<1> QED BY <1>1 DEF Fresh, NewChat, OneStream

\* chatSending of the mounted AppScreen stands for exactly one prompt it has
\* under way (sendPrompt, finalizePromptStreamSuccess and
\* finalizePromptStreamError): whatever calls are in flight, in whatever order
\* they are answered and however often the screen is left and mounted again, a
\* workspace never runs two streams, and its bubbles are those of the one it runs.
THEOREM OneStreamHolds == Spec => []OneStream
<1>1. Init => OneStream
  BY InitFresh, FreshOneStream
<1>2. TypeOK /\ OneStream /\ [Next]_vars => OneStream'
  <2>1. ASSUME TypeOK, OneStream, Next PROVE OneStream'
    <3>1. CASE Fresh'
      BY <3>1, FreshOneStream, PTL
    <3>2. CASE \E E, T : Step(E, T)
      BY <2>1, <3>2, StepOneStream
    <3> QED BY <2>1, <3>1, <3>2, NextStep
  <2>2. ASSUME OneStream, UNCHANGED vars PROVE OneStream'
    BY <2>2 DEF OneStream, InFlight, vars
  <2> QED BY <2>1, <2>2
<1> QED BY <1>1, <1>2, TypeCorrect, PTL DEF Spec

\* finalizePromptStreamError puts a failed prompt back into the composer; the
\* composer is empty whenever it may do so, so no text of the user is lost.
THEOREM RestoreSafe == Spec => []RestoreOverwritesNothing
<1>1. Init => RestoreOverwritesNothing
  BY DEF Init, NewChat, RestoreOverwritesNothing
<1>2. TypeOK /\ RestoreOverwritesNothing /\ [Next]_vars => RestoreOverwritesNothing'
  <2>1. ASSUME TypeOK, RestoreOverwritesNothing, Next PROVE RestoreOverwritesNothing'
    <3>1. chat \in ChatStates
      BY <2>1, Types DEF Typed
    <3>2. CASE Fresh'
      BY <3>2 DEF Fresh, NewChat, RestoreOverwritesNothing
    <3>3. ASSUME NEW E, NEW T, Step(E, T) PROVE RestoreOverwritesNothing'
      <4>1. \/ ChatKept
            \/ chat' = [chat EXCEPT !.streamed = TRUE]
            \/ \E p : chat' = BeginPromptStreaming(chat, p)
            \/ chat' = chat
            \/ PromptOver
        BY <3>3 DEF Step, ChatStep
      <4> QED BY <2>1, <3>1, <4>1 DEF RestoreOverwritesNothing, ChatKept, PromptOver, BeginPromptStreaming, ChatStates
    <3> QED BY <2>1, <3>2, <3>3, NextStep
  <2>2. ASSUME RestoreOverwritesNothing, UNCHANGED vars PROVE RestoreOverwritesNothing'
    BY <2>2 DEF RestoreOverwritesNothing, vars
  <2> QED BY <2>1, <2>2
<1> QED BY <1>1, <1>2, TypeCorrect, PTL DEF Spec

------------------------------------------------------------------------------
(* Flags.                                                                  *)

\* What makes LoadingJustified inductive: creatingSession stands for exactly
\* one call.  With two of them the first answer would clear the flag of both.
OneCreate ==
    LET creates == InFlight({"create"})
    IN  IF "creating" \in loading
        THEN \E c \in creates : creates = {c} /\ calls[c] = 1
        ELSE creates = {}

LoadingInv ==
    /\ "sessions" \in loading => InFlight({"sessions"}) # {}
    /\ "details" \in loading => InFlight({"details", "refresh"}) # {}
    /\ OneCreate

\* A flag that a step sets or leaves set has its call after the step.
LEMMA FlagKept ==
    ASSUME NEW E, NEW T, Effect(E, T), NEW kinds,
           \/ InFlight(kinds) # {} /\ \A e \in E : e.kind \notin kinds
           \/ \E t \in T : t.kind \in kinds
    PROVE  InFlight(kinds)' # {}
BY DEF Effect, Changed, InFlight

LEMMA StepLoading ==
    ASSUME TypeOK, LoadingInv, NEW E, NEW T, Step(E, T)
    PROVE  LoadingInv'
<1>0. Effect(E, T) /\ FlagStep(E, T)
  BY DEF Step
<1>1. "sessions" \in loading' => InFlight({"sessions"})' # {}
  <2> SUFFICES ASSUME "sessions" \in loading' PROVE InFlight({"sessions"})' # {}
    OBVIOUS
  <2>1. \/ InFlight({"sessions"}) # {} /\ \A e \in E : e.kind \notin {"sessions"}
        \/ \E t \in T : t.kind \in {"sessions"}
    BY <1>0 DEF FlagStep, LoadingInv
  <2> QED BY <1>0, <2>1, FlagKept
<1>2. "details" \in loading' => InFlight({"details", "refresh"})' # {}
  <2> SUFFICES ASSUME "details" \in loading' PROVE InFlight({"details", "refresh"})' # {}
    OBVIOUS
  <2>1. \/ InFlight({"details", "refresh"}) # {} /\ \A e \in E : e.kind \notin {"details", "refresh"}
        \/ \E t \in T : t.kind \in {"details", "refresh"}
    BY <1>0 DEF FlagStep, LoadingInv
  <2> QED BY <1>0, <2>1, FlagKept
<1>3. OneCreate'
  <2> DEFINE creates == InFlight({"create"})
  <2>0. IF "creating" \in loading
        THEN \E c \in creates : creates = {c} /\ calls[c] = 1
        ELSE creates = {}
    BY DEF LoadingInv, OneCreate
  <2>a. SUFFICES IF "creating" \in loading'
                 THEN \E c \in creates' : creates' = {c} /\ calls'[c] = 1
                 ELSE creates' = {}
    BY <2>a DEF OneCreate
  <2>1. CASE (\A e \in E \cup T : e.kind # "create") /\ ("creating" \in loading' <=> "creating" \in loading)
    <3>1. creates' = creates /\ \A e \in creates : calls'[e] = calls[e]
      BY <1>0, <2>1, Untouched
    <3> QED BY <2>0, <2>1, <3>1
  <2>2. ASSUME E = {}, NEW t \in T, T = {t}, t.kind = "create", "creating" \notin loading
        PROVE  creates' = {t} /\ calls'[t] = 1
    <3>1. creates = {} /\ t \notin BagToSet(calls)
      BY <2>0, <2>2 DEF InFlight
    <3> QED BY <1>0, <2>2, <3>1 DEF Effect, Changed, InFlight
  <2>3. ASSUME NEW e \in E, E = {e}, e.kind = "create", \A t \in T : t.kind # "create"
        PROVE  creates' = {}
    <3>1. e \in creates
      BY <1>0, <2>3 DEF Effect, InFlight
    <3>2. creates = {e} /\ calls[e] = 1
      BY <2>0, <3>1
    <3> QED BY <1>0, <2>3, <3>2 DEF Effect, Changed, InFlight
  <2> HIDE DEF creates
  <2> QED BY <1>0, <2>1, <2>2, <2>3 DEF FlagStep
<1> QED BY <1>1, <1>2, <1>3 DEF LoadingInv

LEMMA FreshLoading ==
    ASSUME Fresh
    PROVE  LoadingInv
<1>1. InFlight({"create"}) = {} /\ loading = {}
  BY DEF Fresh, InFlight
<1> QED BY <1>1 DEF LoadingInv, OneCreate

\* No loader leaves its flag behind (the finally clauses of loadSessions,
\* loadSessionData and handleCreateSession): a button is disabled only while a
\* call is under way that will enable it again, and creatingSession is set
\* exactly as long as its call is.
THEOREM LoadingAlwaysJustified == Spec => []LoadingJustified
<1>1. Init => LoadingInv
  BY InitFresh, FreshLoading
<1>2. TypeOK /\ LoadingInv /\ [Next]_vars => LoadingInv'
  <2>1. ASSUME TypeOK, LoadingInv, Next PROVE LoadingInv'
    <3>1. CASE Fresh'
      BY <3>1, FreshLoading, PTL
    <3>2. CASE \E E, T : Step(E, T)
      BY <2>1, <3>2, StepLoading
    <3> QED BY <2>1, <3>1, <3>2, NextStep
  <2>2. ASSUME LoadingInv, UNCHANGED vars PROVE LoadingInv'
    BY <2>2 DEF LoadingInv, OneCreate, InFlight, vars
  <2> QED BY <2>1, <2>2
<1>3. LoadingInv => LoadingJustified
  BY DEF LoadingInv, OneCreate, LoadingJustified
<1> QED BY <1>1, <1>2, <1>3, TypeCorrect, PTL DEF Spec

==============================================================================
