---------------------------- MODULE SingleUseGrant ----------------------------
(***************************************************************************)
(* What an authorization code promises, whatever the endpoints do to keep  *)
(* the promise: it is granted once, for one user and one client; it is     *)
(* spent at most once; and a token can follow only a spent code, at most   *)
(* one, for that user and through that client.  A code may also be spent   *)
(* for nothing.                                                            *)
(***************************************************************************)
CONSTANTS Codes, Users, Clients, Tokens

VARIABLES
    granted,    \* <<code, user, client>> of every code granted
    spent,      \* codes that were redeemed, with or without success
    paid        \* <<token, <<code, user, client>>>> of every token handed out

grantVars == <<granted, spent, paid>>

Init == granted = {} /\ spent = {} /\ paid = {}

\* A code not granted before is granted to a user, for a client.
Grant(c, u, k) ==
    /\ \A g \in granted : g[1] # c
    /\ granted' = granted \cup {<<c, u, k>>}
    /\ UNCHANGED <<spent, paid>>

\* A granted code is spent, once.
Spend(c) ==
    /\ \E g \in granted : g[1] = c
    /\ c \notin spent
    /\ spent' = spent \cup {c}
    /\ UNCHANGED <<granted, paid>>

\* The token of a spent code, once.
Pay(i, g) ==
    /\ g \in granted
    /\ g[1] \in spent
    /\ \A p \in paid : p[1] # i /\ p[2][1] # g[1]
    /\ paid' = paid \cup {<<i, g>>}
    /\ UNCHANGED <<granted, spent>>

Next ==
    \/ \E c \in Codes, u \in Users, k \in Clients : Grant(c, u, k)
    \/ \E c \in Codes : Spend(c)
    \/ \E i \in Tokens, g \in granted : Pay(i, g)

Spec == Init /\ [][Next]_grantVars
==============================================================================
