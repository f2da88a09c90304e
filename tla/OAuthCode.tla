------------------------------ MODULE OAuthCode ------------------------------
(***************************************************************************)
(* The OAuth authorization-code flow of internal/oauth: dynamic client     *)
(* registration, /authorize and /token, over the tables of                 *)
(* internal/repository/oauth.go and mcp_token.go.                          *)
(*                                                                         *)
(* HandleToken reads the code and checks it, marks it consumed and inserts *)
(* the access token in three separate statements without a transaction, so *)
(* two exchanges of one code, the clock and a failure may come in between. *)
(* Requests that an endpoint refuses change nothing and are left out.      *)
(***************************************************************************)
EXTENDS Integers, FiniteSets

CONSTANTS
    Clients, Users, Uris,
    Codes,          \* authorization codes, unguessable and never reused
    Tokens,         \* token ids, fresh for every token
    Verifiers,      \* PKCE verifiers; a verifier stands for its S256 challenge
    Exchanges,      \* concurrent requests to the token endpoint
    CodeTTL,        \* resolveAuthorizationCodeTTL
    MaxTime         \* bound of the model

ASSUME TTLAssumption == CodeTTL \in Nat \ {0} /\ MaxTime \in Nat

VARIABLES
    clients,        \* oauth_clients
    codes,          \* oauth_authorization_codes
    tokens,         \* mcp_tokens that came from a code
    now,            \* the clock
    pc,             \* "idle" | "consume" | "issue", per exchange
    exchange        \* the code an exchange validated and the row it read

vars == <<clients, codes, tokens, now, pc, exchange>>

NoClient == [registered |-> FALSE]
NoCode == [granted |-> FALSE]
NoToken == [issued |-> FALSE]
NoChallenge == "no challenge"
NoExchange == [validated |-> FALSE]
Never == -1

AuthMethods == {"none", "client_secret_post"}
\* The scope parameter by what it asks for: nothing, mcp:read or other scopes
\* only, mcp:write (or an alias) among them.
RequestedScopes == {"empty", "read", "write"}

ClientRecords ==
    [registered : {TRUE}, uris : (SUBSET Uris) \ {{}}, method : AuthMethods]
CodeRecords ==
    [granted : {TRUE}, client : Clients, user : Users, uri : Uris,
     challenge : Verifiers \cup {NoChallenge}, scope : {"read", "write"},
     expiresAt : Nat, consumedAt : Nat \cup {Never}]
TokenRecords ==
    [issued : {TRUE}, owner : Users, client : Clients, scope : {"read", "write"},
     code : Codes]

------------------------------------------------------------------------------
(* Helpers of internal/oauth/service.go.                                   *)

\* NormalizeScope: no scope at all means mcp:write.
NormalizeScope(scope) == IF scope = "empty" THEN "write" ELSE scope

\* AuthorizationCodeIsActive
AuthorizationCodeIsActive(record) == record.consumedAt = Never /\ record.expiresAt > now

\* ValidatePKCE
ValidatePKCE(verifier, challenge) == challenge # NoChallenge /\ verifier = challenge

\* RedirectURIAllowed
RedirectURIAllowed(uri, client) == uri \in client.uris

------------------------------------------------------------------------------

Init ==
    /\ clients = [k \in Clients |-> NoClient]
    /\ codes = [c \in Codes |-> NoCode]
    /\ tokens = [i \in Tokens |-> NoToken]
    /\ now = 0
    /\ pc = [x \in Exchanges |-> "idle"]
    /\ exchange = [x \in Exchanges |-> NoExchange]

\* HandleRegister: at least one redirect URI, a fresh client id.
HandleRegister(k, uris, method) ==
    /\ clients[k] = NoClient
    /\ uris # {}
    /\ clients' = [clients EXCEPT ![k] = [registered |-> TRUE, uris |-> uris, method |-> method]]
    /\ UNCHANGED <<codes, tokens, now, pc, exchange>>

\* HandleAuthorize for a signed-in user.  A public client must send a
\* challenge, a confidential one may leave it out.
HandleAuthorize(c, k, u, uri, challenge, scope) ==
    /\ codes[c] = NoCode
    /\ clients[k] # NoClient
    /\ RedirectURIAllowed(uri, clients[k])
    /\ clients[k].method = "none" => challenge # NoChallenge
    /\ codes' = [codes EXCEPT ![c] =
         [granted |-> TRUE, client |-> k, user |-> u, uri |-> uri, challenge |-> challenge,
          scope |-> NormalizeScope(scope), expiresAt |-> now + CodeTTL, consumedAt |-> Never]]
    /\ UNCHANGED <<clients, tokens, now, pc, exchange>>

\* Mutant of ValidateExchange: the code's client is not compared.
ValidateExchangeOfAnyClient(x, c, k, uri, verifier) ==
    /\ pc[x] = "idle"
    /\ clients[k] # NoClient
    /\ codes[c] # NoCode
    /\ codes[c].uri = uri
    /\ AuthorizationCodeIsActive(codes[c])
    /\ ValidatePKCE(verifier, codes[c].challenge)
    /\ pc' = [pc EXCEPT ![x] = "consume"]
    /\ exchange' = [exchange EXCEPT ![x] =
         [validated |-> TRUE, code |-> c, client |-> k, record |-> codes[c]]]
    /\ UNCHANGED <<clients, codes, tokens, now>>

\* HandleToken up to its first write, resolveTokenExchangeContext: the client
\* proves itself, the code is looked up and checked against the request.
ValidateExchange(x, c, k, uri, verifier) ==
    /\ pc[x] = "idle"
    /\ clients[k] # NoClient
    /\ codes[c] # NoCode
    /\ codes[c].client = k
    /\ codes[c].uri = uri
    /\ AuthorizationCodeIsActive(codes[c])
    /\ ValidatePKCE(verifier, codes[c].challenge)
    /\ pc' = [pc EXCEPT ![x] = "consume"]
    /\ exchange' = [exchange EXCEPT ![x] =
         [validated |-> TRUE, code |-> c, client |-> k, record |-> codes[c]]]
    /\ UNCHANGED <<clients, codes, tokens, now>>

\* The request ends; what it had read is gone.
Return(x) ==
    /\ pc' = [pc EXCEPT ![x] = "idle"]
    /\ exchange' = [exchange EXCEPT ![x] = NoExchange]

\* Mutant of ConsumeCode: UPDATE without "consumed_at IS NULL".
ConsumeAgain(x) ==
    /\ pc[x] = "consume"
    /\ codes' = [codes EXCEPT ![exchange[x].code].consumedAt = now]
    /\ pc' = [pc EXCEPT ![x] = "issue"]
    /\ UNCHANGED <<clients, tokens, now, exchange>>

\* ConsumeOAuthAuthorizationCode: UPDATE ... WHERE consumed_at IS NULL.  No row
\* means another exchange was first: invalid_grant.
ConsumeCode(x) ==
    /\ pc[x] = "consume"
    /\ IF codes[exchange[x].code].consumedAt = Never
       THEN /\ codes' = [codes EXCEPT ![exchange[x].code].consumedAt = now]
            /\ pc' = [pc EXCEPT ![x] = "issue"]
            /\ UNCHANGED exchange
       ELSE /\ Return(x)
            /\ UNCHANGED codes
    /\ UNCHANGED <<clients, tokens, now>>

\* issueAccessToken: a fresh token for the user and the scope of the row read
\* at validation.
IssueAccessToken(x, i) ==
    /\ pc[x] = "issue"
    /\ tokens[i] = NoToken
    /\ tokens' = [tokens EXCEPT ![i] =
         [issued |-> TRUE, owner |-> exchange[x].record.user, client |-> exchange[x].client,
          scope |-> exchange[x].record.scope, code |-> exchange[x].code]]
    /\ Return(x)
    /\ UNCHANGED <<clients, codes, now>>

\* A statement fails or the client leaves.  A code already consumed stays so.
FailExchange(x) ==
    /\ pc[x] # "idle"
    /\ Return(x)
    /\ UNCHANGED <<clients, codes, tokens, now>>

Tick ==
    /\ now < MaxTime
    /\ now' = now + 1
    /\ UNCHANGED <<clients, codes, tokens, pc, exchange>>

Next ==
    \/ \E k \in Clients, uris \in SUBSET Uris, method \in AuthMethods :
         HandleRegister(k, uris, method)
    \/ \E c \in Codes, k \in Clients, u \in Users, uri \in Uris,
          challenge \in Verifiers \cup {NoChallenge}, scope \in RequestedScopes :
         HandleAuthorize(c, k, u, uri, challenge, scope)
    \/ \E x \in Exchanges, c \in Codes, k \in Clients, uri \in Uris, verifier \in Verifiers :
         ValidateExchange(x, c, k, uri, verifier)
    \/ \E x \in Exchanges : ConsumeCode(x)
    \/ \E x \in Exchanges, i \in Tokens : IssueAccessToken(x, i)
    \/ \E x \in Exchanges : FailExchange(x)
    \/ Tick

Spec == Init /\ [][Next]_vars

------------------------------------------------------------------------------
(* Properties.                                                             *)

\* Rows and the rows exchanges hold; an exchange past validation holds a row.
TypeOK ==
    /\ clients \in [Clients -> ClientRecords \cup {NoClient}]
    /\ codes \in [Codes -> CodeRecords \cup {NoCode}]
    /\ tokens \in [Tokens -> TokenRecords \cup {NoToken}]
    /\ now \in Nat
    /\ pc \in [Exchanges -> {"idle", "consume", "issue"}]
    /\ exchange \in [Exchanges ->
         [validated : {TRUE}, code : Codes, client : Clients, record : CodeRecords]
           \cup {NoExchange}]
    /\ \A x \in Exchanges : pc[x] # "idle" => exchange[x] # NoExchange

Issued(i) == tokens[i] # NoToken

\* However many exchanges present a code at the same time, at most one access
\* token comes of it (HandleToken, ConsumeOAuthAuthorizationCode).
OneTokenPerCode ==
    \A i, j \in Tokens :
        Issued(i) /\ Issued(j) /\ tokens[i].code = tokens[j].code => i = j

\* A token carries what the user granted at /authorize: its owner, client and
\* scope are the ones of the row now stored for its code, and that code is
\* spent and was granted with a PKCE challenge and a redirect URI of the client.
TokenMatchesGrant ==
    \A i \in Tokens : Issued(i) =>
        LET row == codes[tokens[i].code]
        IN  /\ row # NoCode
            /\ row.consumedAt # Never
            /\ row.user = tokens[i].owner
            /\ row.client = tokens[i].client
            /\ row.scope = tokens[i].scope
            /\ row.challenge # NoChallenge
            /\ row.uri \in clients[row.client].uris

\* What a validated exchange has in hand stays true while others run: the row
\* it read is still the grant stored for its code, made with a challenge and a
\* redirect URI of the client, so that a token issued much later is the one
\* that was asked for (resolveTokenExchangeContext reads, issueAccessToken uses).
HeldRow(x) ==
    LET e == exchange[x]
    IN  /\ codes[e.code] \in CodeRecords
        /\ codes[e.code].user = e.record.user
        /\ codes[e.code].client = e.client
        /\ codes[e.code].scope = e.record.scope
        /\ codes[e.code].challenge # NoChallenge

HeldRowsAreCurrent == \A x \in Exchanges : pc[x] # "idle" => HeldRow(x)

\* A stored code belongs to a registered client and to one of its redirect URIs
\* (validateAuthorizeRequest).
CodesAreOfClients ==
    \A c \in Codes : codes[c] # NoCode =>
        /\ clients[codes[c].client] # NoClient
        /\ codes[c].uri \in clients[codes[c].client].uris

\* An exchange about to issue a token is alone with its code: the code is spent,
\* no other exchange is about to issue for it and no token came of it yet.
IssuesAlone ==
    \A x \in Exchanges : pc[x] = "issue" =>
        /\ codes[exchange[x].code].consumedAt # Never
        /\ \A y \in Exchanges : pc[y] = "issue" /\ exchange[y].code = exchange[x].code => x = y
        /\ \A i \in Tokens : Issued(i) => tokens[i].code # exchange[x].code

\* The inductive invariant behind the two properties above: a token can be
\* issued only while its exchange alone holds a spent, current grant.
GrantInv == HeldRowsAreCurrent /\ CodesAreOfClients /\ IssuesAlone

\* A code whose exchange failed after consumption is spent for good: once
\* consumed, a row never changes.
ConsumedIsFinal ==
    [][\A c \in Codes : codes[c] # NoCode /\ codes[c].consumedAt # Never
         => codes'[c] = codes[c]]_vars

------------------------------------------------------------------------------
(* The promise of SingleUseGrant.                                          *)

GrantedCodes == {<<c, codes[c].user, codes[c].client>> : c \in {d \in Codes : codes[d] # NoCode}}
SpentCodes == {c \in Codes : codes[c] # NoCode /\ codes[c].consumedAt # Never}
PaidCodes ==
    {<<i, <<tokens[i].code, tokens[i].owner, tokens[i].client>>>> : i \in {j \in Tokens : Issued(j)}}

Grants == INSTANCE SingleUseGrant WITH granted <- GrantedCodes, spent <- SpentCodes, paid <- PaidCodes

\* The endpoints keep the promise of SingleUseGrant under every interleaving.
ImplementsSingleUseGrant == Grants!Spec
==============================================================================
