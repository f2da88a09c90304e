--------------------------- MODULE OAuthCodeProofs ---------------------------
(***************************************************************************)
(* Proofs about OAuthCode, for every number of clients, codes, exchanges   *)
(* and every lifetime of a code.                                           *)
(*                                                                         *)
(* The argument: rows persist (a stored grant keeps its user, client,      *)
(* scope, challenge and URI, and a consumed one never changes), so what an *)
(* exchange read at validation is still true when it issues; and the       *)
(* conditional UPDATE lets one exchange per code past ConsumeCode.         *)
(***************************************************************************)
EXTENDS OAuthCode, TLAPS

Held == [validated : {TRUE}, code : Codes, client : Clients, record : CodeRecords]

\* What ConsumeCode leaves of a row.
Consumed(row, t) == [row EXCEPT !.consumedAt = t]

\* The parts of a row that a grant fixes.
SameGrant(r, s) ==
    /\ r.user = s.user
    /\ r.client = s.client
    /\ r.scope = s.scope
    /\ r.challenge = s.challenge
    /\ r.uri = s.uri

------------------------------------------------------------------------------
(* Rows.                                                                   *)

\* A stored row of any table is not the absent row.
LEMMA ClientRowExists == \A r \in ClientRecords : r # NoClient
<1>1. \A r \in ClientRecords : r.registered = TRUE
  BY DEF ClientRecords
<1>2. NoClient.registered = FALSE
  BY DEF NoClient
<1> QED BY <1>1, <1>2

LEMMA CodeRowExists == \A r \in CodeRecords : r # NoCode
<1>1. \A r \in CodeRecords : r.granted = TRUE
  BY DEF CodeRecords
<1>2. NoCode.granted = FALSE
  BY DEF NoCode
<1> QED BY <1>1, <1>2

LEMMA TokenRowExists == \A r \in TokenRecords : r # NoToken
<1>1. \A r \in TokenRecords : r.issued = TRUE
  BY DEF TokenRecords
<1>2. NoToken.issued = FALSE
  BY DEF NoToken
<1> QED BY <1>1, <1>2

LEMMA HeldExists == \A e \in Held : e # NoExchange
<1>1. \A e \in Held : e.validated = TRUE
  BY DEF Held
<1>2. NoExchange.validated = FALSE
  BY DEF NoExchange
<1> QED BY <1>1, <1>2

\* Consuming a row sets consumed_at and leaves the grant alone.
LEMMA ConsumedRow ==
    ASSUME NEW row \in CodeRecords, NEW t \in Nat
    PROVE  /\ Consumed(row, t) \in CodeRecords
           /\ Consumed(row, t).consumedAt # Never
           /\ SameGrant(Consumed(row, t), row)
<1>1. Consumed(row, t) \in CodeRecords
  BY DEF CodeRecords, Consumed
<1>2. Consumed(row, t).consumedAt = t
  BY DEF CodeRecords, Consumed
<1>3. t # Never
  BY DEF Never
<1>4. Consumed(row, t).user = row.user
  BY DEF CodeRecords, Consumed
<1>5. Consumed(row, t).client = row.client
  BY DEF CodeRecords, Consumed
<1>6. Consumed(row, t).scope = row.scope
  BY DEF CodeRecords, Consumed
<1>7. Consumed(row, t).challenge = row.challenge
  BY DEF CodeRecords, Consumed
<1>8. Consumed(row, t).uri = row.uri
  BY DEF CodeRecords, Consumed
<1> QED
  BY <1>1, <1>2, <1>3, <1>4, <1>5, <1>6, <1>7, <1>8 DEF SameGrant

\* The scope stored with a code is one of the two the token endpoint knows.
LEMMA ScopeIsNormal ==
    ASSUME NEW scope \in RequestedScopes
    PROVE  NormalizeScope(scope) \in {"read", "write"}
BY DEF RequestedScopes, NormalizeScope

------------------------------------------------------------------------------
(* What each step does, in terms of rows.                                  *)

LEMMA HeldByExchange ==
    ASSUME TypeOK, NEW x \in Exchanges, pc[x] # "idle"
    PROVE  exchange[x] \in Held /\ exchange[x].code \in Codes
<1>1. exchange[x] \in Held
  BY DEF TypeOK, Held
<1> QED BY <1>1 DEF Held

\* HandleRegister stores a well-formed row for an unused client id.
LEMMA RegisterStep ==
    ASSUME TypeOK, NEW k \in Clients, NEW uris \in SUBSET Uris, NEW method \in AuthMethods,
           HandleRegister(k, uris, method)
    PROVE  /\ clients' \in [Clients -> ClientRecords \cup {NoClient}]
           /\ \A d \in Clients : clients[d] # NoClient => clients'[d] = clients[d]
<1> DEFINE row == [registered |-> TRUE, uris |-> uris, method |-> method]
<1>1. row \in ClientRecords
  BY DEF HandleRegister, ClientRecords
<1>2. clients' = [clients EXCEPT ![k] = row] /\ clients[k] = NoClient
  BY DEF HandleRegister
<1> HIDE DEF row
<1> QED BY <1>1, <1>2 DEF TypeOK

\* HandleAuthorize stores an unconsumed grant of a registered client under a
\* code that was free.
LEMMA AuthorizeStep ==
    ASSUME TypeOK, NEW c \in Codes, NEW k \in Clients, NEW u \in Users, NEW uri \in Uris,
           NEW challenge \in Verifiers \cup {NoChallenge}, NEW scope \in RequestedScopes,
           HandleAuthorize(c, k, u, uri, challenge, scope)
    PROVE  \E row \in CodeRecords :
               /\ codes' = [codes EXCEPT ![c] = row]
               /\ row.client = k
               /\ row.user = u
               /\ row.uri = uri
               /\ row.consumedAt = Never
<1> DEFINE row == [granted |-> TRUE, client |-> k, user |-> u, uri |-> uri,
                   challenge |-> challenge, scope |-> NormalizeScope(scope),
                   expiresAt |-> now + CodeTTL, consumedAt |-> Never]
<1>1. now + CodeTTL \in Nat
  BY TTLAssumption DEF TypeOK
<1>2. row \in CodeRecords
  BY <1>1, ScopeIsNormal DEF CodeRecords
<1>3. codes' = [codes EXCEPT ![c] = row]
  BY DEF HandleAuthorize
<1>4. row.client = k /\ row.user = u /\ row.uri = uri /\ row.consumedAt = Never
  OBVIOUS
<1> HIDE DEF row
<1> QED BY <1>2, <1>3, <1>4

\* ConsumeCode either ends the exchange or sets consumed_at of the row it holds,
\* which was not consumed.
LEMMA ConsumeStep ==
    ASSUME TypeOK, HeldRowsAreCurrent, NEW x \in Exchanges, ConsumeCode(x)
    PROVE  \/ /\ Return(x)
              /\ codes' = codes
           \/ /\ codes[exchange[x].code] \in CodeRecords
              /\ codes[exchange[x].code].consumedAt = Never
              /\ codes' = [codes EXCEPT ![exchange[x].code] =
                             Consumed(codes[exchange[x].code], now)]
              /\ pc' = [pc EXCEPT ![x] = "issue"]
              /\ exchange' = exchange
<1>1. HeldRow(x)
  BY DEF ConsumeCode, HeldRowsAreCurrent
<1>2. codes[exchange[x].code] \in CodeRecords
  BY <1>1 DEF HeldRow
<1>3. CASE codes[exchange[x].code].consumedAt = Never
  BY <1>2, <1>3 DEF ConsumeCode, Consumed
<1>4. CASE codes[exchange[x].code].consumedAt # Never
  BY <1>4 DEF ConsumeCode
<1> QED BY <1>3, <1>4

\* IssueAccessToken stores, under a fresh id, a token for the code, the user,
\* the client and the scope the exchange holds.
LEMMA IssueStep ==
    ASSUME TypeOK, NEW x \in Exchanges, NEW i \in Tokens, IssueAccessToken(x, i)
    PROVE  \E tok \in TokenRecords :
               /\ tokens' = [tokens EXCEPT ![i] = tok]
               /\ tok.code = exchange[x].code
               /\ tok.owner = exchange[x].record.user
               /\ tok.client = exchange[x].client
               /\ tok.scope = exchange[x].record.scope
<1> DEFINE e == exchange[x]
           tok == [issued |-> TRUE, owner |-> e.record.user, client |-> e.client,
                   scope |-> e.record.scope, code |-> e.code]
<1>1. e \in Held
  BY HeldByExchange DEF IssueAccessToken
<1>2. e.record \in CodeRecords /\ e.code \in Codes /\ e.client \in Clients
  BY <1>1 DEF Held
<1>3. e.record.user \in Users /\ e.record.scope \in {"read", "write"}
  BY <1>2 DEF CodeRecords
<1>4. tok \in TokenRecords
  <2> HIDE DEF e
  <2> QED BY <1>2, <1>3 DEF TokenRecords
<1>5. tokens' = [tokens EXCEPT ![i] = tok]
  BY DEF IssueAccessToken
<1>6. /\ tok.code = exchange[x].code
      /\ tok.owner = exchange[x].record.user
      /\ tok.client = exchange[x].client
      /\ tok.scope = exchange[x].record.scope
  OBVIOUS
<1> HIDE DEF tok
<1> QED BY <1>4, <1>5, <1>6

\* An exchange that ends keeps the types and the promise that whoever is past
\* validation holds a row.
LEMMA ReturnStep ==
    ASSUME TypeOK, NEW x \in Exchanges, Return(x)
    PROVE  /\ pc' \in [Exchanges -> {"idle", "consume", "issue"}]
           /\ exchange' \in [Exchanges -> Held \cup {NoExchange}]
           /\ \A y \in Exchanges : pc'[y] # "idle" =>
                  /\ y # x
                  /\ pc'[y] = pc[y]
                  /\ exchange'[y] = exchange[y]
                  /\ exchange'[y] # NoExchange
BY DEF TypeOK, Return, Held

------------------------------------------------------------------------------

LEMMA InitTypeOK == Init => TypeOK
BY DEF Init, TypeOK

\* Rows, and what exchanges hold of them, keep their types.
LEMMA NextTypeOK == TypeOK /\ HeldRowsAreCurrent /\ [Next]_vars => TypeOK'
<1> SUFFICES ASSUME TypeOK, HeldRowsAreCurrent, [Next]_vars PROVE TypeOK'
  OBVIOUS
<1>1. ASSUME NEW k \in Clients, NEW uris \in SUBSET Uris, NEW method \in AuthMethods,
             HandleRegister(k, uris, method)
      PROVE  TypeOK'
  BY <1>1, RegisterStep DEF TypeOK, HandleRegister
<1>2. ASSUME NEW c \in Codes, NEW k \in Clients, NEW u \in Users, NEW uri \in Uris,
             NEW challenge \in Verifiers \cup {NoChallenge}, NEW scope \in RequestedScopes,
             HandleAuthorize(c, k, u, uri, challenge, scope)
      PROVE  TypeOK'
  <2> PICK row \in CodeRecords : codes' = [codes EXCEPT ![c] = row]
    BY <1>2, AuthorizeStep
  <2>1. codes' \in [Codes -> CodeRecords \cup {NoCode}]
    BY DEF TypeOK
  <2> QED
    BY <1>2, <2>1 DEF TypeOK, HandleAuthorize
<1>3. ASSUME NEW x \in Exchanges, NEW c \in Codes, NEW k \in Clients, NEW uri \in Uris,
             NEW verifier \in Verifiers, ValidateExchange(x, c, k, uri, verifier)
      PROVE  TypeOK'
  <2> DEFINE e == [validated |-> TRUE, code |-> c, client |-> k, record |-> codes[c]]
  <2>1. codes[c] \in CodeRecords
    BY <1>3 DEF TypeOK, ValidateExchange
  <2>2. e \in Held
    BY <2>1 DEF Held
  <2>3. exchange' = [exchange EXCEPT ![x] = e] /\ pc' = [pc EXCEPT ![x] = "consume"]
    BY <1>3 DEF ValidateExchange
  <2>4. e # NoExchange
    BY <2>2, HeldExists
  <2>5. UNCHANGED <<clients, codes, tokens, now>>
    BY <1>3 DEF ValidateExchange
  <2> HIDE DEF e
  <2>6. exchange' \in [Exchanges -> Held \cup {NoExchange}]
    BY <2>2, <2>3 DEF TypeOK, Held
  <2>7. \A y \in Exchanges : pc'[y] # "idle" => exchange'[y] # NoExchange
    BY <2>3, <2>4 DEF TypeOK
  <2> QED
    BY <2>3, <2>5, <2>6, <2>7 DEF TypeOK, Held
<1>4. ASSUME NEW x \in Exchanges, ConsumeCode(x)
      PROVE  TypeOK'
  <2>1. CASE Return(x) /\ codes' = codes
    BY <1>4, <2>1, ReturnStep DEF TypeOK, ConsumeCode, Held
  <2>2. CASE /\ codes[exchange[x].code] \in CodeRecords
             /\ codes' = [codes EXCEPT ![exchange[x].code] =
                            Consumed(codes[exchange[x].code], now)]
             /\ pc' = [pc EXCEPT ![x] = "issue"]
             /\ exchange' = exchange
    <3>1. exchange[x].code \in Codes /\ exchange[x] # NoExchange
      BY <1>4, HeldByExchange, HeldExists DEF ConsumeCode
    <3>2. Consumed(codes[exchange[x].code], now) \in CodeRecords
      BY <2>2, ConsumedRow DEF TypeOK
    <3>3. codes' \in [Codes -> CodeRecords \cup {NoCode}]
      BY <2>2, <3>1, <3>2 DEF TypeOK
    <3> QED
      BY <1>4, <2>2, <3>1, <3>3 DEF TypeOK, ConsumeCode
  <2> QED BY <1>4, <2>1, <2>2, ConsumeStep
<1>5. ASSUME NEW x \in Exchanges, NEW i \in Tokens, IssueAccessToken(x, i)
      PROVE  TypeOK'
  <2>1. tokens' \in [Tokens -> TokenRecords \cup {NoToken}]
    BY <1>5, IssueStep DEF TypeOK
  <2> QED
    BY <1>5, <2>1, ReturnStep DEF TypeOK, IssueAccessToken, Held
<1>6. ASSUME NEW x \in Exchanges, FailExchange(x)
      PROVE  TypeOK'
  BY <1>6, ReturnStep DEF TypeOK, FailExchange, Held
<1>7. CASE Tick
  <2>1. now' \in Nat
    BY <1>7 DEF TypeOK, Tick
  <2>2. UNCHANGED <<clients, codes, tokens, pc, exchange>>
    BY <1>7 DEF Tick
  <2> QED BY <2>1, <2>2 DEF TypeOK
<1>8. CASE UNCHANGED vars
  BY <1>8 DEF TypeOK, vars
<1> QED
  BY <1>1, <1>2, <1>3, <1>4, <1>5, <1>6, <1>7, <1>8 DEF Next

------------------------------------------------------------------------------
(* Rows persist.                                                           *)

\* A stored client never changes.
LEMMA ClientsPersist ==
    ASSUME TypeOK, [Next]_vars, NEW d \in Clients, clients[d] # NoClient
    PROVE  clients'[d] = clients[d]
<1>1. ASSUME NEW k \in Clients, NEW uris \in SUBSET Uris, NEW method \in AuthMethods,
             HandleRegister(k, uris, method)
      PROVE  clients'[d] = clients[d]
  BY <1>1, RegisterStep
<1>2. CASE UNCHANGED clients
  BY <1>2
<1> QED
  BY <1>1, <1>2 DEF Next, vars, HandleAuthorize, ValidateExchange, ConsumeCode,
       IssueAccessToken, FailExchange, Tick

\* A stored grant keeps its parts, and a consumed one does not change at all.
LEMMA CodesPersist ==
    ASSUME TypeOK, HeldRowsAreCurrent, [Next]_vars, NEW d \in Codes, codes[d] # NoCode
    PROVE  /\ codes[d] \in CodeRecords
           /\ codes'[d] \in CodeRecords
           /\ SameGrant(codes'[d], codes[d])
           /\ codes[d].consumedAt # Never => codes'[d] = codes[d]
<1>1. codes[d] \in CodeRecords
  BY DEF TypeOK
<1>2. CASE codes'[d] = codes[d]
  BY <1>1, <1>2 DEF SameGrant
<1>3. ASSUME NEW c \in Codes, NEW k \in Clients, NEW u \in Users, NEW uri \in Uris,
             NEW challenge \in Verifiers \cup {NoChallenge}, NEW scope \in RequestedScopes,
             HandleAuthorize(c, k, u, uri, challenge, scope)
      PROVE  codes'[d] = codes[d]
  <2>1. c # d
    BY <1>3 DEF HandleAuthorize
  <2>2. PICK row \in CodeRecords : codes' = [codes EXCEPT ![c] = row]
    BY <1>3, AuthorizeStep
  <2> QED BY <2>1, <2>2 DEF TypeOK
<1>4. ASSUME NEW x \in Exchanges, ConsumeCode(x), codes'[d] # codes[d]
      PROVE  /\ codes[d].consumedAt = Never
             /\ codes'[d] = Consumed(codes[d], now)
  <2>1. exchange[x].code \in Codes
    BY <1>4, HeldByExchange DEF ConsumeCode
  <2> QED BY <1>4, <2>1, ConsumeStep DEF TypeOK
<1>5. CASE codes[d].consumedAt = Never /\ codes'[d] = Consumed(codes[d], now)
  BY <1>1, <1>5, ConsumedRow DEF TypeOK
<1>6. CASE UNCHANGED codes
  BY <1>2, <1>6
<1> QED
  BY <1>2, <1>3, <1>4, <1>5, <1>6 DEF Next, vars, HandleRegister, ValidateExchange,
       IssueAccessToken, FailExchange, Tick

------------------------------------------------------------------------------
(* The inductive invariant.                                                *)

Inv == TypeOK /\ GrantInv /\ OneTokenPerCode /\ TokenMatchesGrant

LEMMA InitInv == Init => Inv
<1> SUFFICES ASSUME Init PROVE Inv
  OBVIOUS
<1>1. TypeOK
  BY InitTypeOK
<1>2. GrantInv
  BY DEF Init, GrantInv, HeldRowsAreCurrent, CodesAreOfClients, IssuesAlone
<1>3. \A i \in Tokens : ~ Issued(i)
  BY DEF Init, Issued
<1> QED
  BY <1>1, <1>2, <1>3 DEF Inv, OneTokenPerCode, TokenMatchesGrant

\* How an exchange is past validation after a step: it was before and holds
\* what it held, or it has just validated and holds the row it read.
LEMMA HeldOrValidated ==
    ASSUME TypeOK, HeldRowsAreCurrent, [Next]_vars, NEW y \in Exchanges, pc'[y] # "idle"
    PROVE  \/ /\ pc[y] # "idle"
              /\ exchange'[y] = exchange[y]
           \/ \E c \in Codes, k \in Clients, uri \in Uris, verifier \in Verifiers :
                  ValidateExchange(y, c, k, uri, verifier)
<1>1. ASSUME NEW x \in Exchanges, NEW c \in Codes, NEW k \in Clients, NEW uri \in Uris,
             NEW verifier \in Verifiers, ValidateExchange(x, c, k, uri, verifier), x # y
      PROVE  pc[y] = pc'[y] /\ exchange'[y] = exchange[y]
  BY <1>1 DEF ValidateExchange, TypeOK
<1>2. ASSUME NEW x \in Exchanges, Return(x)
      PROVE  pc[y] = pc'[y] /\ exchange'[y] = exchange[y]
  BY <1>2, ReturnStep
<1>3. ASSUME NEW x \in Exchanges, ConsumeCode(x)
      PROVE  pc[y] # "idle" /\ exchange'[y] = exchange[y]
  BY <1>2, <1>3 DEF ConsumeCode, TypeOK
<1>4. CASE UNCHANGED <<pc, exchange>>
  BY <1>4
<1> QED
  BY <1>1, <1>2, <1>3, <1>4 DEF Next, vars, HandleRegister, HandleAuthorize,
       IssueAccessToken, FailExchange, Tick

\* What an exchange holds stays current, because grants persist.
LEMMA HeldRowsPreserved ==
    ASSUME TypeOK, GrantInv, [Next]_vars
    PROVE  HeldRowsAreCurrent'
<1> SUFFICES ASSUME NEW y \in Exchanges, pc'[y] # "idle" PROVE HeldRow(y)'
  BY DEF HeldRowsAreCurrent
<1>0. HeldRowsAreCurrent
  BY DEF GrantInv
<1>1. CASE pc[y] # "idle" /\ exchange'[y] = exchange[y]
  <2> DEFINE c == exchange[y].code
  <2>1. c \in Codes
    BY <1>1, HeldByExchange
  <2>2. HeldRow(y)
    BY <1>0, <1>1 DEF HeldRowsAreCurrent
  <2>3. codes[c] # NoCode
    BY <2>2, CodeRowExists DEF HeldRow
  <2>4. codes'[c] \in CodeRecords /\ SameGrant(codes'[c], codes[c])
    BY <1>0, <2>1, <2>3, CodesPersist
  <2> QED
    BY <1>1, <2>2, <2>4 DEF HeldRow, SameGrant
<1>2. ASSUME NEW c \in Codes, NEW k \in Clients, NEW uri \in Uris, NEW verifier \in Verifiers,
             ValidateExchange(y, c, k, uri, verifier)
      PROVE  HeldRow(y)'
  <2> DEFINE e == [validated |-> TRUE, code |-> c, client |-> k, record |-> codes[c]]
  <2>1. exchange'[y] = e /\ codes' = codes
    BY <1>2 DEF ValidateExchange, TypeOK
  <2>2. codes[c] \in CodeRecords /\ codes[c].client = k /\ codes[c].challenge # NoChallenge
    BY <1>2 DEF ValidateExchange, ValidatePKCE, TypeOK
  <2>3. e.code = c /\ e.client = k /\ e.record = codes[c]
    OBVIOUS
  <2> HIDE DEF e
  <2> QED
    BY <2>1, <2>2, <2>3 DEF HeldRow
<1> QED
  BY <1>0, <1>1, <1>2, HeldOrValidated

\* A code is stored only for a registered client and one of its URIs, and
\* neither the client nor the code's URI changes.
LEMMA CodesOfClientsPreserved ==
    ASSUME TypeOK, GrantInv, [Next]_vars
    PROVE  CodesAreOfClients'
<1> SUFFICES ASSUME NEW d \in Codes, codes'[d] # NoCode
             PROVE  /\ clients'[codes'[d].client] # NoClient
                    /\ codes'[d].uri \in clients'[codes'[d].client].uris
  BY DEF CodesAreOfClients
<1>0. HeldRowsAreCurrent
  BY DEF GrantInv
<1>1. CASE codes[d] # NoCode
  <2>1. /\ clients[codes[d].client] # NoClient
        /\ codes[d].uri \in clients[codes[d].client].uris
    BY <1>1 DEF GrantInv, CodesAreOfClients
  <2>2. codes[d] \in CodeRecords /\ SameGrant(codes'[d], codes[d])
    BY <1>0, <1>1, CodesPersist
  <2>3. codes[d].client \in Clients
    BY <2>2 DEF CodeRecords
  <2>4. clients'[codes[d].client] = clients[codes[d].client]
    BY <2>1, <2>3, ClientsPersist
  <2> QED
    BY <2>1, <2>2, <2>4 DEF SameGrant
<1>2. ASSUME codes[d] = NoCode,
             NEW c \in Codes, NEW k \in Clients, NEW u \in Users, NEW uri \in Uris,
             NEW challenge \in Verifiers \cup {NoChallenge}, NEW scope \in RequestedScopes,
             HandleAuthorize(c, k, u, uri, challenge, scope)
      PROVE  /\ clients'[codes'[d].client] # NoClient
             /\ codes'[d].uri \in clients'[codes'[d].client].uris
  <2>1. PICK row \in CodeRecords :
            codes' = [codes EXCEPT ![c] = row] /\ row.client = k /\ row.uri = uri
    BY <1>2, AuthorizeStep
  <2>2. d = c /\ codes'[d] = row
    BY <1>2, <2>1 DEF TypeOK
  <2>3. clients' = clients /\ clients[k] # NoClient /\ uri \in clients[k].uris
    BY <1>2 DEF HandleAuthorize, RedirectURIAllowed
  <2> QED
    BY <2>1, <2>2, <2>3
<1>3. ASSUME codes[d] = NoCode, NEW x \in Exchanges, ConsumeCode(x)
      PROVE  codes'[d] = NoCode
  <2>1. exchange[x].code \in Codes
    BY <1>3, HeldByExchange DEF ConsumeCode
  <2> QED
    BY <1>0, <1>3, <2>1, ConsumeStep, CodeRowExists DEF TypeOK
<1>4. CASE UNCHANGED codes
  BY <1>1, <1>4
<1> QED
  BY <1>1, <1>2, <1>3, <1>4 DEF Next, vars, HandleRegister, ValidateExchange,
       IssueAccessToken, FailExchange, Tick

\* How an exchange is about to issue after a step: it was before, or its
\* conditional UPDATE has just found the code unconsumed.
LEMMA IssueOrConsumed ==
    ASSUME TypeOK, HeldRowsAreCurrent, [Next]_vars, NEW y \in Exchanges, pc'[y] = "issue"
    PROVE  \/ /\ pc[y] = "issue"
              /\ exchange'[y] = exchange[y]
           \/ /\ ConsumeCode(y)
              /\ codes[exchange[y].code].consumedAt = Never
<1>1. ASSUME NEW x \in Exchanges, NEW c \in Codes, NEW k \in Clients, NEW uri \in Uris,
             NEW verifier \in Verifiers, ValidateExchange(x, c, k, uri, verifier)
      PROVE  pc[y] = "issue" /\ exchange'[y] = exchange[y]
  BY <1>1 DEF ValidateExchange, TypeOK
<1>2. ASSUME NEW x \in Exchanges, Return(x)
      PROVE  pc[y] = "issue" /\ exchange'[y] = exchange[y]
  BY <1>2, ReturnStep
<1>3. ASSUME NEW x \in Exchanges, ConsumeCode(x)
      PROVE  \/ pc[y] = "issue" /\ exchange'[y] = exchange[y]
             \/ x = y /\ codes[exchange[y].code].consumedAt = Never
  BY <1>2, <1>3 DEF ConsumeCode, TypeOK
<1>4. CASE UNCHANGED <<pc, exchange>>
  BY <1>4
<1> QED
  BY <1>1, <1>2, <1>3, <1>4 DEF Next, vars, HandleRegister, HandleAuthorize,
       IssueAccessToken, FailExchange, Tick

\* Where an issued token comes from: it was there, or a step issues it.
LEMMA TokenOrIssued ==
    ASSUME TypeOK, [Next]_vars, NEW i \in Tokens, Issued(i)'
    PROVE  \/ Issued(i) /\ tokens'[i] = tokens[i]
           \/ \E x \in Exchanges : IssueAccessToken(x, i)
<1>1. ASSUME NEW x \in Exchanges, NEW j \in Tokens, IssueAccessToken(x, j), i # j
      PROVE  tokens'[i] = tokens[i]
  BY <1>1 DEF IssueAccessToken, TypeOK
<1>2. CASE tokens'[i] = tokens[i]
  BY <1>2 DEF Issued
<1> QED
  BY <1>1, <1>2 DEF Next, vars, HandleRegister, HandleAuthorize, ValidateExchange,
       ConsumeCode, FailExchange, Tick

\* An exchange at "issue" holds a spent code, before and after every step.
LEMMA IssueHoldsSpentCode ==
    ASSUME TypeOK, GrantInv, [Next]_vars, NEW y \in Exchanges, pc'[y] = "issue"
    PROVE  /\ exchange'[y] = exchange[y]
           /\ exchange[y].code \in Codes
           /\ codes'[exchange[y].code].consumedAt # Never
<1>0. HeldRowsAreCurrent
  BY DEF GrantInv
<1>1. CASE pc[y] = "issue" /\ exchange'[y] = exchange[y]
  <2>1. exchange[y].code \in Codes
    BY <1>1, HeldByExchange
  <2>2. HeldRow(y) /\ codes[exchange[y].code].consumedAt # Never
    BY <1>1 DEF GrantInv, HeldRowsAreCurrent, IssuesAlone
  <2>3. codes[exchange[y].code] # NoCode
    BY <2>2, CodeRowExists DEF HeldRow
  <2>4. codes'[exchange[y].code] = codes[exchange[y].code]
    BY <1>0, <2>1, <2>2, <2>3, CodesPersist
  <2> QED BY <1>1, <2>1, <2>2, <2>4
<1>2. CASE ConsumeCode(y)
  <2>1. exchange[y].code \in Codes
    BY <1>2, HeldByExchange DEF ConsumeCode
  <2>2. ~ Return(y)
    BY ReturnStep
  <2>3. /\ codes[exchange[y].code] \in CodeRecords
        /\ codes' = [codes EXCEPT ![exchange[y].code] =
                       Consumed(codes[exchange[y].code], now)]
        /\ exchange' = exchange
    BY <1>0, <1>2, <2>2, ConsumeStep
  <2>4. codes'[exchange[y].code] = Consumed(codes[exchange[y].code], now)
    BY <2>1, <2>3 DEF TypeOK
  <2> QED
    BY <2>1, <2>3, <2>4, ConsumedRow DEF TypeOK
<1> QED
  BY <1>0, <1>1, <1>2, IssueOrConsumed

\* The conditional UPDATE admits one exchange per code: of two exchanges at
\* "issue" for one code the second would have found the code consumed.
LEMMA IssuesAlonePreserved ==
    ASSUME TypeOK, GrantInv, TokenMatchesGrant, [Next]_vars
    PROVE  IssuesAlone'
<1>0. HeldRowsAreCurrent /\ IssuesAlone
  BY DEF GrantInv
<1>1. ASSUME NEW x \in Exchanges, pc'[x] = "issue"
      PROVE  /\ codes'[exchange'[x].code].consumedAt # Never
             /\ exchange'[x] = exchange[x]
             /\ exchange[x].code \in Codes
  BY <1>1, IssueHoldsSpentCode
<1>2. ASSUME NEW x \in Exchanges, pc'[x] = "issue", NEW y \in Exchanges, pc'[y] = "issue",
             exchange'[y].code = exchange'[x].code
      PROVE  x = y
  <2>1. exchange'[x] = exchange[x] /\ exchange'[y] = exchange[y]
    BY <1>1, <1>2
  <2>2. CASE pc[x] = "issue" /\ pc[y] = "issue"
    BY <1>0, <1>2, <2>1, <2>2 DEF IssuesAlone
  <2>3. CASE pc[x] = "issue" /\ codes[exchange[y].code].consumedAt = Never
    BY <1>0, <1>2, <2>1, <2>3 DEF IssuesAlone
  <2>4. CASE pc[y] = "issue" /\ codes[exchange[x].code].consumedAt = Never
    BY <1>0, <1>2, <2>1, <2>4 DEF IssuesAlone
  <2>5. CASE ConsumeCode(x) /\ ConsumeCode(y)
    <3>1. pc[y] = "consume"
      BY <2>5 DEF ConsumeCode
    <3>2. ~ Return(x)
      BY <1>2, ReturnStep
    <3>3. pc' = [pc EXCEPT ![x] = "issue"]
      BY <1>0, <2>5, <3>2, ConsumeStep
    <3> QED BY <1>2, <3>1, <3>3 DEF TypeOK
  <2> QED
    BY <1>0, <1>2, <2>2, <2>3, <2>4, <2>5, IssueOrConsumed
<1>3. ASSUME NEW x \in Exchanges, pc'[x] = "issue", NEW i \in Tokens, Issued(i)'
      PROVE  tokens'[i].code # exchange'[x].code
  <2>1. CASE Issued(i) /\ tokens'[i] = tokens[i]
    <3>1. CASE pc[x] = "issue"
      BY <1>0, <1>1, <1>3, <2>1, <3>1 DEF IssuesAlone
    <3>2. CASE codes[exchange[x].code].consumedAt = Never
      BY <1>1, <1>3, <2>1, <3>2 DEF TokenMatchesGrant
    <3> QED BY <1>0, <1>3, <3>1, <3>2, IssueOrConsumed
  <2>2. ASSUME NEW z \in Exchanges, IssueAccessToken(z, i)
        PROVE  tokens'[i].code # exchange'[x].code
    <3>1. PICK tok \in TokenRecords :
              tokens' = [tokens EXCEPT ![i] = tok] /\ tok.code = exchange[z].code
      BY <2>2, IssueStep
    <3>2. tokens'[i].code = exchange[z].code
      BY <3>1 DEF TypeOK
    <3>3. x # z /\ pc[x] = "issue" /\ pc[z] = "issue"
      BY <1>3, <2>2, ReturnStep DEF IssueAccessToken
    <3> QED
      BY <1>0, <1>1, <1>3, <3>2, <3>3 DEF IssuesAlone
  <2> QED BY <1>3, <2>1, <2>2, TokenOrIssued
<1> QED
  BY <1>1, <1>2, <1>3 DEF IssuesAlone

\* A second token for a code would come from an exchange that is not alone.
LEMMA OneTokenPreserved ==
    ASSUME TypeOK, GrantInv, OneTokenPerCode, [Next]_vars
    PROVE  OneTokenPerCode'
<1> SUFFICES ASSUME NEW i \in Tokens, NEW j \in Tokens, Issued(i)', Issued(j)',
                    tokens'[i].code = tokens'[j].code
             PROVE  i = j
  BY DEF OneTokenPerCode
<1>1. ASSUME NEW a \in Tokens, NEW b \in Tokens, NEW x \in Exchanges, IssueAccessToken(x, a),
             Issued(b), tokens'[b] = tokens[b]
      PROVE  tokens'[a].code # tokens'[b].code
  <2>1. PICK tok \in TokenRecords :
            tokens' = [tokens EXCEPT ![a] = tok] /\ tok.code = exchange[x].code
    BY <1>1, IssueStep
  <2>2. tokens'[a].code = exchange[x].code
    BY <2>1 DEF TypeOK
  <2>3. pc[x] = "issue"
    BY <1>1 DEF IssueAccessToken
  <2> QED
    BY <1>1, <2>2, <2>3 DEF GrantInv, IssuesAlone
<1>2. ASSUME NEW x \in Exchanges, NEW y \in Exchanges, IssueAccessToken(x, i),
             IssueAccessToken(y, j), i # j
      PROVE  FALSE
  <2>1. tokens[j] = NoToken
    BY <1>2 DEF IssueAccessToken
  <2>2. tokens'[j] = tokens[j]
    BY <1>2 DEF IssueAccessToken, TypeOK
  <2> QED BY <2>1, <2>2 DEF Issued
<1>3. CASE Issued(i) /\ tokens'[i] = tokens[i] /\ Issued(j) /\ tokens'[j] = tokens[j]
  BY <1>3 DEF OneTokenPerCode
<1> QED
  BY <1>1, <1>2, <1>3, TokenOrIssued

\* Tokens carry the stored grant: a new one because its exchange held the grant
\* that is still current, an old one because grants persist.
LEMMA TokenMatchesPreserved ==
    ASSUME TypeOK, GrantInv, TokenMatchesGrant, [Next]_vars, CodesAreOfClients'
    PROVE  TokenMatchesGrant'
<1> DEFINE Matches(tok, row) ==
        /\ row # NoCode
        /\ row.consumedAt # Never
        /\ row.user = tok.owner
        /\ row.client = tok.client
        /\ row.scope = tok.scope
        /\ row.challenge # NoChallenge
<1>0. HeldRowsAreCurrent
  BY DEF GrantInv
<1>1. ASSUME NEW i \in Tokens, Issued(i)'
      PROVE  tokens'[i].code \in Codes /\ Matches(tokens'[i], codes'[tokens'[i].code])
  <2>1. CASE Issued(i) /\ tokens'[i] = tokens[i]
    <3> DEFINE c == tokens[i].code
    <3>1. tokens[i] \in TokenRecords
      BY <2>1 DEF TypeOK, Issued
    <3>2. c \in Codes
      BY <3>1 DEF TokenRecords
    <3>3. Matches(tokens[i], codes[c])
      BY <2>1 DEF TokenMatchesGrant
    <3>4. codes'[c] = codes[c]
      BY <1>0, <3>2, <3>3, CodesPersist
    <3> QED BY <2>1, <3>2, <3>3, <3>4
  <2>2. ASSUME NEW x \in Exchanges, IssueAccessToken(x, i)
        PROVE  tokens'[i].code \in Codes /\ Matches(tokens'[i], codes'[tokens'[i].code])
    <3> DEFINE c == exchange[x].code
    <3>1. PICK tok \in TokenRecords :
              /\ tokens' = [tokens EXCEPT ![i] = tok]
              /\ tok.code = c
              /\ tok.owner = exchange[x].record.user
              /\ tok.client = exchange[x].client
              /\ tok.scope = exchange[x].record.scope
      BY <2>2, IssueStep
    <3>2. tokens'[i] = tok /\ c \in Codes
      BY <2>2, <3>1, HeldByExchange DEF TypeOK, IssueAccessToken
    <3>3. HeldRow(x) /\ codes[c].consumedAt # Never /\ codes' = codes
      BY <1>0, <2>2 DEF GrantInv, HeldRowsAreCurrent, IssuesAlone, IssueAccessToken
    <3>4. codes[c] # NoCode
      BY <3>3, CodeRowExists DEF HeldRow
    <3> QED BY <3>1, <3>2, <3>3, <3>4 DEF HeldRow
  <2> QED BY <1>1, <2>1, <2>2, TokenOrIssued
<1>2. ASSUME NEW i \in Tokens, Issued(i)'
      PROVE  codes'[tokens'[i].code].uri \in clients'[codes'[tokens'[i].code].client].uris
  BY <1>1, <1>2 DEF CodesAreOfClients
<1> QED
  BY <1>1, <1>2 DEF TokenMatchesGrant

LEMMA NextInv == Inv /\ [Next]_vars => Inv'
<1> SUFFICES ASSUME Inv, [Next]_vars PROVE Inv'
  OBVIOUS
<1>0. TypeOK /\ GrantInv /\ OneTokenPerCode /\ TokenMatchesGrant /\ HeldRowsAreCurrent
  BY DEF Inv, GrantInv
<1>1. TypeOK'
  BY <1>0, NextTypeOK
<1>2. HeldRowsAreCurrent'
  BY <1>0, HeldRowsPreserved
<1>3. CodesAreOfClients'
  BY <1>0, CodesOfClientsPreserved
<1>4. IssuesAlone'
  BY <1>0, IssuesAlonePreserved
<1>5. OneTokenPerCode'
  BY <1>0, OneTokenPreserved
<1>6. TokenMatchesGrant'
  BY <1>0, <1>3, TokenMatchesPreserved
<1> QED
  BY <1>1, <1>2, <1>3, <1>4, <1>5, <1>6 DEF Inv, GrantInv

LEMMA InvHolds == Spec => []Inv
BY InitInv, NextInv, PTL DEF Spec

------------------------------------------------------------------------------
(* The theorems.                                                           *)

\* Rows, and what exchanges hold of them, keep their types: in particular an
\* exchange past validation always has a validated row in hand.
THEOREM TypeCorrect == Spec => []TypeOK
BY InvHolds, PTL DEF Inv

\* The inductive invariant is one: an exchange about to issue a token is alone
\* with a spent code whose stored grant is the one it validated.
THEOREM GrantInvariant == Spec => []GrantInv
BY InvHolds, PTL DEF Inv

\* However many exchanges race for a code, HandleToken issues at most one token
\* for it.
THEOREM AtMostOneToken == Spec => []OneTokenPerCode
BY InvHolds, PTL DEF Inv

\* Every token carries the owner, client and scope granted at /authorize, with a
\* PKCE challenge and a redirect URI of the client.
THEOREM TokensMatchGrants == Spec => []TokenMatchesGrant
BY InvHolds, PTL DEF Inv

\* No step changes a consumed row, so a code spent by a failed exchange can
\* never be redeemed again.
THEOREM ConsumptionIsFinal == Spec => ConsumedIsFinal
<1>1. Inv /\ [Next]_vars =>
        [\A c \in Codes : codes[c] # NoCode /\ codes[c].consumedAt # Never
           => codes'[c] = codes[c]]_vars
  BY CodesPersist DEF Inv, GrantInv
<1> QED
  BY <1>1, InvHolds, PTL DEF Spec, ConsumedIsFinal

------------------------------------------------------------------------------
(* Refinement of SingleUseGrant.                                           *)

LEMMA InitRefines == Init => Grants!Init
<1> SUFFICES ASSUME Init PROVE Grants!Init
  OBVIOUS
<1>1. \A c \in Codes : codes[c] = NoCode
  BY DEF Init
<1>2. \A i \in Tokens : ~ Issued(i)
  BY DEF Init, Issued
<1> QED
  BY <1>1, <1>2 DEF Grants!Init, GrantedCodes, SpentCodes, PaidCodes

\* The mapping depends on the rows of codes and tokens only.
LEMMA MappingFrame ==
    ASSUME codes' = codes, tokens' = tokens
    PROVE  UNCHANGED Grants!grantVars
BY DEF Grants!grantVars, GrantedCodes, SpentCodes, PaidCodes, Issued

\* HandleAuthorize grants.
LEMMA AuthorizeGrants ==
    ASSUME Inv, NEW c \in Codes, NEW k \in Clients, NEW u \in Users, NEW uri \in Uris,
           NEW challenge \in Verifiers \cup {NoChallenge}, NEW scope \in RequestedScopes,
           HandleAuthorize(c, k, u, uri, challenge, scope)
    PROVE  Grants!Grant(c, u, k)
<1>1. PICK row \in CodeRecords :
          /\ codes' = [codes EXCEPT ![c] = row]
          /\ row.client = k
          /\ row.user = u
          /\ row.consumedAt = Never
  BY AuthorizeStep DEF Inv
<1>2. codes[c] = NoCode /\ tokens' = tokens
  BY DEF HandleAuthorize
<1>3. codes'[c] = row /\ row # NoCode /\ \A d \in Codes : d # c => codes'[d] = codes[d]
  BY <1>1, CodeRowExists DEF Inv, TypeOK
<1>4. \A g \in GrantedCodes : g[1] # c
  BY <1>2 DEF GrantedCodes
<1>5. GrantedCodes' = GrantedCodes \cup {<<c, u, k>>}
  <2>1. \A d \in Codes : codes'[d] # NoCode <=> d = c \/ codes[d] # NoCode
    BY <1>3
  <2>2. <<c, codes'[c].user, codes'[c].client>> = <<c, u, k>>
    BY <1>1, <1>3
  <2> QED BY <1>2, <1>3, <2>1, <2>2 DEF GrantedCodes
<1>6. SpentCodes' = SpentCodes
  BY <1>1, <1>2, <1>3 DEF SpentCodes
<1>7. PaidCodes' = PaidCodes
  BY <1>2 DEF PaidCodes, Issued
<1> QED
  BY <1>4, <1>5, <1>6, <1>7 DEF Grants!Grant

\* The conditional UPDATE spends, or changes nothing.
LEMMA ConsumeSpends ==
    ASSUME Inv, NEW x \in Exchanges, ConsumeCode(x)
    PROVE  \/ UNCHANGED Grants!grantVars
           \/ exchange[x].code \in Codes /\ Grants!Spend(exchange[x].code)
<1> DEFINE c == exchange[x].code
<1>0. TypeOK /\ HeldRowsAreCurrent
  BY DEF Inv, GrantInv
<1>1. tokens' = tokens
  BY DEF ConsumeCode
<1>2. CASE codes' = codes
  BY <1>1, <1>2, MappingFrame
<1>3. CASE /\ codes[c] \in CodeRecords
           /\ codes[c].consumedAt = Never
           /\ codes' = [codes EXCEPT ![c] = Consumed(codes[c], now)]
  <2>1. c \in Codes
    BY <1>0, HeldByExchange DEF ConsumeCode
  <2> HIDE DEF c
  <2>2. /\ codes'[c] = Consumed(codes[c], now)
        /\ \A d \in Codes : d # c => codes'[d] = codes[d]
    BY <1>0, <1>3, <2>1 DEF TypeOK
  <2>3. /\ codes[c] # NoCode
        /\ codes'[c] # NoCode
        /\ codes'[c].consumedAt # Never
        /\ codes'[c].user = codes[c].user
        /\ codes'[c].client = codes[c].client
    BY <1>0, <1>3, <2>2, ConsumedRow, CodeRowExists DEF TypeOK, SameGrant
  <2>4. GrantedCodes' = GrantedCodes
    <3>1. \A d \in Codes :
            /\ codes'[d] # NoCode <=> codes[d] # NoCode
            /\ codes[d] # NoCode => <<d, codes'[d].user, codes'[d].client>>
                                       = <<d, codes[d].user, codes[d].client>>
      BY <2>2, <2>3
    <3> QED BY <3>1 DEF GrantedCodes
  <2>5. SpentCodes' = SpentCodes \cup {c} /\ c \notin SpentCodes
    BY <1>3, <2>1, <2>2, <2>3 DEF SpentCodes
  <2>6. PaidCodes' = PaidCodes
    BY <1>1 DEF PaidCodes, Issued
  <2>7. <<c, codes[c].user, codes[c].client>> \in GrantedCodes
    BY <2>1, <2>3 DEF GrantedCodes
  <2>8. \E g \in GrantedCodes : g[1] = c
    BY <2>7
  <2>9. c \in Codes /\ Grants!Spend(c)
    BY <2>1, <2>4, <2>5, <2>6, <2>8 DEF Grants!Spend
  <2> QED BY <2>9 DEF c
<1> QED
  BY <1>0, <1>2, <1>3, ConsumeStep

\* issueAccessToken pays, for a grant that is spent and not paid yet.
LEMMA IssuePays ==
    ASSUME Inv, NEW x \in Exchanges, NEW i \in Tokens, IssueAccessToken(x, i)
    PROVE  \E g \in GrantedCodes : Grants!Pay(i, g)
<1> DEFINE c == exchange[x].code
           g == <<c, codes[c].user, codes[c].client>>
<1>0. TypeOK /\ HeldRow(x) /\ pc[x] = "issue" /\ codes' = codes /\ tokens[i] = NoToken
  BY DEF Inv, GrantInv, HeldRowsAreCurrent, IssueAccessToken
<1>1. c \in Codes /\ codes[c] # NoCode /\ codes[c].consumedAt # Never
  BY <1>0, HeldByExchange, CodeRowExists DEF HeldRow, Inv, GrantInv, IssuesAlone
<1>2. PICK tok \in TokenRecords :
          /\ tokens' = [tokens EXCEPT ![i] = tok]
          /\ tok.code = c
          /\ tok.owner = codes[c].user
          /\ tok.client = codes[c].client
  BY <1>0, IssueStep DEF HeldRow
<1>3. tokens'[i] = tok /\ tok # NoToken /\ \A j \in Tokens : j # i => tokens'[j] = tokens[j]
  BY <1>0, <1>2, TokenRowExists DEF TypeOK
<1>4. g \in GrantedCodes /\ g[1] = c /\ c \in SpentCodes
  BY <1>1 DEF GrantedCodes, SpentCodes
<1>5. \A j \in Tokens : Issued(j) => j # i /\ tokens[j].code # c
  BY <1>0 DEF Inv, GrantInv, IssuesAlone, Issued
<1>6. \A p \in PaidCodes : p[1] # i /\ p[2][1] # c
  BY <1>5 DEF PaidCodes
<1>7. PaidCodes' = PaidCodes \cup {<<i, g>>}
  <2>1. \A j \in Tokens : Issued(j)' <=> j = i \/ Issued(j)
    BY <1>3 DEF Issued
  <2>2. <<tokens'[i].code, tokens'[i].owner, tokens'[i].client>> = g
    BY <1>2, <1>3
  <2> HIDE DEF g
  <2> QED BY <1>3, <1>5, <2>1, <2>2 DEF PaidCodes
<1>8. GrantedCodes' = GrantedCodes /\ SpentCodes' = SpentCodes
  BY <1>0 DEF GrantedCodes, SpentCodes
<1>9. Grants!Pay(i, g)
  <2> HIDE DEF g, c
  <2> QED BY <1>4, <1>6, <1>7, <1>8 DEF Grants!Pay
<1> QED BY <1>4, <1>9

LEMMA NextRefines == Inv /\ [Next]_vars => [Grants!Next]_(Grants!grantVars)
<1> SUFFICES ASSUME Inv, [Next]_vars PROVE Grants!Next \/ UNCHANGED Grants!grantVars
  OBVIOUS
<1>1. ASSUME NEW c \in Codes, NEW k \in Clients, NEW u \in Users, NEW uri \in Uris,
             NEW challenge \in Verifiers \cup {NoChallenge}, NEW scope \in RequestedScopes,
             HandleAuthorize(c, k, u, uri, challenge, scope)
      PROVE  Grants!Next
  BY <1>1, AuthorizeGrants DEF Grants!Next
<1>2. ASSUME NEW x \in Exchanges, ConsumeCode(x)
      PROVE  Grants!Next \/ UNCHANGED Grants!grantVars
  BY <1>2, ConsumeSpends DEF Grants!Next
<1>3. ASSUME NEW x \in Exchanges, NEW i \in Tokens, IssueAccessToken(x, i)
      PROVE  Grants!Next
  BY <1>3, IssuePays DEF Grants!Next
<1>4. CASE codes' = codes /\ tokens' = tokens
  BY <1>4, MappingFrame
<1> QED
  BY <1>1, <1>2, <1>3, <1>4 DEF Next, vars, HandleRegister, ValidateExchange,
       FailExchange, Tick

\* The endpoints implement the single-use grant: every step of every
\* interleaving grants, spends or pays as SingleUseGrant allows, or does nothing
\* it can see.
THEOREM RefinesSingleUseGrant == Spec => ImplementsSingleUseGrant
BY InitRefines, NextRefines, InvHolds, PTL DEF Spec, Grants!Spec, ImplementsSingleUseGrant
==============================================================================
