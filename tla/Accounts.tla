------------------------------ MODULE Accounts ------------------------------
(***************************************************************************)
(* Accounts, login tokens and personas of the FESL server: the handlers    *)
(* NuAddAccount, NuLogin/Login, NuLoginPersona and NuAddPersona of         *)
(* server/fesl/server.go over the tables of server/storage/storage.go.     *)
(*                                                                         *)
(* Every connection is served by one goroutine, which answers one request  *)
(* at a time; the goroutines share only the SQLite database.  No handler   *)
(* opens a transaction, so the atomic step is one SQL statement together   *)
(* with the Go code that follows it up to the next statement.  Any         *)
(* statement may fail (a busy or full database); the handler then answers  *)
(* errorCode 1 and what earlier statements wrote stays.                    *)
(*                                                                         *)
(* A rowid of accounts or personas is the position of the row in the table:*)
(* both are INTEGER PRIMARY KEY tables from which nothing is ever deleted. *)
(* 0 is "no row", as in the Go code.  Nuids and Names are identifiers the  *)
(* validators accept: a request they reject is answered without reading or *)
(* writing anything and would be a stuttering step.                        *)
(***************************************************************************)
EXTENDS Naturals, Sequences, FiniteSets

CONSTANTS Sessions,   \* connections the server may serve at one time
          Nuids,      \* account names
          Passwords,
          Names,      \* persona names
          Tokens,     \* login tokens the random generator may produce
          None        \* a field a request does not carry

ASSUME NoneAssumption == None \notin Nuids \cup Passwords \cup Names \cup Tokens

VARIABLES accounts,    \* table accounts: nuid, password, scheme of the hash
          personas,    \* table personas: account_id, name
          loginTokens, \* table login_tokens: token -> account_id, 0 = no row
          pc,          \* the statement the connection's handler executes next
          req,         \* the request being handled
          row,         \* account the NuLogin handler holds between statements
          accountID,   \* Session.accountID
          personaID,   \* Session.personaID
          \* history: what clients were told, never read by an action
          promised,    \* <<nuid, password>> of acknowledged NuAddAccounts
          granted,     \* <<account, name>> of acknowledged persona requests,
                       \* account 0 if the connection was not logged in
          logins,      \* accounts each connection has logged in as
          issued       \* token -> [account, session] it was generated for

tables  == <<accounts, personas, loginTokens>>
locals  == <<pc, req, row>>
session == <<accountID, personaID>>
history == <<promised, granted, logins, issued>>
vars    == <<tables, locals, session, history>>

-----------------------------------------------------------------------------
Schemes == {"plaintext", "pbkdf2"}

AccountRow == [nuid : Nuids, password : Passwords, scheme : Schemes]
PersonaRow == [account : Nat \ {0}, name : Names]

Request == [txn : {"None", "NuAddAccount", "NuLogin", "NuLoginPersona", "NuAddPersona"},
            nuid : Nuids \cup {None}, password : Passwords \cup {None},
            token : Tokens \cup {None}, keep : BOOLEAN,
            name : Names \cup {None},
            stale : BOOLEAN] \* history: the token was revoked before the request came

NoRequest == [txn |-> "None", nuid |-> None, password |-> None,
              token |-> None, keep |-> FALSE, name |-> None, stale |-> FALSE]

Statements == {"insertAccount", "selectNewAccount",
               "selectLogin", "upgradeHash", "reselectLogin",
               "deleteTokens", "insertToken", "selectToken", "touchToken",
               "selectPersona", "insertPersona", "reselectPersona"}

Busy(s) == pc[s] \in Statements

Unissued == [account |-> 0, session |-> None]
FreshTokens == {t \in Tokens : issued[t] = Unissued}

\* Rows a SELECT ... WHERE nuid = ? / WHERE name = ? returns.
AccountRows(n) == {i \in DOMAIN accounts : accounts[i].nuid = n}
PersonaRows(n) == {i \in DOMAIN personas : personas[i].name = n}

\* verifyPassword accepts exactly the password the stored value was made
\* from, whether it is hashed or a plaintext left by an older server.
VerifyPassword(p, i) == accounts[i].password = p

-----------------------------------------------------------------------------
(* Local control of a handler *)

Goto(s, statement) == pc' = [pc EXCEPT ![s] = statement]

\* The response is written and the connection reads its next packet.
Answer(s) == /\ Goto(s, "idle")
             /\ req' = [req EXCEPT ![s] = NoRequest]
             /\ row' = [row EXCEPT ![s] = 0]

Receive(s, request, statement) ==
  /\ pc[s] = "idle"
  /\ req' = [req EXCEPT ![s] = request]
  /\ Goto(s, statement)
  /\ UNCHANGED <<tables, row, session, history>>

\* loginResponse: the connection is now account i.  The persona is kept.
LoginResponse(s, i) ==
  /\ accountID' = [accountID EXCEPT ![s] = i]
  /\ logins' = [logins EXCEPT ![s] = @ \cup {i}]
  /\ Answer(s)
  /\ UNCHANGED <<personaID, promised, granted, issued>>

-----------------------------------------------------------------------------
(* NuAddAccount: INSERT OR IGNORE, then SELECT the row back *)

NuAddAccount(s) ==
  \E n \in Nuids, p \in Passwords :
    Receive(s, [NoRequest EXCEPT !.txn = "NuAddAccount", !.nuid = n, !.password = p],
            "insertAccount")

\* Deviation: the number of affected rows is not looked at.
InsertAccount_IgnoresAffected(s) ==
  /\ pc[s] = "insertAccount"
  /\ accounts' = IF AccountRows(req[s].nuid) = {}
                   THEN Append(accounts, [nuid |-> req[s].nuid, password |-> req[s].password,
                                          scheme |-> "pbkdf2"])
                   ELSE accounts
  /\ Goto(s, "selectNewAccount")
  /\ UNCHANGED <<personas, loginTokens, req, row, session, history>>

InsertAccount(s) ==
  /\ pc[s] = "insertAccount"
  /\ IF AccountRows(req[s].nuid) = {}
       THEN /\ accounts' = Append(accounts, [nuid |-> req[s].nuid,
                                             password |-> req[s].password,
                                             scheme |-> "pbkdf2"])
            /\ Goto(s, "selectNewAccount")
            /\ UNCHANGED <<req, row>>
       ELSE \* no row affected: ErrAccountExists
            /\ Answer(s)
            /\ UNCHANGED accounts
  /\ UNCHANGED <<personas, loginTokens, session, history>>

SelectNewAccount(s) ==
  /\ pc[s] = "selectNewAccount"
  /\ promised' = IF AccountRows(req[s].nuid) # {}
                   THEN promised \cup {<<req[s].nuid, req[s].password>>}
                   ELSE promised
  /\ Answer(s)
  /\ UNCHANGED <<tables, session, granted, logins, issued>>

-----------------------------------------------------------------------------
(* NuLogin with nuid and password: ValidateAccount, IssueLoginToken *)

\* Bound: a login asks for a token only while the generator has one left.
NuLogin(s) ==
  \E n \in Nuids, p \in Passwords, k \in {FALSE} \cup {TRUE : t \in FreshTokens} :
    Receive(s, [NoRequest EXCEPT !.txn = "NuLogin", !.nuid = n, !.password = p, !.keep = k],
            "selectLogin")

\* What NuLogin does once ValidateAccount has returned account i.
Validated(s, i) ==
  \/ /\ req[s].keep
     /\ row' = [row EXCEPT ![s] = i]
     /\ Goto(s, "deleteTokens")
     /\ UNCHANGED <<req, session, history>>
  \/ /\ ~req[s].keep
     /\ LoginResponse(s, i)

LoginRefused(s) ==
  /\ pc[s] = "selectLogin"
  /\ \A i \in AccountRows(req[s].nuid) : ~VerifyPassword(req[s].password, i)
  /\ Answer(s)
  /\ UNCHANGED <<tables, session, history>>

\* Deviation: a plaintext row is rehashed without comparing it first.
SelectLogin_TrustsPlaintext(s) ==
  /\ pc[s] = "selectLogin"
  /\ \E i \in AccountRows(req[s].nuid) :
       IF accounts[i].scheme = "pbkdf2"
         THEN VerifyPassword(req[s].password, i) /\ Validated(s, i)
         ELSE /\ row' = [row EXCEPT ![s] = i]
              /\ Goto(s, "upgradeHash")
              /\ UNCHANGED <<req, session, history>>
  /\ UNCHANGED tables

\* Deviation: a hashed row is not compared.
SelectLogin_Unverified(s) ==
  /\ pc[s] = "selectLogin"
  /\ \E i \in AccountRows(req[s].nuid) : accounts[i].scheme = "pbkdf2" /\ Validated(s, i)
  /\ UNCHANGED tables

SelectLogin(s) ==
  /\ pc[s] = "selectLogin"
  /\ \E i \in AccountRows(req[s].nuid) :
       /\ VerifyPassword(req[s].password, i)
       /\ IF accounts[i].scheme = "pbkdf2"
            THEN Validated(s, i)
            ELSE /\ row' = [row EXCEPT ![s] = i]
                 /\ Goto(s, "upgradeHash")
                 /\ UNCHANGED <<req, session, history>>
  /\ UNCHANGED tables

UpgradeHash(s) ==
  /\ pc[s] = "upgradeHash"
  /\ accounts' = [accounts EXCEPT ![row[s]] = [@ EXCEPT !.password = req[s].password,
                                                        !.scheme = "pbkdf2"]]
  /\ Goto(s, "reselectLogin")
  /\ UNCHANGED <<personas, loginTokens, req, row, session, history>>

ReselectLogin(s) ==
  /\ pc[s] = "reselectLogin"
  /\ \E i \in AccountRows(req[s].nuid) : Validated(s, i)
  /\ UNCHANGED tables

\* Deviation: the account's earlier tokens are not revoked.
DeleteTokens_KeepsOld(s) ==
  /\ pc[s] = "deleteTokens"
  /\ \E t \in FreshTokens :
       /\ issued' = [issued EXCEPT ![t] = [account |-> row[s], session |-> s]]
       /\ req' = [req EXCEPT ![s].token = t]
  /\ Goto(s, "insertToken")
  /\ UNCHANGED <<tables, row, session, promised, granted, logins>>

\* RevokeLoginTokens; the new token was generated just before.
DeleteTokens(s) ==
  /\ pc[s] = "deleteTokens"
  /\ loginTokens' = [t \in Tokens |-> IF loginTokens[t] = row[s] THEN 0 ELSE loginTokens[t]]
  /\ \E t \in FreshTokens :
       /\ issued' = [issued EXCEPT ![t] = [account |-> row[s], session |-> s]]
       /\ req' = [req EXCEPT ![s].token = t]
  /\ Goto(s, "insertToken")
  /\ UNCHANGED <<accounts, personas, row, session, promised, granted, logins>>

InsertToken(s) ==
  /\ pc[s] = "insertToken"
  /\ loginTokens' = [loginTokens EXCEPT ![req[s].token] = row[s]]
  /\ LoginResponse(s, row[s])
  /\ UNCHANGED <<accounts, personas>>

-----------------------------------------------------------------------------
(* NuLogin with encryptedInfo: AccountByLoginToken *)

\* A client has a token only once its row is written (the answer carries it),
\* so a token without a row that no handler is about to insert was revoked.
Inserting(t) == \E r \in Sessions : pc[r] = "insertToken" /\ req[r].token = t

NuLoginToken(s) ==
  \E t \in Tokens \ FreshTokens :
    /\ ~Inserting(t)
    /\ Receive(s, [NoRequest EXCEPT !.txn = "NuLogin", !.token = t,
                                    !.stale = (loginTokens[t] = 0)], "selectToken")

SelectToken(s) ==
  /\ pc[s] = "selectToken"
  /\ IF loginTokens[req[s].token] = 0
       THEN /\ Answer(s)
       ELSE /\ row' = [row EXCEPT ![s] = loginTokens[req[s].token]]
            /\ Goto(s, "touchToken")
            /\ UNCHANGED req
  /\ UNCHANGED <<tables, session, history>>

\* Deviation: last_used_at is written with INSERT OR REPLACE.
TouchToken_Upsert(s) ==
  /\ pc[s] = "touchToken"
  /\ loginTokens' = [loginTokens EXCEPT ![req[s].token] = row[s]]
  /\ LoginResponse(s, row[s])
  /\ UNCHANGED <<accounts, personas>>

\* UPDATE login_tokens SET last_used_at: the timestamp is never read, and the
\* login goes through whether or not the token still has its row.
TouchToken(s) ==
  /\ pc[s] = "touchToken"
  /\ LoginResponse(s, row[s])
  /\ UNCHANGED tables

-----------------------------------------------------------------------------
(* NuLoginPersona and NuAddPersona: GetOrCreatePersona *)

\* Deviation: the handler does not check that the connection is logged in.
PersonaRequest_LoggedOut(s) ==
  \E n \in Names, txn \in {"NuLoginPersona", "NuAddPersona"} :
    Receive(s, [NoRequest EXCEPT !.txn = txn, !.name = n], "selectPersona")

PersonaRequest(s) ==
  \E n \in Names, txn \in {"NuLoginPersona", "NuAddPersona"} :
    /\ accountID[s] # 0
    /\ Receive(s, [NoRequest EXCEPT !.txn = txn, !.name = n], "selectPersona")

\* NuAddPersona of a connection that is not logged in: success is answered and
\* nothing written.  (NuLoginPersona answers without an id, which tells nothing.)
AddPersonaLoggedOut(s) ==
  /\ pc[s] = "idle"
  /\ accountID[s] = 0
  /\ \E n \in Names : granted' = granted \cup {<<0, n>>}
  /\ UNCHANGED <<tables, locals, session, promised, logins, issued>>

\* GetOrCreatePersona returns persona i: only NuLoginPersona changes the session.
PersonaResponse(s, i) ==
  /\ granted' = granted \cup {<<accountID[s], req[s].name>>}
  /\ personaID' = IF req[s].txn = "NuLoginPersona"
                    THEN [personaID EXCEPT ![s] = i] ELSE personaID
  /\ Answer(s)
  /\ UNCHANGED <<accountID, promised, logins, issued>>

\* Deviation: the session takes the persona before the owner is compared.
FoundPersona_BindsFirst(s) ==
  \E i \in PersonaRows(req[s].name) :
    IF personas[i].account = accountID[s]
      THEN PersonaResponse(s, i)
      ELSE /\ personaID' = [personaID EXCEPT ![s] = i]
           /\ Answer(s)
           /\ UNCHANGED <<accountID, history>>

\* A persona found for the name: answered, or refused if it is somebody else's.
FoundPersona(s) ==
  \/ \E i \in PersonaRows(req[s].name) :
       /\ personas[i].account = accountID[s]
       /\ PersonaResponse(s, i)
  \/ /\ \A i \in PersonaRows(req[s].name) : personas[i].account # accountID[s]
     /\ Answer(s)
     /\ UNCHANGED <<session, history>>

SelectPersona(s) ==
  /\ pc[s] = "selectPersona"
  /\ IF PersonaRows(req[s].name) # {}
       THEN FoundPersona(s)
       ELSE /\ Goto(s, "insertPersona")
            /\ UNCHANGED <<req, row, session, history>>
  /\ UNCHANGED tables

\* Deviation: INSERT OR REPLACE, the later account takes the row over.
InsertPersona_Replaces(s) ==
  /\ pc[s] = "insertPersona"
  /\ personas' = IF PersonaRows(req[s].name) = {}
                   THEN Append(personas, [account |-> accountID[s], name |-> req[s].name])
                   ELSE [i \in DOMAIN personas |->
                           IF personas[i].name = req[s].name
                             THEN [personas[i] EXCEPT !.account = accountID[s]]
                             ELSE personas[i]]
  /\ Goto(s, "reselectPersona")
  /\ UNCHANGED <<accounts, loginTokens, req, row, session, history>>

InsertPersona(s) ==
  /\ pc[s] = "insertPersona"
  /\ personas' = IF PersonaRows(req[s].name) = {}
                   THEN Append(personas, [account |-> accountID[s], name |-> req[s].name])
                   ELSE personas
  /\ Goto(s, "reselectPersona")
  /\ UNCHANGED <<accounts, loginTokens, req, row, session, history>>

\* Deviation: the row read back after the insert is taken to be one's own.
ReselectPersona_Unchecked(s) ==
  /\ pc[s] = "reselectPersona"
  /\ \E i \in PersonaRows(req[s].name) : PersonaResponse(s, i)
  /\ UNCHANGED tables

ReselectPersona(s) ==
  /\ pc[s] = "reselectPersona"
  /\ FoundPersona(s)
  /\ UNCHANGED tables

-----------------------------------------------------------------------------
(* Connections and the process *)

\* The statement returns an error: errorCode 1, nothing else is undone.
StatementFails(s) ==
  /\ Busy(s)
  /\ Answer(s)
  /\ UNCHANGED <<tables, session, history>>

Connect(s) ==
  /\ pc[s] = "closed"
  /\ Goto(s, "idle")
  /\ UNCHANGED <<tables, req, row, session, history>>

\* run() sees EOF or an error only when it reads, between two requests.
Disconnect(s) ==
  /\ pc[s] = "idle"
  /\ Goto(s, "closed")
  /\ accountID' = [accountID EXCEPT ![s] = 0]
  /\ personaID' = [personaID EXCEPT ![s] = 0]
  /\ logins' = [logins EXCEPT ![s] = {}]
  /\ UNCHANGED <<tables, req, row, promised, granted, issued>>

\* The process ends (a listener failed, a signal, a kill) and starts again:
\* committed statements survive, every connection is gone.
Restart ==
  /\ pc' = [s \in Sessions |-> "closed"]
  /\ req' = [s \in Sessions |-> NoRequest]
  /\ row' = [s \in Sessions |-> 0]
  /\ accountID' = [s \in Sessions |-> 0]
  /\ personaID' = [s \in Sessions |-> 0]
  /\ logins' = [s \in Sessions |-> {}]
  /\ UNCHANGED <<tables, promised, granted, issued>>

-----------------------------------------------------------------------------
\* The database may come from an older server, with plaintext passwords.
Init ==
  /\ accounts \in {<<>>} \cup {<<[nuid |-> n, password |-> p, scheme |-> "plaintext"]>> :
                               n \in Nuids, p \in Passwords}
  /\ personas = <<>>
  /\ loginTokens = [t \in Tokens |-> 0]
  /\ pc = [s \in Sessions |-> "closed"]
  /\ req = [s \in Sessions |-> NoRequest]
  /\ row = [s \in Sessions |-> 0]
  /\ accountID = [s \in Sessions |-> 0]
  /\ personaID = [s \in Sessions |-> 0]
  /\ promised = {}
  /\ granted = {}
  /\ logins = [s \in Sessions |-> {}]
  /\ issued = [t \in Tokens |-> Unissued]

ClientStep(s) ==
  \/ Connect(s) \/ Disconnect(s)
  \/ NuAddAccount(s) \/ NuLogin(s) \/ NuLoginToken(s)
  \/ PersonaRequest(s) \/ AddPersonaLoggedOut(s)

HandlerStep(s) ==
  \/ InsertAccount(s) \/ SelectNewAccount(s)
  \/ LoginRefused(s) \/ SelectLogin(s) \/ UpgradeHash(s) \/ ReselectLogin(s)
  \/ DeleteTokens(s) \/ InsertToken(s)
  \/ SelectToken(s) \/ TouchToken(s)
  \/ SelectPersona(s) \/ InsertPersona(s) \/ ReselectPersona(s)
  \/ StatementFails(s)

Next == Restart \/ \E s \in Sessions : ClientStep(s) \/ HandlerStep(s)

Spec == Init /\ [][Next]_vars
-----------------------------------------------------------------------------
(* Properties *)

\* Every variable has its type; in particular a persona always belongs to
\* some account: the handlers that create one are only reached logged in.
TypeOK ==
  /\ accounts \in Seq(AccountRow)
  /\ personas \in Seq(PersonaRow)
  /\ loginTokens \in [Tokens -> Nat]
  /\ pc \in [Sessions -> Statements \cup {"closed", "idle"}]
  /\ req \in [Sessions -> Request]
  /\ row \in [Sessions -> Nat]
  /\ accountID \in [Sessions -> Nat]
  /\ personaID \in [Sessions -> Nat]
  /\ promised \in SUBSET (Nuids \X Passwords)
  /\ granted \in SUBSET (Nat \X Names)
  /\ logins \in [Sessions -> SUBSET Nat]
  /\ issued \in [Tokens -> [account : Nat, session : Sessions \cup {None}]]

\* The persona a connection plays as belongs to an account that this very
\* connection has proved to be: two connections racing for a new name
\* (GetOrCreatePersona's INSERT OR IGNORE) can never both get it.  It need not
\* be the present account: NuLogin replaces accountID and keeps personaID.
PersonaOwnedByLogin ==
  \A s \in Sessions :
    personaID[s] # 0 => /\ personaID[s] \in DOMAIN personas
                        /\ personas[personaID[s]].account \in logins[s]

\* Whoever was told that NuAddAccount succeeded owns the account: his password
\* is the one that verifies, also when several clients raced to create the
\* name, a statement failed in between or the server was restarted.
AcknowledgedAccountVerifies ==
  \A c \in promised :
    \E i \in DOMAIN accounts : accounts[i].nuid = c[1] /\ accounts[i].password = c[2]

\* Whoever was told, logged in, that a persona name is his keeps it: the row
\* stays, and no other account is ever told the same.  A success answered to
\* NuAddPersona before the login (account 0) grants nothing: the name may go
\* to somebody else, before or after.
GrantedNamesAgree ==
  /\ \A g \in granted :
       g[1] # 0 => \E i \in DOMAIN personas : /\ personas[i].account = g[1]
                                             /\ personas[i].name = g[2]
  /\ \A g, h \in granted :
       g[2] = h[2] /\ g[1] # 0 /\ h[1] # 0 => g[1] = h[1]

\* IssueLoginToken deletes and inserts in two statements, so two logins to one
\* account may leave two tokens; but one connection never leaves more than one,
\* and a token opens only the account it was issued for.
OneTokenPerIssuer ==
  \A t, u \in Tokens :
    loginTokens[t] # 0 =>
      /\ loginTokens[t] = issued[t].account
      /\ t # u /\ loginTokens[u] = loginTokens[t] => issued[t].session # issued[u].session

\* A login that arrives after its token was revoked (by a later login to the
\* account) is refused, also when another handler has read the token before
\* the revocation and touches its row afterwards.  Only a request that was
\* already there may still succeed: its SELECT may come before the DELETE and
\* the answer, sent after the UPDATE, behind it.
RevocationIsFinal ==
  [][\A s \in Sessions :
       req[s].stale => /\ row'[s] = 0
                       /\ accountID'[s] \in {0, accountID[s]}]_vars

\* A connection becomes an account only by a request that carries the account's
\* name and password, or a token issued for it that was not yet revoked when
\* the request came; this still holds in the step that answers, several
\* statements after the credentials were looked up.
LoginMatchesCredentials ==
  [][\A s \in Sessions :
       accountID'[s] \notin {0, accountID[s]} =>
         /\ accountID'[s] \in DOMAIN accounts
         /\ \/ /\ req[s].nuid = accounts[accountID'[s]].nuid
               /\ req[s].password = accounts[accountID'[s]].password
            \/ /\ req[s].nuid = None
               /\ issued[req[s].token].account = accountID'[s]
               /\ ~req[s].stale]_vars

\* No request changes the name or the password of an account: a login that
\* upgrades a plaintext password writes the hash of the same password.
PasswordsNeverChange ==
  [][\A i \in DOMAIN accounts :
       /\ i \in DOMAIN accounts'
       /\ accounts'[i].nuid = accounts[i].nuid
       /\ accounts'[i].password = accounts[i].password
       /\ accounts[i].scheme = "pbkdf2" => accounts'[i].scheme = "pbkdf2"]_vars

\* The refinement mapping: what the tables and the sessions mean.
NuidOf(i) == IF i = 0 THEN None ELSE accounts[i].nuid
NameOf(i) == IF i = 0 THEN None ELSE personas[i].name

Credential == {<<accounts[i].nuid, accounts[i].password>> : i \in DOMAIN accounts}
Owner      == {<<personas[i].name, NuidOf(personas[i].account)>> : i \in DOMAIN personas}
Who        == [s \in Sessions |-> NuidOf(accountID[s])]
Playing    == [s \in Sessions |-> NameOf(personaID[s])]

Promise == INSTANCE Identity WITH credential <- Credential, owner <- Owner,
                                  who <- Who, playing <- Playing

\* The statement-by-statement handlers implement the abstract service: every
\* race, failure and restart looks as if each request had happened at once.
ImplementsIdentity == Promise!Spec
=============================================================================
