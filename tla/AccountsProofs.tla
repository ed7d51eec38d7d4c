--------------------------- MODULE AccountsProofs ---------------------------
(* Theorems about Accounts, for every value of its constants. *)
EXTENDS Accounts, TLAPS, SequenceTheorems

\* The request of an idle connection and the token nobody has issued have their types.
LEMMA RequestTypes ==
  /\ NoRequest \in Request
  /\ "idle" \notin Statements /\ "closed" \notin Statements
  /\ Unissued \in [account : Nat, session : Sessions \cup {None}]
BY DEF NoRequest, Request, Statements, Unissued

\* A table grows by one row, at the end; the other rows stay where they are.
LEMMA AppendRow ==
  ASSUME NEW S, NEW table \in Seq(S), NEW r \in S
  PROVE  /\ Append(table, r) \in Seq(S)
         /\ DOMAIN Append(table, r) = DOMAIN table \cup {Len(table) + 1}
         /\ \A i \in DOMAIN table : Append(table, r)[i] = table[i]
         /\ Append(table, r)[Len(table) + 1] = r
         /\ Len(table) + 1 \notin DOMAIN table
         /\ DOMAIN table = 1 .. Len(table) /\ Len(table) \in Nat
  <1>1. DOMAIN table = 1 .. Len(table) /\ Len(table) \in Nat
    OBVIOUS
  <1>2. Append(table, r) \in Seq(S) /\ Len(Append(table, r)) = Len(table) + 1
    OBVIOUS
  <1>3. DOMAIN Append(table, r) = DOMAIN table \cup {Len(table) + 1}
    BY <1>1, <1>2
  <1>4. \A i \in DOMAIN table : Append(table, r)[i] = table[i]
    BY <1>1
  <1>5. Append(table, r)[Len(table) + 1] = r
    OBVIOUS
  <1> QED BY <1>1, <1>2, <1>3, <1>4, <1>5

\* An UPDATE of one row leaves the table its type, its length and its other rows.
LEMMA UpdateRow ==
  ASSUME NEW S, NEW table \in Seq(S), NEW i \in DOMAIN table, NEW r \in S
  PROVE  /\ [table EXCEPT ![i] = r] \in Seq(S)
         /\ DOMAIN [table EXCEPT ![i] = r] = DOMAIN table
         /\ [table EXCEPT ![i] = r][i] = r
         /\ \A j \in DOMAIN table : j # i => [table EXCEPT ![i] = r][j] = table[j]
BY ExceptSeq

-----------------------------------------------------------------------------
(* Type correctness *)

\* What the handler of a request holds at each statement it can be at.
RequestOK ==
  \A s \in Sessions :
    /\ pc[s] \in {"insertAccount", "selectNewAccount", "selectLogin", "upgradeHash",
                  "reselectLogin"} => req[s].nuid \in Nuids /\ req[s].password \in Passwords
    /\ pc[s] \in {"selectPersona", "insertPersona", "reselectPersona"} =>
         req[s].name \in Names /\ accountID[s] # 0
    /\ pc[s] \in {"insertToken", "selectToken", "touchToken"} => req[s].token \in Tokens
    /\ pc[s] \in {"upgradeHash", "reselectLogin", "deleteTokens", "insertToken"} =>
         row[s] \in DOMAIN accounts

Typed == TypeOK /\ RequestOK

\* Answering a request keeps the types and what the other handlers hold.
LEMMA AnswerTyped ==
  ASSUME TypeOK, RequestOK, NEW s \in Sessions, Answer(s),
         DOMAIN accounts \subseteq DOMAIN accounts',
         \A r \in Sessions \ {s} : accountID'[r] = accountID[r]
  PROVE  /\ pc' \in [Sessions -> Statements \cup {"closed", "idle"}]
         /\ req' \in [Sessions -> Request]
         /\ row' \in [Sessions -> Nat]
         /\ RequestOK'
  <1>1. /\ pc' \in [Sessions -> Statements \cup {"closed", "idle"}]
        /\ req' \in [Sessions -> Request]
        /\ row' \in [Sessions -> Nat]
    BY RequestTypes DEF TypeOK, Answer, Goto
  <1>2. RequestOK'
    <2> SUFFICES ASSUME NEW r \in Sessions PROVE RequestOK!(r)'
      BY DEF RequestOK
    <2>1. CASE r = s
      BY <2>1 DEF TypeOK, Answer, Goto
    <2>2. CASE r # s
      BY <2>2 DEF TypeOK, Answer, Goto, RequestOK
    <2> QED BY <2>1, <2>2
  <1> QED BY <1>1, <1>2

\* Typed is inductive: every step of every connection preserves it.
LEMMA TypedStep ==
  ASSUME Typed, [Next]_vars
  PROVE  Typed'
  <1> USE DEF Typed
  <1>1. ASSUME UNCHANGED vars PROVE Typed'
    BY <1>1 DEF vars, tables, locals, session, history, TypeOK, RequestOK
  <1>2. CASE Restart
    BY <1>2, RequestTypes DEF Restart, tables, TypeOK, RequestOK, Statements
  <1> SUFFICES ASSUME NEW s \in Sessions, ClientStep(s) \/ HandlerStep(s) PROVE Typed'
    BY <1>1, <1>2 DEF Next
  <1> USE DEF tables, session, history
  <1>3. CASE Connect(s)
    BY <1>3 DEF Connect, Goto, TypeOK, RequestOK, Statements
  <1>4. CASE Disconnect(s)
    BY <1>4 DEF Disconnect, Goto, TypeOK, RequestOK, Statements
  <1>5. CASE NuAddAccount(s)
    <2> SUFFICES ASSUME NEW n \in Nuids, NEW p \in Passwords,
                        Receive(s, [NoRequest EXCEPT !.txn = "NuAddAccount", !.nuid = n, !.password = p], "insertAccount")
                 PROVE Typed'
      BY <1>5 DEF NuAddAccount
    <2> QED BY DEF Receive, Goto, NoRequest, Request, TypeOK, RequestOK, Statements
  <1>6. CASE NuLogin(s)
    <2> SUFFICES ASSUME NEW n \in Nuids, NEW p \in Passwords, NEW k \in BOOLEAN,
                        Receive(s, [NoRequest EXCEPT !.txn = "NuLogin", !.nuid = n, !.password = p, !.keep = k], "selectLogin")
                 PROVE Typed'
      BY <1>6 DEF NuLogin
    <2> QED BY DEF Receive, Goto, NoRequest, Request, TypeOK, RequestOK, Statements
  <1>7. CASE NuLoginToken(s)
    <2> SUFFICES ASSUME NEW t \in Tokens, NEW b \in BOOLEAN,
                        Receive(s, [NoRequest EXCEPT !.txn = "NuLogin", !.token = t, !.stale = b],
                                "selectToken")
                 PROVE Typed'
      BY <1>7 DEF NuLoginToken
    <2> QED BY DEF Receive, Goto, NoRequest, Request, TypeOK, RequestOK, Statements
  <1>8. CASE PersonaRequest(s)
    <2> SUFFICES ASSUME NEW n \in Names, NEW txn \in {"NuLoginPersona", "NuAddPersona"},
                        accountID[s] # 0,
                        Receive(s, [NoRequest EXCEPT !.txn = txn, !.name = n], "selectPersona")
                 PROVE Typed'
      BY <1>8 DEF PersonaRequest
    <2> QED BY DEF Receive, Goto, NoRequest, Request, TypeOK, RequestOK, Statements
  <1>LO. CASE AddPersonaLoggedOut(s)
    <2>1. granted' \in SUBSET (Nat \X Names)
      BY <1>LO DEF AddPersonaLoggedOut, TypeOK
    <2> QED BY <1>LO, <2>1 DEF AddPersonaLoggedOut, locals, TypeOK, RequestOK
  <1>9. CASE InsertAccount(s)
    <2> DEFINE new == [nuid |-> req[s].nuid, password |-> req[s].password, scheme |-> "pbkdf2"]
    <2>1. new \in AccountRow
      BY <1>9 DEF InsertAccount, TypeOK, RequestOK, AccountRow, Schemes
    <2>2. CASE AccountRows(req[s].nuid) = {}
      <3>0. accounts' = Append(accounts, new)
        BY <1>9, <2>2 DEF InsertAccount
      <3> HIDE DEF new
      <3>1. /\ accounts' \in Seq(AccountRow)
            /\ DOMAIN accounts \subseteq DOMAIN accounts'
        BY <2>1, <3>0, AppendRow DEF TypeOK
      <3> QED BY <1>9, <2>2, <3>1 DEF InsertAccount, Goto, TypeOK, RequestOK, Statements
    <2>3. CASE AccountRows(req[s].nuid) # {}
      BY <1>9, <2>3, AnswerTyped DEF InsertAccount, TypeOK
    <2> QED BY <2>2, <2>3
  <1>10. CASE SelectNewAccount(s)
    <2>1. promised' \in SUBSET (Nuids \X Passwords)
      BY <1>10 DEF SelectNewAccount, TypeOK, RequestOK
    <2> QED BY <1>10, <2>1, AnswerTyped DEF SelectNewAccount, TypeOK
  <1>11. CASE LoginRefused(s)
    BY <1>11, AnswerTyped DEF LoginRefused, TypeOK
  <1>LR. ASSUME NEW i \in Nat, LoginResponse(s, i), UNCHANGED <<accounts, personas>>,
                loginTokens' \in [Tokens -> Nat]
         PROVE  Typed'
    <2>1. accountID' \in [Sessions -> Nat] /\ logins' \in [Sessions -> SUBSET Nat]
      BY <1>LR DEF LoginResponse, TypeOK
    <2> QED BY <1>LR, <2>1, AnswerTyped DEF LoginResponse, TypeOK
  <1>VA. ASSUME NEW i \in DOMAIN accounts, Validated(s, i), UNCHANGED tables
         PROVE  Typed'
    <2>0. i \in Nat
      BY DEF TypeOK
    <2>1. CASE req[s].keep
      <3>1. row' = [row EXCEPT ![s] = i] /\ Goto(s, "deleteTokens") /\ UNCHANGED <<req, session, history>>
        BY <1>VA, <2>1 DEF Validated
      <3>2. TypeOK'
        BY <1>VA, <2>0, <3>1 DEF Goto, TypeOK, Statements
      <3>3. RequestOK'
        BY <1>VA, <3>1 DEF Goto, TypeOK, RequestOK
      <3> QED BY <3>2, <3>3
    <2>2. CASE ~req[s].keep
      BY <1>VA, <1>LR, <2>0, <2>2 DEF Validated, TypeOK
    <2> QED BY <2>1, <2>2
  <1>12. CASE SelectLogin(s)
    <2> PICK i \in DOMAIN accounts :
               IF accounts[i].scheme = "pbkdf2"
                 THEN Validated(s, i)
                 ELSE /\ row' = [row EXCEPT ![s] = i]
                      /\ Goto(s, "upgradeHash")
                      /\ UNCHANGED <<req, session, history>>
      BY <1>12 DEF SelectLogin, AccountRows
    <2>1. CASE accounts[i].scheme = "pbkdf2"
      BY <1>12, <1>VA, <2>1 DEF SelectLogin
    <2>2. CASE accounts[i].scheme # "pbkdf2"
      <3>1. i \in Nat
        BY DEF TypeOK
      <3>2. pc[s] = "selectLogin" /\ UNCHANGED tables
        BY <1>12 DEF SelectLogin
      <3>3. TypeOK'
        BY <2>2, <3>1, <3>2 DEF Goto, TypeOK, Statements
      <3>4. RequestOK'
        BY <2>2, <3>2 DEF Goto, TypeOK, RequestOK
      <3> QED BY <3>3, <3>4
    <2> QED BY <2>1, <2>2
  <1>13. CASE UpgradeHash(s)
    <2> DEFINE new == [accounts[row[s]] EXCEPT !.password = req[s].password, !.scheme = "pbkdf2"]
    <2>1. row[s] \in DOMAIN accounts /\ req[s].password \in Passwords
      BY <1>13 DEF UpgradeHash, RequestOK
    <2>2. accounts[row[s]] \in AccountRow
      BY <2>1 DEF TypeOK
    <2>3. new \in AccountRow
      BY <2>1, <2>2 DEF AccountRow, Schemes
    <2>4. accounts' = [accounts EXCEPT ![row[s]] = new]
      BY <1>13 DEF UpgradeHash
    <2> HIDE DEF new
    <2>5. accounts' \in Seq(AccountRow) /\ DOMAIN accounts' = DOMAIN accounts
      BY <2>1, <2>3, <2>4, UpdateRow DEF TypeOK
    <2> QED BY <1>13, <2>5 DEF UpgradeHash, Goto, TypeOK, RequestOK, Statements
  <1>14. CASE ReselectLogin(s)
    BY <1>14, <1>VA DEF ReselectLogin, AccountRows
  <1>15. CASE DeleteTokens(s)
    <2> PICK t \in Tokens :
               /\ issued' = [issued EXCEPT ![t] = [account |-> row[s], session |-> s]]
               /\ req' = [req EXCEPT ![s].token = t]
      BY <1>15 DEF DeleteTokens, FreshTokens
    <2>0. [req[s] EXCEPT !.token = t] \in Request
      <3>1. req[s] \in Request
        BY DEF TypeOK
      <3> QED BY <3>1 DEF Request
    <2>1. req' \in [Sessions -> Request]
      BY <2>0 DEF TypeOK
    <2>2. /\ loginTokens' \in [Tokens -> Nat]
          /\ issued' \in [Tokens -> [account : Nat, session : Sessions \cup {None}]]
      BY <1>15 DEF DeleteTokens, TypeOK
    <2> QED BY <1>15, <2>1, <2>2 DEF DeleteTokens, Goto, TypeOK, RequestOK, Statements
  <1>16. CASE InsertToken(s)
    BY <1>16, <1>LR DEF InsertToken, TypeOK
  <1>17. CASE SelectToken(s)
    <2>1. CASE loginTokens[req[s].token] = 0
      BY <1>17, <2>1, AnswerTyped DEF SelectToken, TypeOK
    <2>2. CASE loginTokens[req[s].token] # 0
      <3>1. loginTokens[req[s].token] \in Nat
        BY <1>17 DEF SelectToken, TypeOK, RequestOK
      <3> QED BY <1>17, <2>2, <3>1 DEF SelectToken, Goto, TypeOK, RequestOK, Statements
    <2> QED BY <2>1, <2>2
  <1>18. CASE TouchToken(s)
    BY <1>18, <1>LR DEF TouchToken, TypeOK
  <1>FP. ASSUME pc[s] \in {"selectPersona", "reselectPersona"}, FoundPersona(s), UNCHANGED tables
         PROVE  Typed'
    <2>1. CASE Answer(s) /\ UNCHANGED <<session, history>>
      BY <1>FP, <2>1, AnswerTyped DEF TypeOK
    <2>2. ASSUME NEW i \in DOMAIN personas, PersonaResponse(s, i) PROVE Typed'
      <3>1. /\ granted' \in SUBSET (Nat \X Names)
            /\ personaID' \in [Sessions -> Nat]
        BY <1>FP, <2>2 DEF PersonaResponse, TypeOK, RequestOK
      <3> QED BY <1>FP, <2>2, <3>1, AnswerTyped DEF PersonaResponse, TypeOK
    <2> QED BY <1>FP, <2>1, <2>2 DEF FoundPersona, PersonaRows
  <1>19. CASE SelectPersona(s)
    <2>1. CASE PersonaRows(req[s].name) # {}
      BY <1>19, <1>FP, <2>1 DEF SelectPersona
    <2>2. CASE PersonaRows(req[s].name) = {}
      BY <1>19, <2>2 DEF SelectPersona, Goto, TypeOK, RequestOK, Statements
    <2> QED BY <2>1, <2>2
  <1>20. CASE InsertPersona(s)
    <2> DEFINE new == [account |-> accountID[s], name |-> req[s].name]
    <2>1. new \in PersonaRow
      BY <1>20 DEF InsertPersona, TypeOK, RequestOK, PersonaRow
    <2>2. personas' \in Seq(PersonaRow)
      BY <1>20, <2>1, AppendRow DEF InsertPersona, TypeOK
    <2> QED BY <1>20, <2>2 DEF InsertPersona, Goto, TypeOK, RequestOK, Statements
  <1>21. CASE ReselectPersona(s)
    BY <1>21, <1>FP DEF ReselectPersona
  <1>22. CASE StatementFails(s)
    BY <1>22, AnswerTyped DEF StatementFails, TypeOK
  <1> QED BY <1>3, <1>4, <1>5, <1>6, <1>7, <1>8, <1>LO, <1>9, <1>10, <1>11, <1>12, <1>13, <1>14, <1>15, <1>16, <1>17, <1>18, <1>19, <1>20, <1>21, <1>22
          DEF ClientStep, HandlerStep

\* Typed holds when the server starts for the first time.
LEMMA TypedInit == Init => Typed
  <1> SUFFICES ASSUME Init PROVE Typed
    OBVIOUS
  <1>1. accounts \in Seq(AccountRow)
    <2>1. \A n \in Nuids, p \in Passwords :
            [nuid |-> n, password |-> p, scheme |-> "plaintext"] \in AccountRow
      BY DEF AccountRow, Schemes
    <2>2. \A r \in AccountRow : <<r>> \in Seq(AccountRow)
      OBVIOUS
    <2>3. CASE accounts = <<>>
      BY <2>3
    <2>4. CASE \E n \in Nuids, p \in Passwords :
                 accounts = <<[nuid |-> n, password |-> p, scheme |-> "plaintext"]>>
      BY <2>1, <2>2, <2>4
    <2> QED BY <2>3, <2>4 DEF Init
  <1>2. personas \in Seq(PersonaRow)
    BY DEF Init
  <1> QED BY <1>1, <1>2, RequestTypes DEF Init, Typed, TypeOK, RequestOK, Statements

\* Every variable of Accounts keeps its type, whatever the connections do.
THEOREM TypeCorrect == Spec => []TypeOK
  <1>1. Init => Typed
    BY TypedInit
  <1>2. Typed /\ [Next]_vars => Typed'
    BY TypedStep
  <1>3. Typed => TypeOK
    BY DEF Typed
  <1> QED BY <1>1, <1>2, <1>3, PTL DEF Spec


-----------------------------------------------------------------------------
(* The tables only grow *)

\* A handler about to rehash a row still holds the password of that row.
UpgradeOK == \A s \in Sessions : pc[s] = "upgradeHash" =>
                                   accounts[row[s]].password = req[s].password

\* Rows of accounts keep their name and password, rows of personas everything.
Grow ==
  /\ DOMAIN accounts \subseteq DOMAIN accounts'
  /\ \A i \in DOMAIN accounts :
       /\ accounts'[i].nuid = accounts[i].nuid
       /\ accounts'[i].password = accounts[i].password
       /\ accounts[i].scheme = "pbkdf2" => accounts'[i].scheme = "pbkdf2"
  /\ DOMAIN personas \subseteq DOMAIN personas'
  /\ \A i \in DOMAIN personas : personas'[i] = personas[i]

\* The INSERT of NuAddAccount adds one row, for a name that had none, and
\* changes no other.
LEMMA InsertedAccount ==
  ASSUME Typed, NEW s \in Sessions, InsertAccount(s), AccountRows(req[s].nuid) = {}
  PROVE  LET new == [nuid |-> req[s].nuid, password |-> req[s].password, scheme |-> "pbkdf2"]
             k == Len(accounts) + 1
         IN  /\ DOMAIN accounts' = DOMAIN accounts \cup {k} /\ k \notin DOMAIN accounts
             /\ accounts'[k] = new /\ k # 0
             /\ \A i \in DOMAIN accounts : accounts'[i] = accounts[i]
  <1> DEFINE new == [nuid |-> req[s].nuid, password |-> req[s].password, scheme |-> "pbkdf2"]
  <1>1. new \in AccountRow
    BY DEF Typed, InsertAccount, TypeOK, RequestOK, AccountRow, Schemes
  <1>2. accounts' = Append(accounts, new) /\ accounts \in Seq(AccountRow)
    BY DEF Typed, TypeOK, InsertAccount
  <1> HIDE DEF new
  <1>3. Len(accounts) + 1 # 0
    BY <1>2
  <1> QED BY <1>1, <1>2, <1>3, AppendRow DEF new

\* The INSERT of GetOrCreatePersona adds one row, for the connection's account,
\* and changes no other.
LEMMA InsertedPersona ==
  ASSUME Typed, NEW s \in Sessions, InsertPersona(s), PersonaRows(req[s].name) = {}
  PROVE  LET k == Len(personas) + 1
         IN  /\ DOMAIN personas' = DOMAIN personas \cup {k} /\ k \notin DOMAIN personas
             /\ personas'[k] = [account |-> accountID[s], name |-> req[s].name]
             /\ \A i \in DOMAIN personas : personas'[i] = personas[i]
  <1> DEFINE new == [account |-> accountID[s], name |-> req[s].name]
  <1>1. new \in PersonaRow
    BY DEF Typed, InsertPersona, TypeOK, RequestOK, PersonaRow
  <1>2. personas' = Append(personas, new) /\ personas \in Seq(PersonaRow)
    BY DEF Typed, TypeOK, InsertPersona
  <1> HIDE DEF new
  <1> QED BY <1>1, <1>2, AppendRow DEF new

\* The UPDATE of ValidateAccount writes the password that is already there.
LEMMA UpgradedAccount ==
  ASSUME Typed, UpgradeOK, NEW s \in Sessions, UpgradeHash(s)
  PROVE  /\ DOMAIN accounts' = DOMAIN accounts
         /\ \A i \in DOMAIN accounts :
              /\ accounts'[i].nuid = accounts[i].nuid
              /\ accounts'[i].password = accounts[i].password
              /\ accounts[i].scheme = "pbkdf2" => accounts'[i].scheme = "pbkdf2"
  <1> DEFINE new == [accounts[row[s]] EXCEPT !.password = req[s].password, !.scheme = "pbkdf2"]
  <1>1. /\ row[s] \in DOMAIN accounts
        /\ accounts[row[s]].password = req[s].password
        /\ accounts \in Seq(AccountRow)
    BY DEF Typed, TypeOK, UpgradeHash, RequestOK, UpgradeOK
  <1>2. accounts[row[s]] \in AccountRow
    BY <1>1
  <1>3. new \in AccountRow /\ new.nuid = accounts[row[s]].nuid /\ new.scheme = "pbkdf2"
                           /\ new.password = accounts[row[s]].password
    BY <1>1, <1>2 DEF AccountRow, Schemes
  <1>4. accounts' = [accounts EXCEPT ![row[s]] = new]
    BY DEF UpgradeHash
  <1> HIDE DEF new
  <1>5. /\ DOMAIN accounts' = DOMAIN accounts
        /\ accounts'[row[s]] = new
        /\ \A j \in DOMAIN accounts : j # row[s] => accounts'[j] = accounts[j]
    BY <1>1, <1>3, <1>4, UpdateRow
  <1> QED BY <1>3, <1>5

\* A request that arrives starts a handler at its first statement; only
\* Connect and Disconnect do without one.
LEMMA Received ==
  ASSUME NEW s \in Sessions, NuAddAccount(s) \/ NuLogin(s) \/ NuLoginToken(s) \/ PersonaRequest(s)
  PROVE  \E r : \E l \in {"insertAccount", "selectLogin", "selectToken", "selectPersona"} :
           Receive(s, r, l)
  <1>1. CASE NuAddAccount(s)
    BY <1>1 DEF NuAddAccount
  <1>2. CASE NuLogin(s)
    BY <1>2 DEF NuLogin
  <1>3. CASE NuLoginToken(s)
    BY <1>3 DEF NuLoginToken
  <1>4. CASE PersonaRequest(s)
    BY <1>4 DEF PersonaRequest
  <1> QED BY <1>1, <1>2, <1>3, <1>4

\* What the client does by itself leaves the database and what was promised;
\* a persona asked for before the login is granted to no account.
LEMMA ClientKeeps ==
  ASSUME NEW s \in Sessions, ClientStep(s)
  PROVE  /\ UNCHANGED <<accounts, personas, loginTokens, promised, issued>>
         /\ \A g \in granted' : g \in granted \/ g[1] = 0
         /\ ~Disconnect(s) => UNCHANGED <<accountID, personaID, logins>>
  <1>1. CASE Connect(s)
    BY <1>1 DEF Connect, tables, session, history
  <1>2. CASE Disconnect(s)
    BY <1>2 DEF Disconnect, tables
  <1>3. ASSUME NEW r, NEW l, Receive(s, r, l)
        PROVE  UNCHANGED <<accounts, personas, loginTokens, promised, granted, issued,
                           accountID, personaID, logins>>
    BY <1>3 DEF Receive, tables, session, history
  <1>4. CASE AddPersonaLoggedOut(s)
    BY <1>4 DEF AddPersonaLoggedOut, tables, session
  <1> QED BY <1>1, <1>2, <1>3, <1>4, Received DEF ClientStep

\* The statements that write the tables of accounts and personas.
LEMMA TablesGrow ==
  ASSUME Typed, UpgradeOK, [Next]_vars
  PROVE  Grow
  <1>1. CASE UNCHANGED <<accounts, personas>>
    BY <1>1 DEF Grow
  <1>2. ASSUME NEW s \in Sessions, InsertAccount(s) PROVE Grow
    <2>1. CASE AccountRows(req[s].nuid) = {}
      BY <1>2, <2>1, InsertedAccount DEF Grow, InsertAccount
    <2>2. CASE AccountRows(req[s].nuid) # {}
      BY <1>1, <1>2, <2>2 DEF InsertAccount
    <2> QED BY <2>1, <2>2
  <1>3. ASSUME NEW s \in Sessions, UpgradeHash(s) PROVE Grow
    BY <1>3, UpgradedAccount DEF Grow, UpgradeHash
  <1>4. ASSUME NEW s \in Sessions, InsertPersona(s) PROVE Grow
    <2>1. CASE PersonaRows(req[s].name) = {}
      BY <1>4, <2>1, InsertedPersona DEF Grow, InsertPersona
    <2>2. CASE PersonaRows(req[s].name) # {}
      BY <1>1, <1>4, <2>2 DEF InsertPersona
    <2> QED BY <2>1, <2>2
  <1>5. CASE Restart \/ UNCHANGED vars
    BY <1>1, <1>5 DEF Restart, vars, tables
  <1>6. ASSUME NEW s \in Sessions, ClientStep(s) PROVE Grow
    BY <1>1, <1>6, ClientKeeps DEF tables
  <1>7. ASSUME NEW s \in Sessions, HandlerStep(s) PROVE Grow
    BY <1>1, <1>2, <1>3, <1>4, <1>7
       DEF HandlerStep, SelectNewAccount, LoginRefused, SelectLogin, ReselectLogin,
           DeleteTokens, InsertToken, SelectToken, TouchToken, SelectPersona,
           ReselectPersona, StatementFails, tables
  <1> QED BY <1>5, <1>6, <1>7 DEF Next


-----------------------------------------------------------------------------
(* What a connection knows *)

LocalOK(s) ==
  /\ logins[s] \subseteq DOMAIN accounts
  /\ accountID[s] # 0 => accountID[s] \in logins[s]
  /\ personaID[s] # 0 => /\ personaID[s] \in DOMAIN personas
                         /\ personas[personaID[s]].account \in logins[s]
  /\ pc[s] = "upgradeHash" => accounts[row[s]].password = req[s].password
  /\ pc[s] = "touchToken" => row[s] \in DOMAIN accounts
  /\ pc[s] = "selectNewAccount" =>
       \E i \in DOMAIN accounts : /\ accounts[i].nuid = req[s].nuid
                                  /\ accounts[i].password = req[s].password

\* Names are unique, references lead to rows, acknowledgements are kept.
TablesOK ==
  /\ \A i, j \in DOMAIN accounts : accounts[i].nuid = accounts[j].nuid => i = j
  /\ \A i, j \in DOMAIN personas : personas[i].name = personas[j].name => i = j
  /\ \A i \in DOMAIN personas : personas[i].account \in DOMAIN accounts
  /\ \A t \in Tokens : loginTokens[t] # 0 => loginTokens[t] \in DOMAIN accounts
  /\ \A c \in promised :
       \E i \in DOMAIN accounts : accounts[i].nuid = c[1] /\ accounts[i].password = c[2]
  /\ \A g \in granted :
       g[1] # 0 => \E i \in DOMAIN personas : /\ personas[i].account = g[1]
                                             /\ personas[i].name = g[2]

IInv == Typed /\ TablesOK /\ \A s \in Sessions : LocalOK(s)

\* A handler touches the local state of its own connection only.
LEMMA OthersKept ==
  ASSUME Typed, NEW s \in Sessions, NEW r \in Sessions \ {s}, ClientStep(s) \/ HandlerStep(s)
  PROVE  /\ pc'[r] = pc[r] /\ req'[r] = req[r] /\ row'[r] = row[r]
         /\ accountID'[r] = accountID[r] /\ personaID'[r] = personaID[r]
         /\ logins'[r] = logins[r]
  <1> DEFINE Kept == /\ pc'[r] = pc[r] /\ req'[r] = req[r] /\ row'[r] = row[r]
                     /\ accountID'[r] = accountID[r] /\ personaID'[r] = personaID[r]
                     /\ logins'[r] = logins[r]
  <1> USE DEF Typed, TypeOK, session, history
  <1>1. ASSUME ClientStep(s) PROVE Kept
    <2>1. CASE Connect(s)
      BY <2>1 DEF Connect, Goto
    <2>2. CASE Disconnect(s)
      BY <2>2 DEF Disconnect, Goto
    <2>3. ASSUME NEW q, NEW l, Receive(s, q, l) PROVE Kept
      BY <2>3 DEF Receive, Goto
    <2>4. CASE AddPersonaLoggedOut(s)
      BY <2>4 DEF AddPersonaLoggedOut, locals
    <2> QED BY <1>1, <2>1, <2>2, <2>3, <2>4, Received DEF ClientStep
  <1>2. CASE InsertAccount(s) \/ SelectNewAccount(s) \/ LoginRefused(s) \/ StatementFails(s)
    BY <1>2 DEF InsertAccount, SelectNewAccount, LoginRefused, StatementFails, Answer, Goto
  <1>3. CASE SelectLogin(s) \/ ReselectLogin(s)
    BY <1>3 DEF SelectLogin, ReselectLogin, Validated, LoginResponse, Answer, Goto
  <1>4. CASE UpgradeHash(s) \/ DeleteTokens(s) \/ SelectToken(s) \/ InsertPersona(s)
    BY <1>4 DEF UpgradeHash, DeleteTokens, SelectToken, InsertPersona, Answer, Goto
  <1>5. CASE InsertToken(s) \/ TouchToken(s)
    BY <1>5 DEF InsertToken, TouchToken, LoginResponse, Answer, Goto
  <1>6. CASE SelectPersona(s) \/ ReselectPersona(s)
    BY <1>6 DEF SelectPersona, ReselectPersona, FoundPersona, PersonaResponse, Answer, Goto
  <1> QED BY <1>1, <1>2, <1>3, <1>4, <1>5, <1>6 DEF HandlerStep

\* A connection whose own state is left alone keeps LocalOK while tables grow.
LEMMA LocalKept ==
  ASSUME IInv, Grow, NEW r \in Sessions,
         pc'[r] = pc[r], req'[r] = req[r], row'[r] = row[r], accountID'[r] = accountID[r],
         personaID'[r] = personaID[r], logins'[r] = logins[r]
  PROVE  LocalOK(r)'
  <1> SUFFICES /\ logins[r] \subseteq DOMAIN accounts'
               /\ personaID[r] # 0 => /\ personaID[r] \in DOMAIN personas'
                                      /\ personas'[personaID[r]].account \in logins[r]
               /\ pc[r] = "upgradeHash" => accounts'[row[r]].password = req[r].password
               /\ pc[r] = "touchToken" => row[r] \in DOMAIN accounts'
               /\ pc[r] = "selectNewAccount" =>
                    \E i \in DOMAIN accounts' : /\ accounts'[i].nuid = req[r].nuid
                                                /\ accounts'[i].password = req[r].password
    BY DEF IInv, LocalOK
  <1>1. pc[r] = "upgradeHash" => row[r] \in DOMAIN accounts
    BY DEF IInv, Typed, RequestOK
  <1> QED BY <1>1 DEF IInv, LocalOK, Grow

\* loginResponse leaves a connection that is logged in as account i.
LEMMA LocalLogin ==
  ASSUME IInv, Grow, NEW s \in Sessions, NEW i \in DOMAIN accounts, LoginResponse(s, i)
  PROVE  LocalOK(s)'
  BY DEF IInv, Typed, TypeOK, LocalOK, Grow, LoginResponse, Answer, Goto

\* An answer that changes nothing of the session preserves LocalOK.
LEMMA LocalAnswer ==
  ASSUME IInv, Grow, NEW s \in Sessions, Answer(s), UNCHANGED <<session, logins>>
  PROVE  LocalOK(s)'
  BY DEF IInv, Typed, TypeOK, LocalOK, Grow, Answer, Goto, session

\* Both continuations of NuLogin after ValidateAccount preserve LocalOK.
LEMMA LocalValidated ==
  ASSUME IInv, Grow, NEW s \in Sessions, NEW i \in DOMAIN accounts, Validated(s, i)
  PROVE  LocalOK(s)'
  <1>1. CASE LoginResponse(s, i)
    BY <1>1, LocalLogin
  <1>2. CASE Goto(s, "deleteTokens") /\ UNCHANGED <<session, history>>
    BY <1>2 DEF IInv, Typed, TypeOK, LocalOK, Grow, Goto, session, history
  <1> QED BY <1>1, <1>2 DEF Validated

\* GetOrCreatePersona's comparison of the owner preserves LocalOK: the persona
\* a session takes belongs to the account it is logged in as.
LEMMA LocalFound ==
  ASSUME IInv, Grow, NEW s \in Sessions, FoundPersona(s),
         pc[s] \in {"selectPersona", "reselectPersona"}
  PROVE  LocalOK(s)'
  <1>1. CASE Answer(s) /\ UNCHANGED <<session, history>>
    BY <1>1, LocalAnswer DEF history
  <1>2. ASSUME NEW i \in DOMAIN personas, personas[i].account = accountID[s],
               PersonaResponse(s, i)
        PROVE  LocalOK(s)'
    <2>1. personas[i].account \in logins[s]
      BY <1>2 DEF IInv, Typed, RequestOK, LocalOK
    <2> QED BY <1>2, <2>1
            DEF IInv, Typed, TypeOK, LocalOK, Grow, PersonaResponse, Answer, Goto
  <1> QED BY <1>1, <1>2 DEF FoundPersona, PersonaRows

\* Every step of a connection preserves its own LocalOK.
LEMMA OwnLocal ==
  ASSUME IInv, Grow, NEW s \in Sessions, ClientStep(s) \/ HandlerStep(s)
  PROVE  LocalOK(s)'
  <1> DEFINE Moves(l) == Goto(s, l) /\ UNCHANGED <<session, logins>>
  <1>0. ASSUME NEW l, Moves(l), l \notin {"upgradeHash", "touchToken", "selectNewAccount"}
        PROVE  LocalOK(s)'
    BY <1>0 DEF IInv, Typed, TypeOK, LocalOK, Grow, Goto, session
  <1>1. CASE ClientStep(s)
    <2>1. CASE Disconnect(s)
      BY <2>1 DEF Disconnect, Goto, IInv, Typed, TypeOK, LocalOK
    <2>2. CASE Connect(s)
      BY <1>0, <2>2 DEF Connect, history
    <2>3. CASE NuAddAccount(s) \/ NuLogin(s) \/ NuLoginToken(s) \/ PersonaRequest(s)
      BY <1>0, <2>3, Received DEF Receive, history
    <2>4. CASE AddPersonaLoggedOut(s)
      BY <2>4, LocalKept DEF AddPersonaLoggedOut, locals, session
    <2> QED BY <1>1, <2>1, <2>2, <2>3, <2>4 DEF ClientStep
  <1>2. CASE InsertAccount(s)
    <2>1. CASE AccountRows(req[s].nuid) = {}
      <3> DEFINE k == Len(accounts) + 1
      <3>0. /\ DOMAIN accounts' = DOMAIN accounts \cup {k}
            /\ accounts'[k] = [nuid |-> req[s].nuid, password |-> req[s].password,
                                scheme |-> "pbkdf2"]
        BY <1>2, <2>1, InsertedAccount DEF IInv
      <3> HIDE DEF k
      <3>1. k \in DOMAIN accounts' /\ accounts'[k].nuid = req[s].nuid
                                    /\ accounts'[k].password = req[s].password
        BY <3>0
      <3> QED BY <1>2, <2>1, <3>1
              DEF InsertAccount, Goto, IInv, Typed, TypeOK, LocalOK, Grow, session, history
    <2>2. CASE AccountRows(req[s].nuid) # {}
      BY <1>2, <2>2, LocalAnswer DEF InsertAccount, history
    <2> QED BY <2>1, <2>2
  <1>3. CASE SelectNewAccount(s) \/ LoginRefused(s) \/ StatementFails(s)
    BY <1>3, LocalAnswer DEF SelectNewAccount, LoginRefused, StatementFails, history
  <1>4. CASE SelectLogin(s)
    <2> PICK i \in AccountRows(req[s].nuid) :
               /\ VerifyPassword(req[s].password, i)
               /\ IF accounts[i].scheme = "pbkdf2"
                    THEN Validated(s, i)
                    ELSE /\ row' = [row EXCEPT ![s] = i]
                         /\ Goto(s, "upgradeHash")
                         /\ UNCHANGED <<req, session, history>>
      BY <1>4 DEF SelectLogin
    <2>1. i \in DOMAIN accounts /\ accounts[i].password = req[s].password
      BY DEF AccountRows, VerifyPassword
    <2>2. CASE accounts[i].scheme = "pbkdf2"
      BY <2>1, <2>2, LocalValidated
    <2>3. CASE accounts[i].scheme # "pbkdf2"
      BY <2>1, <2>3 DEF Goto, IInv, Typed, TypeOK, LocalOK, Grow, session, history
    <2> QED BY <2>2, <2>3
  <1>5. CASE ReselectLogin(s)
    BY <1>5, LocalValidated DEF ReselectLogin, AccountRows
  <1>6. CASE UpgradeHash(s) \/ DeleteTokens(s) \/ InsertPersona(s)
    BY <1>0, <1>6 DEF UpgradeHash, DeleteTokens, InsertPersona, history
  <1>7. CASE InsertToken(s)
    <2>1. row[s] \in DOMAIN accounts
      BY <1>7 DEF InsertToken, IInv, Typed, RequestOK
    <2> QED BY <1>7, <2>1, LocalLogin DEF InsertToken
  <1>8. CASE SelectToken(s)
    <2>1. CASE loginTokens[req[s].token] = 0
      BY <1>8, <2>1, LocalAnswer DEF SelectToken, history
    <2>2. CASE loginTokens[req[s].token] # 0
      <3>1. loginTokens[req[s].token] \in DOMAIN accounts
        BY <1>8, <2>2 DEF SelectToken, IInv, Typed, RequestOK, TablesOK
      <3>2. /\ row' = [row EXCEPT ![s] = loginTokens[req[s].token]]
            /\ pc' = [pc EXCEPT ![s] = "touchToken"]
            /\ UNCHANGED <<accountID, personaID, logins>>
        BY <1>8, <2>2 DEF SelectToken, Goto, session, history
      <3>3. row'[s] = loginTokens[req[s].token] /\ pc'[s] = "touchToken"
        BY <3>2 DEF IInv, Typed, TypeOK
      <3>4. row'[s] \in DOMAIN accounts'
        BY <3>1, <3>3 DEF Grow
      <3> QED BY <3>2, <3>3, <3>4 DEF IInv, LocalOK, Grow
    <2> QED BY <2>1, <2>2
  <1>9. CASE TouchToken(s)
    <2>1. row[s] \in DOMAIN accounts
      BY <1>9 DEF TouchToken, IInv, LocalOK
    <2> QED BY <1>9, <2>1, LocalLogin DEF TouchToken
  <1>10. CASE SelectPersona(s)
    <2>1. CASE PersonaRows(req[s].name) # {}
      BY <1>10, <2>1, LocalFound DEF SelectPersona
    <2>2. CASE PersonaRows(req[s].name) = {}
      BY <1>0, <1>10, <2>2 DEF SelectPersona, history
    <2> QED BY <2>1, <2>2
  <1>11. CASE ReselectPersona(s)
    BY <1>11, LocalFound DEF ReselectPersona
  <1> QED BY <1>1, <1>2, <1>3, <1>4, <1>5, <1>6, <1>7, <1>8, <1>9, <1>10, <1>11
          DEF HandlerStep


-----------------------------------------------------------------------------
(* The inductive invariant *)

\* Only two statements change what the refinement sees of the tables.
LEMMA AccountsChange ==
  ASSUME IInv, [Next]_vars
  PROVE  \/ /\ DOMAIN accounts' = DOMAIN accounts
            /\ \A i \in DOMAIN accounts : /\ accounts'[i].nuid = accounts[i].nuid
                                          /\ accounts'[i].password = accounts[i].password
         \/ \E s \in Sessions : InsertAccount(s) /\ AccountRows(req[s].nuid) = {}
  <1> DEFINE Same == /\ DOMAIN accounts' = DOMAIN accounts
                     /\ \A i \in DOMAIN accounts : /\ accounts'[i].nuid = accounts[i].nuid
                                                   /\ accounts'[i].password = accounts[i].password
  <1>1. CASE Restart \/ UNCHANGED vars
    BY <1>1 DEF Restart, vars, tables
  <1>2. ASSUME NEW s \in Sessions, ClientStep(s) PROVE Same
    BY <1>2, ClientKeeps DEF tables
  <1>3. ASSUME NEW s \in Sessions, UpgradeHash(s) PROVE Same
    <2>1. UpgradeOK
      BY DEF IInv, LocalOK, UpgradeOK
    <2> QED BY <1>3, <2>1, UpgradedAccount DEF IInv
  <1>4. ASSUME NEW s \in Sessions, HandlerStep(s), ~InsertAccount(s) PROVE Same
    BY <1>3, <1>4
       DEF HandlerStep, SelectNewAccount, LoginRefused, SelectLogin, ReselectLogin,
           DeleteTokens, InsertToken, SelectToken, TouchToken, SelectPersona, InsertPersona,
           ReselectPersona, StatementFails, tables
  <1>5. ASSUME NEW s \in Sessions, InsertAccount(s), AccountRows(req[s].nuid) # {} PROVE Same
    BY <1>5 DEF InsertAccount
  <1> QED BY <1>1, <1>2, <1>4, <1>5 DEF Next

\* Only GetOrCreatePersona's INSERT, of a name without a row, changes personas.
LEMMA PersonasChange ==
  ASSUME IInv, [Next]_vars
  PROVE  \/ personas' = personas
         \/ \E s \in Sessions : InsertPersona(s) /\ PersonaRows(req[s].name) = {}
  <1>1. CASE Restart \/ UNCHANGED vars
    BY <1>1 DEF Restart, vars, tables
  <1>2. ASSUME NEW s \in Sessions, ClientStep(s) PROVE personas' = personas
    BY <1>2, ClientKeeps DEF tables
  <1>3. ASSUME NEW s \in Sessions, HandlerStep(s), ~InsertPersona(s) PROVE personas' = personas
    BY <1>3
       DEF HandlerStep, InsertAccount, SelectNewAccount, LoginRefused, SelectLogin, UpgradeHash,
           ReselectLogin, DeleteTokens, InsertToken, SelectToken, TouchToken, SelectPersona,
           ReselectPersona, StatementFails, tables
  <1>4. ASSUME NEW s \in Sessions, InsertPersona(s), PersonaRows(req[s].name) # {}
        PROVE  personas' = personas
    BY <1>4 DEF InsertPersona
  <1> QED BY <1>1, <1>2, <1>3, <1>4 DEF Next

\* A token row is only written for the account of the login that writes it.
LEMMA TokensChange ==
  ASSUME IInv, [Next]_vars, NEW t \in Tokens
  PROVE  loginTokens'[t] \in {0, loginTokens[t]} \cup DOMAIN accounts
  <1> DEFINE Same == loginTokens'[t] \in {0, loginTokens[t]} \cup DOMAIN accounts
  <1>1. CASE Restart \/ UNCHANGED vars
    BY <1>1 DEF Restart, vars, tables
  <1>2. ASSUME NEW s \in Sessions, ClientStep(s) PROVE Same
    BY <1>2, ClientKeeps DEF tables
  <1>3. ASSUME NEW s \in Sessions, DeleteTokens(s) PROVE Same
    BY <1>3 DEF DeleteTokens
  <1>4. ASSUME NEW s \in Sessions, InsertToken(s) PROVE Same
    BY <1>4 DEF InsertToken, IInv, Typed, TypeOK, RequestOK
  <1>5. ASSUME NEW s \in Sessions, HandlerStep(s), ~DeleteTokens(s), ~InsertToken(s)
        PROVE  Same
    BY <1>5
       DEF HandlerStep, InsertAccount, SelectNewAccount, LoginRefused, SelectLogin, UpgradeHash,
           ReselectLogin, SelectToken, TouchToken, SelectPersona, InsertPersona,
           ReselectPersona, StatementFails, tables
  <1> QED BY <1>1, <1>2, <1>3, <1>4, <1>5 DEF Next

Acknowledged(c) == \E i \in DOMAIN accounts : accounts[i].nuid = c[1] /\ accounts[i].password = c[2]
Granted(g) ==
  g[1] # 0 => \E i \in DOMAIN personas : personas[i].account = g[1] /\ personas[i].name = g[2]

\* What clients have been told grows only by what the tables already hold.
LEMMA AnswersChange ==
  ASSUME IInv, [Next]_vars
  PROVE  /\ \A c \in promised' : c \in promised \/ Acknowledged(c)
         /\ \A g \in granted' : g \in granted \/ Granted(g)
  <1> DEFINE Same == /\ \A c \in promised' : c \in promised \/ Acknowledged(c)
                     /\ \A g \in granted' : g \in granted \/ Granted(g)
  <1>1. CASE Restart \/ UNCHANGED vars
    BY <1>1 DEF Restart, vars, history
  <1>2. ASSUME NEW s \in Sessions, ClientStep(s) PROVE Same
    BY <1>2, ClientKeeps DEF history, Granted
  <1>3. ASSUME NEW s \in Sessions, SelectNewAccount(s) PROVE Same
    <2>1. Acknowledged(<<req[s].nuid, req[s].password>>)
      BY <1>3 DEF SelectNewAccount, IInv, LocalOK, Acknowledged
    <2> QED BY <1>3, <2>1 DEF SelectNewAccount
  <1>4. ASSUME NEW s \in Sessions, FoundPersona(s) PROVE Same
    <2>1. CASE UNCHANGED history
      BY <2>1 DEF history
    <2>2. ASSUME NEW i \in PersonaRows(req[s].name), personas[i].account = accountID[s],
                 PersonaResponse(s, i)
          PROVE  Same
      <3>1. Granted(<<accountID[s], req[s].name>>)
        BY <2>2 DEF PersonaRows, Granted
      <3> QED BY <2>2, <3>1 DEF PersonaResponse
    <2> QED BY <1>4, <2>1, <2>2 DEF FoundPersona
  <1>5. ASSUME NEW s \in Sessions, SelectPersona(s) \/ ReselectPersona(s) PROVE Same
    BY <1>4, <1>5 DEF SelectPersona, ReselectPersona, history
  <1>6. ASSUME NEW s \in Sessions, HandlerStep(s), ~SelectNewAccount(s),
               ~SelectPersona(s), ~ReselectPersona(s)
        PROVE  Same
    BY <1>6
       DEF HandlerStep, InsertAccount, LoginRefused, SelectLogin, UpgradeHash, ReselectLogin,
           DeleteTokens, InsertToken, SelectToken, TouchToken, InsertPersona, StatementFails,
           Validated, LoginResponse, history
  <1> QED BY <1>1, <1>2, <1>3, <1>5, <1>6 DEF Next

\* The invariant of the tables survives every step: names stay unique, owners
\* and token holders exist, and what was promised is there.
LEMMA TablesStep ==
  ASSUME IInv, Grow, [Next]_vars
  PROVE  TablesOK'
  <1>1. \A i, j \in DOMAIN accounts' : accounts'[i].nuid = accounts'[j].nuid => i = j
    <2>1. ASSUME NEW s \in Sessions, InsertAccount(s), AccountRows(req[s].nuid) = {}
          PROVE  \A i, j \in DOMAIN accounts' : accounts'[i].nuid = accounts'[j].nuid => i = j
      <3> DEFINE k == Len(accounts) + 1
      <3>1. /\ DOMAIN accounts' = DOMAIN accounts \cup {k}
            /\ accounts'[k] = [nuid |-> req[s].nuid, password |-> req[s].password,
                               scheme |-> "pbkdf2"]
            /\ \A i \in DOMAIN accounts : accounts'[i] = accounts[i]
        BY <2>1, InsertedAccount DEF IInv
      <3> HIDE DEF k
      <3>2. accounts'[k].nuid = req[s].nuid
        BY <3>1
      <3>3. \A i \in DOMAIN accounts : accounts[i].nuid # req[s].nuid
        BY <2>1 DEF AccountRows
      <3> QED BY <3>1, <3>2, <3>3 DEF IInv, TablesOK
    <2> QED BY <2>1, AccountsChange DEF IInv, TablesOK
  <1>2. /\ \A i, j \in DOMAIN personas' : personas'[i].name = personas'[j].name => i = j
        /\ \A i \in DOMAIN personas' : personas'[i].account \in DOMAIN accounts'
    <2>1. ASSUME NEW s \in Sessions, InsertPersona(s), PersonaRows(req[s].name) = {}
          PROVE  /\ \A i, j \in DOMAIN personas' :
                      personas'[i].name = personas'[j].name => i = j
                 /\ \A i \in DOMAIN personas' : personas'[i].account \in DOMAIN accounts'
      <3> DEFINE k == Len(personas) + 1
      <3>1. /\ DOMAIN personas' = DOMAIN personas \cup {k}
            /\ personas'[k] = [account |-> accountID[s], name |-> req[s].name]
            /\ \A i \in DOMAIN personas : personas'[i] = personas[i]
        BY <2>1, InsertedPersona DEF IInv
      <3> HIDE DEF k
      <3>2. personas'[k].name = req[s].name /\ personas'[k].account = accountID[s]
        BY <3>1
      <3>3. \A i \in DOMAIN personas : personas[i].name # req[s].name
        BY <2>1 DEF PersonaRows
      <3>4. accountID[s] \in DOMAIN accounts
        BY <2>1 DEF InsertPersona, IInv, Typed, RequestOK, LocalOK
      <3> QED BY <3>1, <3>2, <3>3, <3>4 DEF IInv, TablesOK, Grow
    <2> QED BY <2>1, PersonasChange DEF IInv, TablesOK, Grow
  <1>3. \A t \in Tokens : loginTokens'[t] # 0 => loginTokens'[t] \in DOMAIN accounts'
    BY TokensChange DEF IInv, TablesOK, Grow
  <1>4. \A c \in promised' : Acknowledged(c)'
    BY AnswersChange DEF IInv, TablesOK, Grow, Acknowledged
  <1>5. \A g \in granted' : Granted(g)'
    BY AnswersChange DEF IInv, TablesOK, Grow, Granted
  <1> QED BY <1>1, <1>2, <1>3, <1>4, <1>5 DEF TablesOK, Acknowledged, Granted

\* IInv is inductive.
LEMMA InvariantStep ==
  ASSUME IInv, [Next]_vars
  PROVE  IInv'
  <1>1. Grow
    BY TablesGrow DEF IInv, LocalOK, UpgradeOK
  <1>2. Typed' /\ TablesOK'
    BY <1>1, TypedStep, TablesStep DEF IInv
  <1>3. ASSUME NEW r \in Sessions PROVE LocalOK(r)'
    <2>1. CASE UNCHANGED vars
      BY <1>1, <2>1, LocalKept DEF vars, locals, session, history
    <2>2. CASE Restart
      BY <1>1, <2>2 DEF Restart, IInv, LocalOK, Grow
    <2>3. ASSUME NEW s \in Sessions, ClientStep(s) \/ HandlerStep(s) PROVE LocalOK(r)'
      <3>1. CASE r = s
        BY <1>1, <2>3, <3>1, OwnLocal
      <3>2. CASE r # s
        <4>1. /\ pc'[r] = pc[r] /\ req'[r] = req[r] /\ row'[r] = row[r]
              /\ accountID'[r] = accountID[r] /\ personaID'[r] = personaID[r]
              /\ logins'[r] = logins[r]
          BY <2>3, <3>2, OthersKept DEF IInv
        <4> QED BY <1>1, <4>1, LocalKept
      <3> QED BY <3>1, <3>2
    <2> QED BY <2>1, <2>2, <2>3 DEF Next
  <1> QED BY <1>2, <1>3 DEF IInv

\* IInv holds when the server starts for the first time.
LEMMA InvariantInit == Init => IInv
  <1> SUFFICES ASSUME Init PROVE IInv
    OBVIOUS
  <1>1. Typed
    BY TypedInit
  <1>2. \A i, j \in DOMAIN accounts : i = j
    BY DEF Init
  <1>3. DOMAIN personas = {}
    BY DEF Init
  <1>4. TablesOK
    BY <1>2, <1>3 DEF Init, TablesOK
  <1>5. \A s \in Sessions : LocalOK(s)
    BY DEF Init, LocalOK
  <1> QED BY <1>1, <1>4, <1>5 DEF IInv

\* IInv holds for ever; the theorems below are read off it.
LEMMA Invariant == Spec => []IInv
  BY InvariantInit, InvariantStep, PTL DEF Spec

\* A connection only ever plays as a persona of an account it has proved to
\* be, however many connections race for the persona's name.
THEOREM Ownership == Spec => []PersonaOwnedByLogin
  <1>1. IInv => PersonaOwnedByLogin
    BY DEF IInv, LocalOK, PersonaOwnedByLogin
  <1> QED BY <1>1, Invariant, PTL

\* An acknowledged account is the account of the client it was acknowledged to.
THEOREM AcknowledgedAccounts == Spec => []AcknowledgedAccountVerifies
  <1>1. IInv => AcknowledgedAccountVerifies
    BY DEF IInv, TablesOK, AcknowledgedAccountVerifies
  <1> QED BY <1>1, Invariant, PTL

\* An acknowledged persona name is acknowledged to one account only, for ever.
THEOREM GrantedNames == Spec => []GrantedNamesAgree
  <1>1. IInv => GrantedNamesAgree
    BY DEF IInv, TablesOK, GrantedNamesAgree
  <1> QED BY <1>1, Invariant, PTL

\* No step of any connection changes an account's name or password.
THEOREM PasswordsStay == Spec => PasswordsNeverChange
  <1>1. ASSUME IInv, [Next]_vars
        PROVE  \A i \in DOMAIN accounts :
                 /\ i \in DOMAIN accounts'
                 /\ accounts'[i].nuid = accounts[i].nuid
                 /\ accounts'[i].password = accounts[i].password
                 /\ accounts[i].scheme = "pbkdf2" => accounts'[i].scheme = "pbkdf2"
    BY <1>1, TablesGrow DEF IInv, LocalOK, UpgradeOK, Grow
  <1> QED BY <1>1, Invariant, PTL DEF Spec, PasswordsNeverChange

-----------------------------------------------------------------------------
(* Refinement of Identity *)

\* While no account is added the credentials of the service stay the same.
LEMMA CredentialKept ==
  ASSUME Grow, DOMAIN accounts' = DOMAIN accounts
  PROVE  Credential' = Credential
  <1>1. \A i \in DOMAIN accounts : <<accounts'[i].nuid, accounts'[i].password>>
                                     = <<accounts[i].nuid, accounts[i].password>>
    BY DEF Grow
  <1> QED BY <1>1 DEF Credential

\* While no persona is added the owners of names stay the same.
LEMMA OwnerKept ==
  ASSUME IInv, Grow, personas' = personas
  PROVE  Owner' = Owner
  <1>1. \A i \in DOMAIN personas : NuidOf(personas[i].account)' = NuidOf(personas[i].account)
    BY DEF NuidOf, Grow, IInv, TablesOK
  <1>2. Owner' = {<<personas[i].name, NuidOf(personas[i].account)'>> : i \in DOMAIN personas}
    BY DEF Owner, NuidOf
  <1> QED BY <1>1, <1>2 DEF Owner

\* A connection stays who it is while its accountID stays.
LEMMA WhoKept ==
  ASSUME IInv, Grow, accountID' = accountID
  PROVE  Who' = Who
  <1>1. \A s \in Sessions : NuidOf(accountID[s])' = NuidOf(accountID[s])
    BY DEF NuidOf, Grow, IInv, LocalOK
  <1> QED BY <1>1 DEF Who

\* A connection keeps playing its persona while its personaID stays.
LEMMA PlayingKept ==
  ASSUME IInv, Grow, personaID' = personaID
  PROVE  Playing' = Playing
  <1>1. \A s \in Sessions : NameOf(personaID[s])' = NameOf(personaID[s])
    BY DEF NameOf, Grow, IInv, LocalOK
  <1> QED BY <1>1 DEF Playing

\* A step that leaves the sessions and the names of the tables alone is invisible.
LEMMA Stutter ==
  ASSUME IInv, Grow, DOMAIN accounts' = DOMAIN accounts, personas' = personas,
         accountID' = accountID, personaID' = personaID
  PROVE  UNCHANGED Promise!ivars
BY CredentialKept, OwnerKept, WhoKept, PlayingKept DEF Promise!ivars

\* The insert of NuAddAccount creates the account.
LEMMA InsertCreates ==
  ASSUME IInv, Grow, NEW s \in Sessions, InsertAccount(s), AccountRows(req[s].nuid) = {}
  PROVE  Promise!CreateAccount(req[s].nuid, req[s].password)
  <1> DEFINE k == Len(accounts) + 1
             n == req[s].nuid
             p == req[s].password
  <1>1. /\ DOMAIN accounts' = DOMAIN accounts \cup {k}
        /\ accounts'[k] = [nuid |-> n, password |-> p, scheme |-> "pbkdf2"]
        /\ \A i \in DOMAIN accounts : accounts'[i] = accounts[i]
    BY InsertedAccount DEF IInv
  <1>2. UNCHANGED <<Owner, Who, Playing>>
    BY OwnerKept, WhoKept, PlayingKept DEF InsertAccount, session
  <1>3. \A q \in Passwords : <<n, q>> \notin Credential
    BY DEF Credential, AccountRows
  <1> HIDE DEF k, n, p
  <1>4. Credential' = Credential \cup {<<n, p>>}
    <2>1. accounts'[k].nuid = n /\ accounts'[k].password = p
      BY <1>1
    <2>2. Credential' = {<<accounts'[i].nuid, accounts'[i].password>> :
                           i \in DOMAIN accounts \cup {k}}
      BY <1>1 DEF Credential
    <2>3. {<<accounts'[i].nuid, accounts'[i].password>> : i \in DOMAIN accounts} = Credential
      BY <1>1 DEF Credential
    <2> QED BY <2>1, <2>2, <2>3
  <1> QED BY <1>2, <1>3, <1>4 DEF Promise!CreateAccount, n, p

\* The insert of GetOrCreatePersona claims the name for the connection's account.
LEMMA InsertClaims ==
  ASSUME IInv, Grow, NEW s \in Sessions, InsertPersona(s), PersonaRows(req[s].name) = {}
  PROVE  Promise!ClaimName(s, req[s].name)
  <1> DEFINE k == Len(personas) + 1
             m == req[s].name
             a == accountID[s]
  <1>1. /\ DOMAIN personas' = DOMAIN personas \cup {k}
        /\ personas'[k] = [account |-> a, name |-> m]
        /\ \A i \in DOMAIN personas : personas'[i] = personas[i]
    BY InsertedPersona DEF IInv
  <1>2. UNCHANGED <<Credential, Who, Playing>>
    BY CredentialKept, WhoKept, PlayingKept DEF InsertPersona, session
  <1>3. a # 0 /\ a \in DOMAIN accounts /\ accounts[a] \in AccountRow
    BY DEF InsertPersona, IInv, Typed, TypeOK, RequestOK, LocalOK
  <1>4. Who[s] = accounts[a].nuid /\ Who[s] # None
    BY <1>3, NoneAssumption DEF Who, NuidOf, AccountRow
  <1>5. \A q : <<m, q>> \notin Owner
    BY DEF Owner, PersonaRows
  <1> DEFINE Next_nuid(i) == IF i = 0 THEN None ELSE accounts'[i].nuid
             new(i) == <<personas'[i].name, Next_nuid(personas'[i].account)>>
             old(i) == <<personas[i].name, NuidOf(personas[i].account)>>
  <1>6. Next_nuid(a) = Who[s]
    BY <1>3, <1>4 DEF Grow
  <1>7. \A i \in DOMAIN personas : Next_nuid(personas[i].account) = NuidOf(personas[i].account)
    BY DEF NuidOf, Grow, IInv, TablesOK
  <1>8. Owner' = Owner \cup {<<m, Who[s]>>}
    <2>1. Owner' = {new(i) : i \in DOMAIN personas'}
      BY DEF Owner, NuidOf
    <2>2. Owner = {old(i) : i \in DOMAIN personas}
      BY DEF Owner
    <2> HIDE DEF k, m, a, Next_nuid
    <2>3. \A i \in DOMAIN personas : new(i) = old(i)
      BY <1>1, <1>7
    <2>4. new(k) = <<m, Who[s]>>
      BY <1>1, <1>6
    <2> HIDE DEF new, old
    <2> QED BY <1>1, <2>1, <2>2, <2>3, <2>4
  <1> QED BY <1>2, <1>4, <1>5, <1>8 DEF Promise!ClaimName, m

\* loginResponse logs the connection in.
LEMMA ResponseLogsIn ==
  ASSUME IInv, Grow, NEW s \in Sessions, NEW i \in DOMAIN accounts, LoginResponse(s, i),
         UNCHANGED <<accounts, personas>>
  PROVE  Promise!LogIn(s, accounts[i].nuid)
  <1>1. UNCHANGED <<Credential, Owner, Playing>>
    BY CredentialKept, OwnerKept, PlayingKept DEF LoginResponse
  <1>2. <<accounts[i].nuid, accounts[i].password>> \in Credential
    BY DEF Credential
  <1>3. accounts[i].password \in Passwords /\ i # 0
    <2>1. accounts[i] \in AccountRow /\ i # 0
      BY DEF IInv, Typed, TypeOK
    <2> QED BY <2>1 DEF AccountRow
  <1>4. Who' = [Who EXCEPT ![s] = accounts[i].nuid]
    <2>1. accountID' = [accountID EXCEPT ![s] = i] /\ accountID \in [Sessions -> Nat]
      BY DEF LoginResponse, IInv, Typed, TypeOK
    <2>2. Who' = [r \in Sessions |-> IF accountID'[r] = 0 THEN None
                                       ELSE accounts[accountID'[r]].nuid]
      BY DEF Who, NuidOf
    <2>3. Who = [r \in Sessions |-> IF accountID[r] = 0 THEN None
                                      ELSE accounts[accountID[r]].nuid]
      BY DEF Who, NuidOf
    <2> QED BY <1>3, <2>1, <2>2, <2>3
  <1> QED BY <1>1, <1>2, <1>3, <1>4 DEF Promise!LogIn

\* NuLoginPersona's answer makes the connection play as the persona.
LEMMA ResponsePlays ==
  ASSUME IInv, Grow, NEW s \in Sessions, NEW i \in PersonaRows(req[s].name),
         personas[i].account = accountID[s], PersonaResponse(s, i),
         UNCHANGED tables
  PROVE  Promise!Play(s, req[s].name) \/ UNCHANGED Promise!ivars
  <1>1. UNCHANGED <<Credential, Owner, Who>>
    BY CredentialKept, OwnerKept, WhoKept DEF PersonaResponse, tables
  <1>2. i \in DOMAIN personas /\ personas[i].name = req[s].name /\ i # 0
    <2>1. i \in DOMAIN personas /\ personas[i].name = req[s].name
      BY DEF PersonaRows
    <2> QED BY <2>1 DEF IInv, Typed, TypeOK
  <1>3. <<req[s].name, Who[s]>> \in Owner
    <2>1. Who[s] = NuidOf(personas[i].account)
      BY DEF Who
    <2> QED BY <1>2, <2>1 DEF Owner
  <1>4. CASE personaID' = personaID
    BY <1>1, <1>4, PlayingKept DEF Promise!ivars
  <1>5. CASE personaID' = [personaID EXCEPT ![s] = i]
    <2>1. personaID \in [Sessions -> Nat] /\ personas' = personas
      BY DEF IInv, Typed, TypeOK, tables
    <2>2. Playing' = [r \in Sessions |-> IF personaID'[r] = 0 THEN None
                                           ELSE personas[personaID'[r]].name]
      BY <2>1 DEF Playing, NameOf
    <2>3. Playing = [r \in Sessions |-> IF personaID[r] = 0 THEN None
                                          ELSE personas[personaID[r]].name]
      BY DEF Playing, NameOf
    <2>4. Playing' = [Playing EXCEPT ![s] = req[s].name]
      BY <1>2, <1>5, <2>1, <2>2, <2>3
    <2> QED BY <1>1, <1>3, <2>4 DEF Promise!Play
  <1> QED BY <1>4, <1>5 DEF PersonaResponse

\* Connections end: Disconnect ends one, Restart all of them.
LEMMA SessionsEnd ==
  ASSUME IInv, NEW S \in SUBSET Sessions, UNCHANGED <<accounts, personas>>,
         accountID' = [r \in Sessions |-> IF r \in S THEN 0 ELSE accountID[r]],
         personaID' = [r \in Sessions |-> IF r \in S THEN 0 ELSE personaID[r]]
  PROVE  Promise!End(S)
  <1>1. Credential' = Credential /\ Owner' = Owner
    BY DEF Credential, Owner, NuidOf
  <1>2. Who' = [r \in Sessions |-> IF r \in S THEN None ELSE Who[r]]
    BY DEF Who, NuidOf
  <1>3. Playing' = [r \in Sessions |-> IF r \in S THEN None ELSE Playing[r]]
    BY DEF Playing, NameOf
  <1> QED BY <1>1, <1>2, <1>3 DEF Promise!End

\* Every step of the handlers is a step of the service or invisible to it.
LEMMA RefinementStep ==
  ASSUME IInv, [Next]_vars
  PROVE  [Promise!Next]_(Promise!ivars)
  <1> DEFINE Goal == Promise!Next \/ UNCHANGED Promise!ivars
  <1> SUFFICES Goal
    OBVIOUS
  <1>1. Grow
    BY TablesGrow DEF IInv, LocalOK, UpgradeOK
  <1>2. CASE UNCHANGED <<accounts, personas, accountID, personaID>>
    BY <1>1, <1>2, Stutter
  <1>3. CASE UNCHANGED vars
    BY <1>2, <1>3 DEF vars, tables, session
  <1>4. CASE Restart
    <2>1. Promise!End(Sessions)
      BY <1>4, SessionsEnd DEF Restart, tables
    <2> QED BY <2>1 DEF Promise!Next
  <1>5. ASSUME NEW s \in Sessions, ClientStep(s) PROVE Goal
    <2>1. CASE Disconnect(s)
      <3>1. Promise!End({s})
        <4>1. /\ accountID' = [r \in Sessions |-> IF r \in {s} THEN 0 ELSE accountID[r]]
              /\ personaID' = [r \in Sessions |-> IF r \in {s} THEN 0 ELSE personaID[r]]
          BY <2>1 DEF Disconnect, IInv, Typed, TypeOK
        <4> QED BY <2>1, <4>1, SessionsEnd DEF Disconnect, tables
      <3> QED BY <3>1 DEF Promise!Next
    <2>2. CASE ~Disconnect(s)
      BY <1>2, <1>5, <2>2, ClientKeeps DEF tables, session
    <2> QED BY <2>1, <2>2
  <1>6. ASSUME NEW s \in Sessions, NEW i \in DOMAIN accounts, LoginResponse(s, i),
               UNCHANGED <<accounts, personas>>
        PROVE  Goal
    <2>1. accounts[i].nuid \in Nuids
      <3>1. accounts[i] \in AccountRow
        BY DEF IInv, Typed, TypeOK
      <3> QED BY <3>1 DEF AccountRow
    <2> QED BY <1>1, <1>6, <2>1, ResponseLogsIn DEF Promise!Next
  <1>7. ASSUME NEW s \in Sessions, NEW i \in DOMAIN accounts, Validated(s, i), UNCHANGED tables
        PROVE  Goal
    BY <1>2, <1>6, <1>7 DEF Validated, tables, session
  <1>8. ASSUME NEW s \in Sessions, FoundPersona(s), UNCHANGED tables,
               pc[s] \in {"selectPersona", "reselectPersona"}
        PROVE  Goal
    <2>1. req[s].name \in Names
      BY <1>8 DEF IInv, Typed, RequestOK
    <2>2. CASE UNCHANGED session
      BY <1>2, <1>8, <2>2 DEF tables, session
    <2>3. ASSUME NEW i \in PersonaRows(req[s].name), personas[i].account = accountID[s],
                 PersonaResponse(s, i)
          PROVE  Goal
      BY <1>1, <1>8, <2>1, <2>3, ResponsePlays DEF Promise!Next
    <2> QED BY <1>8, <2>2, <2>3 DEF FoundPersona
  <1>9. ASSUME NEW s \in Sessions, HandlerStep(s) PROVE Goal
    <2>1. CASE InsertAccount(s)
      <3>1. CASE AccountRows(req[s].nuid) = {}
        <4>1. req[s].nuid \in Nuids /\ req[s].password \in Passwords
          BY <2>1 DEF InsertAccount, IInv, Typed, RequestOK
        <4> QED BY <1>1, <2>1, <3>1, <4>1, InsertCreates DEF Promise!Next
      <3>2. CASE AccountRows(req[s].nuid) # {}
        BY <1>2, <2>1, <3>2 DEF InsertAccount, session
      <3> QED BY <3>1, <3>2
    <2>2. CASE InsertPersona(s)
      <3>1. CASE PersonaRows(req[s].name) = {}
        <4>1. req[s].name \in Names
          BY <2>2 DEF InsertPersona, IInv, Typed, RequestOK
        <4> QED BY <1>1, <2>2, <3>1, <4>1, InsertClaims DEF Promise!Next
      <3>2. CASE PersonaRows(req[s].name) # {}
        BY <1>2, <2>2, <3>2 DEF InsertPersona, session
      <3> QED BY <3>1, <3>2
    <2>3. CASE SelectNewAccount(s) \/ LoginRefused(s) \/ DeleteTokens(s) \/ SelectToken(s)
               \/ StatementFails(s)
      BY <1>2, <2>3 DEF SelectNewAccount, LoginRefused, DeleteTokens, SelectToken,
                        StatementFails, tables, session
    <2>4. CASE UpgradeHash(s)
      <3>1. DOMAIN accounts' = DOMAIN accounts /\ UNCHANGED <<personas, session>>
        BY <2>4, UpgradedAccount DEF UpgradeHash, IInv, LocalOK, UpgradeOK
      <3> QED BY <1>1, <3>1, Stutter DEF session
    <2>5. CASE SelectLogin(s)
      <3> PICK i \in DOMAIN accounts : Validated(s, i) \/ UNCHANGED session
        BY <2>5 DEF SelectLogin, AccountRows
      <3>1. CASE Validated(s, i)
        BY <1>7, <2>5, <3>1 DEF SelectLogin
      <3>2. CASE UNCHANGED session
        BY <1>2, <2>5, <3>2 DEF SelectLogin, tables, session
      <3> QED BY <3>1, <3>2
    <2>6. CASE ReselectLogin(s)
      BY <1>7, <2>6 DEF ReselectLogin, AccountRows
    <2>7. CASE InsertToken(s)
      <3>1. row[s] \in DOMAIN accounts
        BY <2>7 DEF InsertToken, IInv, Typed, RequestOK
      <3> QED BY <1>6, <2>7, <3>1 DEF InsertToken
    <2>8. CASE TouchToken(s)
      <3>1. row[s] \in DOMAIN accounts
        BY <2>8 DEF TouchToken, IInv, LocalOK
      <3> QED BY <1>6, <2>8, <3>1 DEF TouchToken, tables
    <2>9. CASE SelectPersona(s)
      <3>1. CASE PersonaRows(req[s].name) # {}
        BY <1>8, <2>9, <3>1 DEF SelectPersona
      <3>2. CASE PersonaRows(req[s].name) = {}
        BY <1>2, <2>9, <3>2 DEF SelectPersona, tables, session
      <3> QED BY <3>1, <3>2
    <2>10. CASE ReselectPersona(s)
      BY <1>8, <2>10 DEF ReselectPersona
    <2> QED BY <1>9, <2>1, <2>2, <2>3, <2>4, <2>5, <2>6, <2>7, <2>8, <2>9, <2>10
            DEF HandlerStep
  <1> HIDE DEF Goal
  <1> QED BY <1>3, <1>4, <1>5, <1>9 DEF Next

\* The tables and sessions of a fresh server are an initial state of the service.
LEMMA RefinementInit == Init => Promise!Init
  <1> SUFFICES ASSUME Init PROVE Promise!Init
    OBVIOUS
  <1>1. Credential \in {{}} \cup {{<<n, p>>} : n \in Nuids, p \in Passwords}
    <2>1. CASE accounts = <<>>
      <3>1. Credential = {}
        BY <2>1 DEF Credential
      <3> QED BY <3>1
    <2>2. ASSUME NEW n \in Nuids, NEW p \in Passwords,
                 accounts = <<[nuid |-> n, password |-> p, scheme |-> "plaintext"]>>
          PROVE  Credential = {<<n, p>>}
      <3>1. DOMAIN accounts = {1} /\ accounts[1].nuid = n /\ accounts[1].password = p
        BY <2>2
      <3> QED BY <3>1 DEF Credential
    <2> QED BY <2>1, <2>2 DEF Init
  <1>2. Owner = {}
    BY DEF Init, Owner
  <1>3. Who = [s \in Sessions |-> None] /\ Playing = [s \in Sessions |-> None]
    BY DEF Init, Who, Playing, NuidOf, NameOf
  <1> QED BY <1>1, <1>2, <1>3 DEF Promise!Init

\* The handlers, statement by statement, with their races, failed statements
\* and restarts, implement the service in which every request is one step.
THEOREM Refinement == Spec => ImplementsIdentity
  BY RefinementInit, Invariant, RefinementStep, PTL DEF Spec, ImplementsIdentity, Promise!Spec
-----------------------------------------------------------------------------
(***************************************************************************)
(* The login tokens.  The theorems rest on IInv and on what a handler      *)
(* knows of its token and of its account while other connections write     *)
(* login_tokens between two of its statements.                             *)
(***************************************************************************)
\* At insertToken the new token is this handler's alone and has no row yet, and
\* the DELETE before it has left the account no earlier token of this connection.
InserterOK(s) ==
  pc[s] = "insertToken" =>
    /\ issued[req[s].token] = [account |-> row[s], session |-> s]
    /\ loginTokens[req[s].token] = 0
    /\ \A u \in Tokens : loginTokens[u] = row[s] => issued[u].session # s

\* A handler that has read a token holds the account it was issued for.
ReaderOK(s) ==
  /\ pc[s] \in {"selectToken", "touchToken"} => req[s].nuid = None
  /\ pc[s] = "touchToken" => row[s] = issued[req[s].token].account

\* A handler that has verified a password holds the account it belongs to.
VerifierOK(s) ==
  pc[s] \in {"upgradeHash", "reselectLogin", "deleteTokens", "insertToken"} =>
    accounts[row[s]].nuid = req[s].nuid /\ accounts[row[s]].password = req[s].password

HolderOK(s) == InserterOK(s) /\ ReaderOK(s) /\ VerifierOK(s)

TokenInv == OneTokenPerIssuer /\ \A s \in Sessions : HolderOK(s)

\* Rows are numbered from 1.
LEMMA RowsFromOne == Typed => 0 \notin DOMAIN accounts
  BY DEF Typed, TypeOK

\* Only the two statements of IssueLoginToken write login_tokens or draw a token.
LEMMA TokenWriters ==
  ASSUME [Next]_vars
  PROVE  \/ UNCHANGED <<loginTokens, issued>>
         \/ \E s \in Sessions : DeleteTokens(s) \/ InsertToken(s)
  <1> DEFINE Same == UNCHANGED <<loginTokens, issued>>
  <1>1. CASE Restart \/ UNCHANGED vars
    BY <1>1 DEF Restart, vars, tables, history
  <1>2. ASSUME NEW s \in Sessions, ClientStep(s) PROVE Same
    BY <1>2, ClientKeeps DEF tables, history
  <1>3. ASSUME NEW s \in Sessions, HandlerStep(s), ~DeleteTokens(s), ~InsertToken(s)
        PROVE  Same
    BY <1>3
       DEF HandlerStep, InsertAccount, SelectNewAccount, LoginRefused, SelectLogin, UpgradeHash,
           ReselectLogin, SelectToken, TouchToken, SelectPersona, InsertPersona,
           ReselectPersona, StatementFails, Validated, LoginResponse, FoundPersona,
           PersonaResponse, tables, history
  <1> QED BY <1>1, <1>2, <1>3 DEF Next

\* A connection that is not the one that moves keeps what it knows of the
\* accounts: rows keep their names and passwords.
LEMMA VerifierKept ==
  ASSUME IInv, TokenInv, Grow, NEW r \in Sessions,
         pc'[r] = pc[r], req'[r] = req[r], row'[r] = row[r]
  PROVE  VerifierOK(r)'
  BY DEF IInv, Typed, RequestOK, TokenInv, HolderOK, VerifierOK, Grow

\* DELETE FROM login_tokens: a token that has never been issued has no row, and
\* afterwards the account has none at all.
LEMMA DeleteRevokes ==
  ASSUME IInv, TokenInv, NEW s \in Sessions, DeleteTokens(s)
  PROVE  /\ \A u \in Tokens : loginTokens'[u] \in {0, loginTokens[u]} \ {row[s]}
         /\ req'[s].token \in Tokens
         /\ issued[req'[s].token] = Unissued
         /\ issued'[req'[s].token] = [account |-> row[s], session |-> s]
         /\ loginTokens[req'[s].token] = 0 /\ loginTokens'[req'[s].token] = 0
         /\ \A u \in Tokens \ {req'[s].token} : issued'[u] = issued[u]
         /\ row[s] # 0
  <1>1. row[s] # 0
    BY RowsFromOne DEF DeleteTokens, IInv, Typed, RequestOK
  <1>2. PICK t \in FreshTokens : /\ issued' = [issued EXCEPT ![t] = [account |-> row[s], session |-> s]]
                                 /\ req' = [req EXCEPT ![s].token = t]
    BY DEF DeleteTokens
  <1>3. t \in Tokens /\ issued[t] = Unissued
    BY <1>2 DEF FreshTokens
  <1>4. req'[s].token = t
    BY <1>2 DEF IInv, Typed, TypeOK, Request
  <1>5. loginTokens[t] = 0
    BY <1>3 DEF TokenInv, OneTokenPerIssuer, Unissued
  <1>6. loginTokens' = [u \in Tokens |-> IF loginTokens[u] = row[s] THEN 0 ELSE loginTokens[u]]
    BY DEF DeleteTokens
  <1>7. issued'[t] = [account |-> row[s], session |-> s]
        /\ \A u \in Tokens \ {t} : issued'[u] = issued[u]
    BY <1>2, <1>3 DEF IInv, Typed, TypeOK
  <1> QED BY <1>1, <1>3, <1>4, <1>5, <1>6, <1>7

\* DeleteTokens preserves the invariant: it frees tokens and draws a fresh one.
LEMMA DeleteStep ==
  ASSUME IInv, TokenInv, Grow, NEW s \in Sessions, DeleteTokens(s)
  PROVE  TokenInv'
  <1> DEFINE t == req'[s].token
  <1>1. /\ \A u \in Tokens : loginTokens'[u] \in {0, loginTokens[u]} \ {row[s]}
        /\ t \in Tokens
        /\ issued[t] = Unissued
        /\ issued'[t] = [account |-> row[s], session |-> s]
        /\ loginTokens[t] = 0 /\ loginTokens'[t] = 0
        /\ \A u \in Tokens \ {t} : issued'[u] = issued[u]
        /\ row[s] # 0
    BY DeleteRevokes
  <1>2. /\ pc'[s] = "insertToken" /\ row' = row /\ accounts' = accounts
        /\ req'[s].nuid = req[s].nuid /\ req'[s].password = req[s].password
        /\ pc[s] = "deleteTokens"
    BY DEF DeleteTokens, Goto, IInv, Typed, TypeOK, Request
  <1> HIDE DEF t
  <1>3. OneTokenPerIssuer'
    BY <1>1 DEF TokenInv, OneTokenPerIssuer
  <1>4. HolderOK(s)'
    <2>1. InserterOK(s)'
      BY <1>1, <1>2 DEF InserterOK, t
    <2>2. ReaderOK(s)'
      BY <1>2 DEF ReaderOK
    <2>3. VerifierOK(s)'
      BY <1>2 DEF VerifierOK, TokenInv, HolderOK
    <2> QED BY <2>1, <2>2, <2>3 DEF HolderOK
  <1>5. ASSUME NEW r \in Sessions \ {s} PROVE HolderOK(r)'
    <2>1. pc'[r] = pc[r] /\ req'[r] = req[r] /\ row'[r] = row[r]
      BY <1>5, OthersKept DEF HandlerStep, IInv
    <2>2. InserterOK(r)'
      <3> SUFFICES ASSUME pc[r] = "insertToken"
                   PROVE  /\ issued'[req[r].token] = [account |-> row[r], session |-> r]
                          /\ loginTokens'[req[r].token] = 0
                          /\ \A u \in Tokens : loginTokens'[u] = row[r] => issued'[u].session # r
        BY <2>1 DEF InserterOK
      <3>1. /\ req[r].token \in Tokens
            /\ issued[req[r].token] = [account |-> row[r], session |-> r]
            /\ loginTokens[req[r].token] = 0
            /\ \A u \in Tokens : loginTokens[u] = row[r] => issued[u].session # r
            /\ row[r] # 0
        BY RowsFromOne DEF TokenInv, HolderOK, InserterOK, IInv, Typed, RequestOK
      <3>2. req[r].token # t
        BY <1>1, <3>1 DEF Unissued
      <3>3. ASSUME NEW u \in Tokens, loginTokens'[u] = row[r] PROVE issued'[u].session # r
        BY <1>1, <1>5, <3>1, <3>3
      <3> QED BY <1>1, <3>1, <3>2, <3>3
    <2>3. ReaderOK(r)'
      <3>1. ASSUME pc[r] = "touchToken" PROVE issued'[req[r].token] = issued[req[r].token]
        <4>1. req[r].token \in Tokens /\ row[r] # 0 /\ row[r] = issued[req[r].token].account
          BY <3>1, RowsFromOne DEF TokenInv, HolderOK, ReaderOK, IInv, Typed, RequestOK, LocalOK
        <4> QED BY <1>1, <4>1 DEF Unissued
      <3> QED BY <2>1, <3>1 DEF ReaderOK, TokenInv, HolderOK
    <2>4. VerifierOK(r)'
      BY <2>1, VerifierKept
    <2> QED BY <2>2, <2>3, <2>4 DEF HolderOK
  <1> QED BY <1>3, <1>4, <1>5 DEF TokenInv

\* InsertToken preserves the invariant: the row it writes is of a token that
\* only this handler holds, and the account has no other of this connection.
LEMMA InsertStep ==
  ASSUME IInv, TokenInv, Grow, NEW s \in Sessions, InsertToken(s)
  PROVE  TokenInv'
  <1> DEFINE t == req[s].token
  <1>1. /\ t \in Tokens /\ row[s] # 0
        /\ issued[t] = [account |-> row[s], session |-> s]
        /\ \A u \in Tokens : loginTokens[u] = row[s] => issued[u].session # s
    BY RowsFromOne DEF InsertToken, TokenInv, HolderOK, InserterOK, IInv, Typed, RequestOK
  <1>2. /\ loginTokens'[t] = row[s]
        /\ \A u \in Tokens \ {t} : loginTokens'[u] = loginTokens[u]
        /\ issued' = issued /\ pc'[s] = "idle"
    BY <1>1 DEF InsertToken, LoginResponse, Answer, Goto, IInv, Typed, TypeOK
  <1> HIDE DEF t
  <1>3. OneTokenPerIssuer'
    <2> SUFFICES ASSUME NEW u \in Tokens, NEW v \in Tokens, loginTokens'[u] # 0
                 PROVE  /\ loginTokens'[u] = issued[u].account
                        /\ u # v /\ loginTokens'[v] = loginTokens'[u] =>
                             issued[u].session # issued[v].session
      BY <1>2 DEF OneTokenPerIssuer
    <2>1. loginTokens'[u] = issued[u].account
      BY <1>1, <1>2 DEF TokenInv, OneTokenPerIssuer
    <2>2. ASSUME u # v, loginTokens'[v] = loginTokens'[u]
          PROVE  issued[u].session # issued[v].session
      <3>1. CASE u = t
        BY <1>1, <1>2, <2>2, <3>1
      <3>2. CASE v = t
        BY <1>1, <1>2, <2>2, <3>2
      <3>3. CASE u # t /\ v # t
        BY <1>2, <2>2, <3>3 DEF TokenInv, OneTokenPerIssuer
      <3> QED BY <3>1, <3>2, <3>3
    <2> QED BY <2>1, <2>2
  <1>4. HolderOK(s)'
    BY <1>2 DEF HolderOK, InserterOK, ReaderOK, VerifierOK
  <1>5. ASSUME NEW r \in Sessions \ {s} PROVE HolderOK(r)'
    <2>1. pc'[r] = pc[r] /\ req'[r] = req[r] /\ row'[r] = row[r]
      BY <1>5, OthersKept DEF HandlerStep, IInv
    <2>2. InserterOK(r)'
      <3> SUFFICES ASSUME pc[r] = "insertToken"
                   PROVE  /\ issued[req[r].token] = [account |-> row[r], session |-> r]
                          /\ loginTokens'[req[r].token] = 0
                          /\ \A u \in Tokens : loginTokens'[u] = row[r] => issued[u].session # r
        BY <1>2, <2>1 DEF InserterOK
      <3>1. /\ req[r].token \in Tokens
            /\ issued[req[r].token] = [account |-> row[r], session |-> r]
            /\ loginTokens[req[r].token] = 0
            /\ \A u \in Tokens : loginTokens[u] = row[r] => issued[u].session # r
        BY DEF TokenInv, HolderOK, InserterOK, IInv, Typed, RequestOK
      <3>2. req[r].token # t /\ issued[t].session # r
        BY <1>1, <1>5, <3>1
      <3> QED BY <1>2, <3>1, <3>2
    <2>3. ReaderOK(r)'
      BY <1>2, <2>1 DEF ReaderOK, TokenInv, HolderOK
    <2>4. VerifierOK(r)'
      BY <2>1, VerifierKept
    <2> QED BY <2>2, <2>3, <2>4 DEF HolderOK
  <1> QED BY <1>3, <1>4, <1>5 DEF TokenInv

\* What NuLogin does with a verified account keeps the handler's knowledge.
LEMMA ValidatedHolder ==
  ASSUME IInv, NEW s \in Sessions, NEW i \in DOMAIN accounts, Validated(s, i),
         accounts' = accounts,
         accounts[i].nuid = req[s].nuid, accounts[i].password = req[s].password
  PROVE  HolderOK(s)'
  <1>1. CASE LoginResponse(s, i)
    BY <1>1 DEF LoginResponse, Answer, Goto, IInv, Typed, TypeOK, HolderOK, InserterOK,
                ReaderOK, VerifierOK
  <1>2. CASE /\ row' = [row EXCEPT ![s] = i] /\ Goto(s, "deleteTokens")
             /\ UNCHANGED <<req, session, history>>
    BY <1>2 DEF Goto, IInv, Typed, TypeOK, HolderOK, InserterOK, ReaderOK, VerifierOK
  <1> QED BY <1>1, <1>2 DEF Validated

\* Every other statement of a connection, with the token tables untouched.
LEMMA OwnHolder ==
  ASSUME IInv, TokenInv, Grow, NEW s \in Sessions, ClientStep(s) \/ HandlerStep(s),
         ~DeleteTokens(s), ~InsertToken(s), UNCHANGED <<loginTokens, issued>>
  PROVE  HolderOK(s)'
  <1> DEFINE Held == {"insertToken", "selectToken", "touchToken", "upgradeHash",
                      "reselectLogin", "deleteTokens"}
  <1>0. ASSUME pc'[s] \notin Held PROVE HolderOK(s)'
    BY <1>0 DEF HolderOK, InserterOK, ReaderOK, VerifierOK
  <1>1. CASE Answer(s)
    BY <1>0, <1>1 DEF Answer, Goto, IInv, Typed, TypeOK
  <1>AP. CASE AddPersonaLoggedOut(s)
    BY <1>0, <1>AP DEF AddPersonaLoggedOut, locals
  <1>2. CASE NuLoginToken(s)
    <2>1. pc'[s] = "selectToken" /\ req'[s].nuid = None
      BY <1>2 DEF NuLoginToken, Receive, Goto, NoRequest, IInv, Typed, TypeOK
    <2> QED BY <2>1 DEF HolderOK, InserterOK, ReaderOK, VerifierOK
  <1>3. CASE Connect(s) \/ Disconnect(s) \/ NuAddAccount(s) \/ NuLogin(s) \/ PersonaRequest(s)
    BY <1>0, <1>3 DEF Connect, Disconnect, NuAddAccount, NuLogin, PersonaRequest, Receive,
                      Goto, IInv, Typed, TypeOK
  <1>4. CASE InsertAccount(s) \/ InsertPersona(s)
    BY <1>0, <1>1, <1>4 DEF InsertAccount, InsertPersona, Goto, IInv, Typed, TypeOK
  <1>5. CASE SelectLogin(s)
    <2>1. PICK i \in AccountRows(req[s].nuid) :
            /\ accounts[i].password = req[s].password
            /\ \/ Validated(s, i)
               \/ /\ row' = [row EXCEPT ![s] = i] /\ Goto(s, "upgradeHash") /\ req' = req
      BY <1>5 DEF SelectLogin, VerifyPassword
    <2>2. accounts' = accounts /\ i \in DOMAIN accounts /\ accounts[i].nuid = req[s].nuid
      BY <1>5 DEF SelectLogin, AccountRows, tables
    <2>3. CASE Validated(s, i)
      BY <2>1, <2>2, <2>3, ValidatedHolder
    <2>4. CASE row' = [row EXCEPT ![s] = i] /\ Goto(s, "upgradeHash") /\ req' = req
      BY <2>1, <2>2, <2>4 DEF Goto, IInv, Typed, TypeOK, HolderOK, InserterOK, ReaderOK,
                              VerifierOK
    <2> QED BY <2>1, <2>3, <2>4
  <1>6. CASE UpgradeHash(s)
    <2>1. pc[s] = "upgradeHash" /\ pc'[s] = "reselectLogin" /\ req' = req /\ row' = row
      BY <1>6 DEF UpgradeHash, Goto, IInv, Typed, TypeOK
    <2>2. row[s] \in DOMAIN accounts
      BY <2>1 DEF IInv, Typed, RequestOK
    <2> QED BY <2>1, <2>2 DEF TokenInv, HolderOK, InserterOK, ReaderOK, VerifierOK, Grow
  <1>7. CASE ReselectLogin(s)
    <2>1. PICK i \in AccountRows(req[s].nuid) : Validated(s, i)
      BY <1>7 DEF ReselectLogin
    <2>2. accounts' = accounts /\ i \in DOMAIN accounts /\ accounts[i].nuid = req[s].nuid
      BY <1>7 DEF ReselectLogin, AccountRows, tables
    <2>3. i = row[s] /\ accounts[row[s]].password = req[s].password
      BY <1>7, <2>2 DEF ReselectLogin, IInv, TablesOK, Typed, RequestOK, TokenInv, HolderOK,
                        VerifierOK
    <2> QED BY <2>1, <2>2, <2>3, ValidatedHolder
  <1>8. CASE SelectToken(s)
    <2>1. CASE ~Answer(s)
      <3>1. /\ loginTokens[req[s].token] # 0 /\ pc[s] = "selectToken"
            /\ row'[s] = loginTokens[req[s].token] /\ pc'[s] = "touchToken" /\ req' = req
        BY <1>8, <2>1 DEF SelectToken, Goto, IInv, Typed, TypeOK
      <3>2. req[s].token \in Tokens /\ req[s].nuid = None
        BY <3>1 DEF IInv, Typed, RequestOK, TokenInv, HolderOK, ReaderOK
      <3>3. loginTokens[req[s].token] = issued[req[s].token].account
        BY <3>1, <3>2 DEF TokenInv, OneTokenPerIssuer
      <3> QED BY <3>1, <3>2, <3>3 DEF HolderOK, InserterOK, ReaderOK, VerifierOK
    <2> QED BY <1>1, <2>1
  <1>9. CASE SelectPersona(s)
    BY <1>0, <1>1, <1>9 DEF SelectPersona, FoundPersona, PersonaResponse, Goto, IInv, Typed,
                            TypeOK
  <1>10. CASE SelectNewAccount(s) \/ LoginRefused(s) \/ TouchToken(s) \/ ReselectPersona(s)
              \/ StatementFails(s)
    BY <1>1, <1>10 DEF SelectNewAccount, LoginRefused, TouchToken, LoginResponse,
                       ReselectPersona, FoundPersona, PersonaResponse, StatementFails
  <1> QED BY <1>AP, <1>2, <1>3, <1>4, <1>5, <1>6, <1>7, <1>8, <1>9, <1>10
          DEF ClientStep, HandlerStep

\* TokenInv is inductive relative to IInv.
LEMMA TokenStep ==
  ASSUME IInv, TokenInv, [Next]_vars
  PROVE  TokenInv'
  <1>1. Grow
    BY TablesGrow DEF IInv, LocalOK, UpgradeOK
  <1>2. CASE \E s \in Sessions : DeleteTokens(s) \/ InsertToken(s)
    BY <1>1, <1>2, DeleteStep, InsertStep
  <1>3. CASE /\ UNCHANGED <<loginTokens, issued>>
             /\ \A s \in Sessions : ~DeleteTokens(s) /\ ~InsertToken(s)
    <2>1. OneTokenPerIssuer'
      BY <1>3 DEF TokenInv, OneTokenPerIssuer
    <2>2. ASSUME NEW r \in Sessions PROVE HolderOK(r)'
      <3>1. CASE pc'[r] = pc[r] /\ req'[r] = req[r] /\ row'[r] = row[r]
        <4>1. VerifierOK(r)'
          BY <1>1, <3>1, VerifierKept
        <4> QED BY <1>3, <3>1, <4>1 DEF TokenInv, HolderOK, InserterOK, ReaderOK
      <3>2. CASE UNCHANGED vars
        BY <3>1, <3>2 DEF vars, locals
      <3>3. CASE Restart
        BY <3>3 DEF Restart, HolderOK, InserterOK, ReaderOK, VerifierOK
      <3>4. ASSUME NEW s \in Sessions, ClientStep(s) \/ HandlerStep(s) PROVE HolderOK(r)'
        <4>1. CASE r = s
          BY <1>1, <1>3, <3>4, <4>1, OwnHolder
        <4>2. CASE r # s
          BY <3>1, <3>4, <4>2, OthersKept DEF IInv
        <4> QED BY <4>1, <4>2
      <3> QED BY <3>2, <3>3, <3>4 DEF Next
    <2> QED BY <2>1, <2>2 DEF TokenInv
  <1> QED BY <1>2, <1>3, TokenWriters

\* No token has been issued when the server starts for the first time.
LEMMA TokenInit == Init => TokenInv
  BY DEF Init, TokenInv, OneTokenPerIssuer, HolderOK, InserterOK, ReaderOK, VerifierOK

\* The invariant holds for ever.
LEMMA TokenInvariant == Spec => [](IInv /\ TokenInv)
  <1>1. Init => IInv /\ TokenInv
    BY InvariantInit, TokenInit
  <1>2. IInv /\ TokenInv /\ [Next]_vars => (IInv /\ TokenInv)'
    BY InvariantStep, TokenStep
  <1> QED BY <1>1, <1>2, PTL DEF Spec

-----------------------------------------------------------------------------
\* A token opens only the account it was issued for, and one connection never
\* leaves an account more than one, however logins to it interleave or fail.
THEOREM TokensBelong == Spec => []OneTokenPerIssuer
  <1>1. TokenInv => OneTokenPerIssuer
    BY DEF TokenInv
  <1> QED BY <1>1, TokenInvariant, PTL

-----------------------------------------------------------------------------
(***************************************************************************)
(* Revoked tokens.  A request whose token was revoked before it came is at *)
(* its SELECT, the token has no row, and nobody is left to write one.      *)
(***************************************************************************)
Dead(t) == /\ t \in Tokens /\ issued[t] # Unissued
           /\ loginTokens[t] = 0 /\ ~Inserting(t)

StaleOK(s) ==
  /\ pc[s] \in {"closed", "idle", "selectToken"} => row[s] = 0
  /\ req[s].stale => pc[s] = "selectToken" /\ Dead(req[s].token)

StaleInv == \A s \in Sessions : StaleOK(s)

\* A handler comes to insertToken only with a token it has just drawn.
LEMMA InsertersDraw ==
  ASSUME IInv, [Next]_vars, NEW s \in Sessions, pc'[s] = "insertToken", ~DeleteTokens(s)
  PROVE  pc[s] = "insertToken" /\ req'[s] = req[s]
  <1> DEFINE Kept == pc[s] = "insertToken" /\ req'[s] = req[s]
  <1> USE DEF IInv, Typed, TypeOK
  <1>1. CASE Restart \/ UNCHANGED vars
    BY <1>1 DEF Restart, vars, locals
  <1>2. ASSUME NEW r \in Sessions \ {s}, ClientStep(r) \/ HandlerStep(r) PROVE Kept
    BY <1>2, OthersKept
  <1>3. CASE ClientStep(s)
    <2>1. CASE Connect(s) \/ Disconnect(s)
      BY <2>1 DEF Connect, Disconnect, Goto
    <2>2. CASE NuAddAccount(s) \/ NuLogin(s) \/ NuLoginToken(s) \/ PersonaRequest(s)
      BY <2>2, Received DEF Receive, Goto
    <2>3. CASE AddPersonaLoggedOut(s)
      BY <2>3 DEF AddPersonaLoggedOut, locals
    <2> QED BY <1>3, <2>1, <2>2, <2>3 DEF ClientStep
  <1>4. CASE InsertAccount(s) \/ SelectNewAccount(s) \/ LoginRefused(s) \/ StatementFails(s)
             \/ UpgradeHash(s) \/ SelectToken(s) \/ InsertPersona(s)
    BY <1>4 DEF InsertAccount, SelectNewAccount, LoginRefused, StatementFails, UpgradeHash,
                SelectToken, InsertPersona, Answer, Goto
  <1>5. CASE SelectLogin(s) \/ ReselectLogin(s) \/ InsertToken(s) \/ TouchToken(s)
             \/ SelectPersona(s) \/ ReselectPersona(s)
    BY <1>5 DEF SelectLogin, ReselectLogin, InsertToken, TouchToken, SelectPersona,
                ReselectPersona, FoundPersona, PersonaResponse, Validated, LoginResponse,
                Answer, Goto
  <1> QED BY <1>1, <1>2, <1>3, <1>4, <1>5 DEF Next, HandlerStep

\* A token that is dead stays dead: it is never drawn again, and only the
\* handler that drew it writes its row.
LEMMA DeadForEver ==
  ASSUME IInv, TokenInv, [Next]_vars, NEW t \in Tokens, Dead(t)
  PROVE  Dead(t)'
  <1>1. ASSUME NEW s \in Sessions, DeleteTokens(s) PROVE req'[s].token # t /\ issued'[t] # Unissued
    <2> DEFINE d == req'[s].token
    <2>1. issued[d] = Unissued /\ \A u \in Tokens \ {d} : issued'[u] = issued[u]
      BY <1>1, DeleteRevokes
    <2> HIDE DEF d
    <2>2. t \in Tokens /\ issued[t] # Unissued
      BY DEF Dead
    <2>3. d # t /\ issued'[t] = issued[t]
      BY <2>1, <2>2
    <2> QED BY <2>2, <2>3 DEF d
  <1>2. issued'[t] # Unissued
    BY <1>1, TokenWriters DEF Dead, InsertToken, LoginResponse
  <1>3. loginTokens'[t] = 0
    <2>1. ASSUME NEW s \in Sessions, DeleteTokens(s) PROVE loginTokens'[t] = 0
      BY <2>1 DEF DeleteTokens, Dead
    <2>2. ASSUME NEW s \in Sessions, InsertToken(s) PROVE loginTokens'[t] = 0
      BY <2>2 DEF InsertToken, Inserting, Dead, IInv, Typed, TypeOK
    <2> QED BY <2>1, <2>2, TokenWriters DEF Dead
  <1>4. ~Inserting(t)'
    <2> SUFFICES ASSUME NEW s \in Sessions, pc'[s] = "insertToken", req'[s].token = t PROVE FALSE
      BY DEF Inserting
    <2> QED BY <1>1, InsertersDraw DEF Inserting, Dead
  <1> QED BY <1>2, <1>3, <1>4 DEF Dead

\* The step of a connection keeps its own StaleOK.
LEMMA OwnStale ==
  ASSUME IInv, TokenInv, StaleInv, [Next]_vars, NEW s \in Sessions,
         ClientStep(s) \/ HandlerStep(s)
  PROVE  StaleOK(s)'
  <1> USE DEF IInv, Typed, TypeOK
  <1>0. ASSUME pc[s] # "selectToken" PROVE ~req[s].stale
    BY <1>0 DEF StaleInv, StaleOK
  <1>1. CASE Answer(s)
    BY <1>1 DEF Answer, Goto, NoRequest, StaleOK
  <1>2. CASE NuLoginToken(s)
    <2>1. PICK t \in Tokens \ FreshTokens :
            /\ ~Inserting(t)
            /\ Receive(s, [NoRequest EXCEPT !.txn = "NuLogin", !.token = t,
                                            !.stale = (loginTokens[t] = 0)], "selectToken")
      BY <1>2 DEF NuLoginToken
    <2>2. /\ pc[s] = "idle" /\ pc'[s] = "selectToken" /\ row' = row
          /\ req'[s].token = t
      BY <2>1 DEF Receive, Goto, NoRequest
    <2>6. req'[s].stale => loginTokens[t] = 0
      BY <2>1 DEF Receive, NoRequest
    <2>3. row'[s] = 0
      BY <2>2 DEF StaleInv, StaleOK
    <2>4. loginTokens[t] = 0 => Dead(t)
      BY <2>1 DEF FreshTokens, Dead
    <2>5. loginTokens[t] = 0 => Dead(req[s].token)'
      BY <2>2, <2>4, DeadForEver DEF Dead, Inserting
    <2> QED BY <2>1, <2>2, <2>3, <2>5, <2>6 DEF StaleOK
  <1>3. CASE NuAddAccount(s) \/ NuLogin(s) \/ PersonaRequest(s)
    <2>1. pc'[s] \notin {"closed", "idle", "selectToken"}
      BY <1>3 DEF NuAddAccount, NuLogin, PersonaRequest, Receive, Goto
    <2>2. ~req'[s].stale
      <3>1. CASE NuAddAccount(s)
        BY <3>1 DEF NuAddAccount, Receive, NoRequest
      <3>2. CASE NuLogin(s)
        BY <3>2 DEF NuLogin, Receive, NoRequest
      <3>3. CASE PersonaRequest(s)
        BY <3>3 DEF PersonaRequest, Receive, NoRequest
      <3> QED BY <1>3, <3>1, <3>2, <3>3
    <2> QED BY <2>1, <2>2 DEF StaleOK
  <1>4. CASE Connect(s) \/ Disconnect(s) \/ AddPersonaLoggedOut(s)
    BY <1>0, <1>4 DEF Connect, Disconnect, AddPersonaLoggedOut, Goto, locals, StaleInv, StaleOK
  <1>5. CASE DeleteTokens(s)
    <2>1. PICK t \in Tokens : req' = [req EXCEPT ![s].token = t]
      BY <1>5 DEF DeleteTokens, FreshTokens
    <2>2. pc[s] # "selectToken" /\ pc'[s] = "insertToken" /\ req'[s].stale = req[s].stale
      BY <1>5, <2>1 DEF DeleteTokens, Goto, Request
    <2> QED BY <1>0, <2>2 DEF StaleOK
  <1>6. CASE SelectToken(s) /\ ~Answer(s)
    <2>1. /\ pc[s] = "selectToken" /\ loginTokens[req[s].token] # 0
          /\ pc'[s] = "touchToken" /\ req' = req
      BY <1>6 DEF SelectToken, Goto
    <2> QED BY <2>1 DEF StaleInv, StaleOK, Dead
  <1>7. CASE InsertAccount(s) \/ UpgradeHash(s) \/ InsertPersona(s)
    BY <1>0, <1>1, <1>7 DEF InsertAccount, UpgradeHash, InsertPersona, Goto, StaleOK
  <1>8. CASE SelectLogin(s) \/ ReselectLogin(s)
    BY <1>0, <1>1, <1>8 DEF SelectLogin, ReselectLogin, Validated, LoginResponse, Goto, StaleOK
  <1>9. CASE SelectPersona(s)
    BY <1>0, <1>1, <1>9 DEF SelectPersona, FoundPersona, PersonaResponse, Goto, StaleOK
  <1>10. CASE \/ SelectNewAccount(s) \/ LoginRefused(s) \/ StatementFails(s) \/ InsertToken(s)
              \/ TouchToken(s) \/ ReselectPersona(s)
    BY <1>1, <1>10 DEF SelectNewAccount, LoginRefused, StatementFails, InsertToken, TouchToken,
                       LoginResponse, ReselectPersona, FoundPersona, PersonaResponse
  <1> QED BY <1>1, <1>2, <1>3, <1>4, <1>5, <1>6, <1>7, <1>8, <1>9, <1>10
          DEF ClientStep, HandlerStep

\* StaleInv is inductive relative to IInv and TokenInv.
LEMMA StaleStep ==
  ASSUME IInv, TokenInv, StaleInv, [Next]_vars
  PROVE  StaleInv'
  <1> SUFFICES ASSUME NEW r \in Sessions PROVE StaleOK(r)'
    BY DEF StaleInv
  <1>1. CASE pc'[r] = pc[r] /\ req'[r] = req[r] /\ row'[r] = row[r]
    <2>1. req[r].stale => Dead(req[r].token)'
      <3> SUFFICES ASSUME Dead(req[r].token), req[r].token \in Tokens PROVE Dead(req[r].token)'
        BY DEF StaleInv, StaleOK, Dead
      <3>1. PICK t \in Tokens : t = req[r].token
        OBVIOUS
      <3>2. Dead(t)'
        BY <3>1, DeadForEver
      <3> QED BY <1>1, <3>1, <3>2 DEF Dead, Inserting
    <2> QED BY <1>1, <2>1 DEF StaleInv, StaleOK, Dead, Inserting
  <1>2. CASE UNCHANGED vars
    BY <1>1, <1>2 DEF vars, locals
  <1>3. CASE Restart
    BY <1>3 DEF Restart, NoRequest, StaleOK
  <1>4. ASSUME NEW s \in Sessions, ClientStep(s) \/ HandlerStep(s) PROVE StaleOK(r)'
    <2>1. CASE r = s
      BY <1>4, <2>1, OwnStale
    <2>2. CASE r # s
      BY <1>1, <1>4, <2>2, OthersKept DEF IInv
    <2> QED BY <2>1, <2>2
  <1> QED BY <1>2, <1>3, <1>4 DEF Next

\* The invariants hold for ever.
LEMMA StaleInvariant == Spec => [](IInv /\ TokenInv /\ StaleInv)
  <1>1. Init => StaleInv
    BY DEF Init, NoRequest, StaleInv, StaleOK
  <1>2. IInv /\ TokenInv /\ StaleInv /\ [Next]_vars => StaleInv'
    BY StaleStep
  <1> QED BY <1>1, <1>2, TokenInvariant, PTL DEF Spec

\* A login whose token was revoked before it came never gets hold of the
\* account, whatever other handlers that read the token earlier are doing.
THEOREM RevokedForEver == Spec => RevocationIsFinal
  <1>1. ASSUME IInv, TokenInv, StaleInv, StaleInv', [Next]_vars, NEW s \in Sessions, req[s].stale
        PROVE  row'[s] = 0 /\ accountID'[s] \in {0, accountID[s]}
    <2>0. pc[s] = "selectToken" /\ row[s] = 0 /\ loginTokens[req[s].token] = 0
      BY <1>1 DEF StaleInv, StaleOK, Dead
    <2>1. CASE Restart \/ UNCHANGED vars
      BY <2>0, <2>1 DEF Restart, vars, locals, session
    <2>2. ASSUME NEW r \in Sessions \ {s}, ClientStep(r) \/ HandlerStep(r)
          PROVE  row'[s] = row[s] /\ accountID'[s] = accountID[s]
      BY <1>1, <2>2, OthersKept DEF IInv
    <2>3. ~ClientStep(s)
      BY <2>0 DEF ClientStep, Connect, Disconnect, NuAddAccount, NuLogin, NuLoginToken,
                  PersonaRequest, AddPersonaLoggedOut, Receive
    <2>4. ASSUME HandlerStep(s) PROVE Answer(s) /\ accountID' = accountID
      BY <2>0, <2>4 DEF HandlerStep, InsertAccount, SelectNewAccount, LoginRefused, SelectLogin,
                  UpgradeHash, ReselectLogin, DeleteTokens, InsertToken, SelectToken, TouchToken,
                  SelectPersona, InsertPersona, ReselectPersona, StatementFails, session
    <2>5. Answer(s) => row'[s] = 0
      BY <1>1 DEF Answer, IInv, Typed, TypeOK
    <2> QED BY <1>1, <2>0, <2>1, <2>2, <2>3, <2>4, <2>5 DEF Next
  <1>2. ASSUME IInv /\ TokenInv /\ StaleInv, (IInv /\ TokenInv /\ StaleInv)', [Next]_vars
        PROVE  \A s \in Sessions :
                 req[s].stale => /\ row'[s] = 0
                                 /\ accountID'[s] \in {0, accountID[s]}
    BY <1>1, <1>2
  <1> QED BY <1>2, StaleInvariant, PTL DEF Spec, RevocationIsFinal

\* A connection becomes an account only with its name and password, or with a
\* token issued for it, as they are in the step that answers.
THEOREM LoginsAreEarned == Spec => LoginMatchesCredentials
  <1> DEFINE Earned(s) ==
        /\ accountID'[s] \in DOMAIN accounts
        /\ \/ /\ req[s].nuid = accounts[accountID'[s]].nuid
              /\ req[s].password = accounts[accountID'[s]].password
           \/ /\ req[s].nuid = None
              /\ issued[req[s].token].account = accountID'[s]
              /\ ~req[s].stale
  <1>1. ASSUME IInv, TokenInv, StaleInv, [Next]_vars, NEW s \in Sessions,
               accountID'[s] \notin {0, accountID[s]}
        PROVE  Earned(s)
    <2>1. ClientStep(s) \/ HandlerStep(s)
      <3>1. ~Restart /\ ~UNCHANGED vars
        BY <1>1 DEF Restart, vars, session
      <3>2. ASSUME NEW r \in Sessions, ClientStep(r) \/ HandlerStep(r) PROVE r = s
        BY <1>1, <3>2, OthersKept DEF IInv
      <3> QED BY <1>1, <3>1, <3>2 DEF Next
    <2>2. ASSUME NEW i, LoginResponse(s, i) PROVE accountID'[s] = i
      BY <1>1, <2>2 DEF LoginResponse, IInv, Typed, TypeOK
    <2>3. ~ClientStep(s)
      BY <1>1 DEF ClientStep, Connect, Disconnect, NuAddAccount, NuLogin, NuLoginToken,
                  PersonaRequest, AddPersonaLoggedOut, Receive, session, IInv, Typed, TypeOK
    <2>4. CASE SelectLogin(s)
      BY <1>1, <2>2, <2>4 DEF SelectLogin, Validated, VerifyPassword, AccountRows, session
    <2>5. CASE ReselectLogin(s)
      <3>1. PICK i \in AccountRows(req[s].nuid) : Validated(s, i)
        BY <2>5 DEF ReselectLogin
      <3>2. accountID'[s] = i
        BY <1>1, <2>2, <3>1 DEF Validated, session
      <3>3. i = row[s]
        BY <1>1, <2>5, <3>1 DEF ReselectLogin, AccountRows, IInv, TablesOK, Typed, RequestOK,
                          TokenInv, HolderOK, VerifierOK
      <3> QED BY <1>1, <2>5, <3>1, <3>2, <3>3 DEF ReselectLogin, AccountRows, TokenInv, HolderOK,
                                            VerifierOK
    <2>6. CASE InsertToken(s)
      BY <1>1, <2>2, <2>6 DEF InsertToken, IInv, Typed, RequestOK, TokenInv, HolderOK, VerifierOK
    <2>7. CASE TouchToken(s)
      BY <1>1, <2>2, <2>7 DEF TouchToken, IInv, LocalOK, TokenInv, HolderOK, ReaderOK,
                              StaleInv, StaleOK
    <2>8. CASE InsertAccount(s) \/ SelectNewAccount(s) \/ LoginRefused(s) \/ UpgradeHash(s)
               \/ DeleteTokens(s) \/ SelectToken(s) \/ SelectPersona(s) \/ InsertPersona(s)
               \/ ReselectPersona(s) \/ StatementFails(s)
      BY <1>1, <2>8
         DEF InsertAccount, SelectNewAccount, LoginRefused, UpgradeHash, DeleteTokens,
             SelectToken, SelectPersona, InsertPersona, ReselectPersona, StatementFails,
             FoundPersona, PersonaResponse, session
    <2> QED BY <2>1, <2>3, <2>4, <2>5, <2>6, <2>7, <2>8 DEF HandlerStep
  <1>2. ASSUME IInv /\ TokenInv /\ StaleInv, [Next]_vars
        PROVE  \A s \in Sessions :
                 accountID'[s] \notin {0, accountID[s]} =>
                   /\ accountID'[s] \in DOMAIN accounts
                   /\ \/ /\ req[s].nuid = accounts[accountID'[s]].nuid
                         /\ req[s].password = accounts[accountID'[s]].password
                      \/ /\ req[s].nuid = None
                         /\ issued[req[s].token].account = accountID'[s]
                         /\ ~req[s].stale
    BY <1>1, <1>2
  <1> QED BY <1>2, StaleInvariant, PTL DEF Spec, LoginMatchesCredentials
=============================================================================
