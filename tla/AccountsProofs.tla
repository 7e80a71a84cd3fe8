--------------------------- MODULE AccountsProofs ---------------------------
(***************************************************************************)
(* Proofs about Accounts for every set of requests, addresses, spellings,  *)
(* codes and passwords.                                                    *)
(*                                                                         *)
(* What an account proves was established several steps of several         *)
(* requests earlier: Inv follows a code from the request that issued it    *)
(* through redis to the request that presented it, and an account from     *)
(* there to the logins that may use it.                                    *)
(***************************************************************************)
EXTENDS Accounts, TLAPS

\* The points each kind of request passes.
Path(k) ==
    CASE k = "register" -> {"first", "set", "mail", "done"}
      [] k = "verify" -> {"get", "del", "done"}
      [] k = "complete" -> {"get", "del", "first", "create", "done"}
      [] k = "login" -> {"first", "done"}

\* A request under way has parameters, is on its path and is not answered;
\* there is no success without the services.
Running ==
    /\ \A r \in Requests : pc[r] \notin {"new", "done"} =>
        /\ services /\ req[r] \in Parameters /\ pc[r] \in Path(req[r].kind)
        /\ req[r].kind = "complete" => req[r].password \in Passwords
    /\ \A r \in Requests : pc[r] # "done" => reply[r] = "none"
    /\ \A r \in Requests : reply[r] = "success" => services

\* The request that has issued a code was a registration of that address.
IssuedFor(i, e) ==
    /\ i \in Requests /\ pc[i] \in {"mail", "done"}
    /\ req[i] \in Parameters /\ req[i].kind = "register" /\ req[i].email = e

\* What is stored under a key was issued for it, and was not spent.
Stored ==
    \A e \in Emails : codes[e] # NoCode =>
        IssuedFor(codes[e].issue, e) /\ codes[e].issue \notin consumed

\* What a request has accepted was issued for the address it gave; it goes on
\* with nothing else.
Presented ==
    /\ \A r \in Requests : got[r] # NoCode =>
        /\ pc[r] \notin {"new", "get"}
        /\ req[r] \in Parameters /\ IssuedFor(got[r].issue, req[r].email)
    /\ \A r \in Requests :
        pc[r] \in {"del", "create"} \/ (pc[r] = "first" /\ req[r].kind = "complete")
        => got[r] # NoCode

\* Spent codes had been issued, and before is a copy of consumed that may be old.
Spent ==
    /\ \A i \in consumed : pc[i] \in {"mail", "done"}
    /\ \A r \in Requests : before[r] \subseteq consumed

\* A row is the work of a completion that has ended.
RowOf(a, r) ==
    /\ a.id = r /\ a.active
    /\ req[r].email = a.email /\ req[r].password = a.password
Rows ==
    /\ \A a \in accounts :
        /\ RowOf(a, a.id) /\ pc[a.id] = "done" /\ got[a.id] # NoCode
        /\ req[a.id].kind = "complete"
    /\ \A a, b \in accounts : a.email = b.email => a = b
    /\ \A r \in Requests : reply[r] = "success" /\ req[r].kind = "complete" =>
        \E a \in accounts : RowOf(a, r)

\* A login that must succeed finds its row.
Entitled ==
    \A r \in entitled :
        /\ pc[r] \in {"first", "done"} /\ req[r].kind = "login"
        /\ \E a \in accounts :
            a.active /\ a.email = req[r].email /\ a.password = req[r].password

Inv == TypeOK /\ Running /\ Stored /\ Presented /\ Spent /\ Rows /\ Entitled
       /\ CodeIsSpent /\ RegisteredCanLogin

-----------------------------------------------------------------------------
(* Requests under way                                                       *)

\* The kind of a request at each point of a handler.
LEMMA KindAt ==
  ASSUME Inv, NEW r \in Requests
  PROVE  /\ pc[r] \in {"set", "mail"} => req[r].kind = "register"
         /\ pc[r] \in {"get", "del"} => req[r].kind \in {"verify", "complete"}
         /\ pc[r] = "create" => req[r].kind = "complete"
         /\ pc[r] = "first" => req[r].kind \in {"register", "complete", "login"}
         /\ pc[r] \in {"set", "mail", "get", "del", "create", "first"} =>
              services /\ req[r] \in Parameters /\ reply[r] = "none"
  BY DEF Inv, Running, Path, Parameters, Kinds

-----------------------------------------------------------------------------
(* Every action preserves Inv.                                              *)

\* Initially nothing was asked, issued or stored.
LEMMA InitInv == Init => Inv
  BY DEF Init, Inv, TypeOK, Points, Replies, Running, Stored, Presented, Spent,
     Rows, Entitled, CodeIsSpent, RegisteredCanLogin, At

\* What stays true when a request goes on or is answered, and nothing is
\* stored: the step of a handler that only moves its request.
LEMMA MoveStep ==
  ASSUME Inv, NEW r \in Requests, NEW p \in Points, NEW a \in Replies,
         pc[r] \notin {"new", "done"}, p \notin {"new"},
         pc' = [pc EXCEPT ![r] = p], reply' = [reply EXCEPT ![r] = a],
         p # "done" => a = "none",
         p \in Path(req[r].kind),
         pc[r] = "mail" => p = "done",
         p = "get" => got[r] = NoCode,
         p \in {"del", "create"} \/ (p = "first" /\ req[r].kind = "complete")
           => got[r] # NoCode,
         a = "success" /\ req[r].kind = "complete" =>
           \E b \in accounts : RowOf(b, r),
         r \in entitled \ failed' => p = "done" /\ a = "success",
         failed \subseteq failed', failed' \subseteq Requests,
         UNCHANGED <<store, req, got, consumed, before, entitled>>
  PROVE  Inv'
<1> USE DEF Inv, store
<1>1. /\ services /\ req[r] \in Parameters
      /\ \A s \in Requests : s # r => pc'[s] = pc[s] /\ reply'[s] = reply[s]
      /\ pc'[r] = p /\ reply'[r] = a
  BY DEF TypeOK, Running
<1>2. TypeOK'
  BY <1>1 DEF TypeOK
<1>3. Running'
  BY <1>1 DEF Running
<1>4. \A i \in Requests : pc[i] \in {"mail", "done"} => pc'[i] \in {"mail", "done"}
  BY <1>1
<1>5. Stored' /\ Spent'
  BY <1>4 DEF Stored, Spent, IssuedFor, TypeOK
<1>6. Presented'
  BY <1>1, <1>4 DEF Presented, IssuedFor
<1>7. Rows'
  BY <1>1 DEF Rows, RowOf
<1>8. Entitled'
  BY <1>1 DEF Entitled, Path, TypeOK
<1>9. CodeIsSpent' /\ RegisteredCanLogin'
  BY <1>1 DEF CodeIsSpent, RegisteredCanLogin, At, TypeOK
<1> QED
  BY <1>2, <1>3, <1>5, <1>6, <1>7, <1>8, <1>9

\* A request arrives: it has issued and accepted nothing, and was not answered.
LEMMA ArriveStep ==
  ASSUME Inv, NEW r \in Requests, NEW k \in Kinds, NEW s \in Spellings,
         NEW c \in Codes, NEW p \in Passwords, Arrive(r, k, s, c, p)
  PROVE  Inv'
<1> DEFINE b == Body(k, Normalise[s], c, p)
<1> USE DEF Inv, store
<1>1. b \in Parameters /\ b.kind = k /\ b.email = Normalise[s]
      /\ (k \in {"complete", "login"} => b.password = p)
  BY AccountsAssumption DEF Arrive, Body, Parameters, Kinds
<1> HIDE DEF b
<1>2. /\ pc[r] = "new" /\ req'[r] = b
      /\ UNCHANGED <<services, codes, accounts, got, consumed, failed>>
      /\ \A q \in Requests : q # r =>
           /\ pc'[q] = pc[q] /\ reply'[q] = reply[q] /\ req'[q] = req[q]
           /\ before'[q] = before[q]
      /\ \/ services /\ pc'[r] = FirstPoint(k) /\ reply'[r] = "none"
         \/ ~services /\ pc'[r] = "done" /\ reply'[r] = Unserved(k)
  BY DEF Arrive, At, Goto, Answer, TypeOK, Running, b
<1>3. got[r] = NoCode /\ r \notin consumed /\ r \notin entitled
      /\ \A a \in accounts : a.id # r
  BY <1>2 DEF Presented, Spent, Entitled, Rows
<1>4. TypeOK'
  <2>1. req' \in [Requests -> Parameters \cup {NoCode}]
        /\ pc' \in [Requests -> Points] /\ reply' \in [Requests -> Replies]
        /\ before' \in [Requests -> SUBSET Requests]
    BY <1>1 DEF Arrive, TypeOK, Goto, Answer, FirstPoint, Unserved, Points,
       Replies, b
  <2>2. entitled' \subseteq Requests
    BY DEF Arrive, TypeOK
  <2> QED
    BY <1>1, <1>2, <2>1, <2>2 DEF TypeOK
<1>5. Running'
  <2>1. FirstPoint(k) \in Path(k) /\ Unserved(k) # "success"
    BY DEF Path, FirstPoint, Unserved, Kinds
  <2>2. FirstPoint(k) # "done"
    BY DEF FirstPoint
  <2> QED
    BY <1>1, <1>2, <2>1, <2>2 DEF Running
<1>6. \A i \in Requests, e \in Emails : IssuedFor(i, e) => IssuedFor(i, e)'
  BY <1>2 DEF IssuedFor
<1>7. Stored'
  BY <1>2, <1>6 DEF Stored, IssuedFor
<1>8. Presented'
  <2>1. \A q \in Requests : got'[q] # NoCode => q # r /\ req[q].email \in Emails
                                             /\ got[q].issue \in Requests
    BY <1>2, <1>3 DEF Presented, Parameters, IssuedFor
  <2>2. pc'[r] \notin {"del", "create"} /\ (pc'[r] = "first" => k # "complete")
    BY <1>2 DEF FirstPoint
  <2> QED
    BY <1>1, <1>2, <1>6, <2>1, <2>2 DEF Presented
<1>9. Spent'
  BY <1>2, <1>3 DEF Spent, TypeOK, Arrive
<1>10. Rows'
  BY <1>2, <1>3 DEF Rows, RowOf, TypeOK, AuthUser, Unserved
<1>11. CodeIsSpent'
  BY <1>2, <1>3 DEF CodeIsSpent
<1>12. entitled' # entitled =>
         /\ k = "login" /\ entitled' = entitled \cup {r} /\ services
         /\ \E a \in accounts : a.active /\ a.email = b.email /\ a.password = p
  BY <1>1 DEF Arrive, Registered, Rows, RowOf, Running
<1>13. Entitled'
  BY <1>1, <1>2, <1>3, <1>12 DEF Entitled, FirstPoint, TypeOK
<1>14. RegisteredCanLogin'
  BY <1>2, <1>3, <1>12 DEF RegisteredCanLogin, At, FirstPoint, TypeOK
<1> QED
  BY <1>4, <1>5, <1>7, <1>8, <1>9, <1>10, <1>11, <1>13, <1>14

\* A refused request has done nothing and does nothing.
LEMMA RejectStep ==
  ASSUME Inv, NEW r \in Requests, Reject(r)
  PROVE  Inv'
<1> USE DEF Inv, store, aux, Reject, At, Answer
<1>1. TypeOK' /\ Running'
  BY DEF TypeOK, Running, Points, Replies
<1>2. Stored' /\ Spent'
  BY DEF Stored, Spent, IssuedFor, TypeOK
<1>3. Presented'
  BY DEF Presented, IssuedFor, TypeOK
<1>4. Rows' /\ Entitled'
  BY DEF Rows, RowOf, Entitled, TypeOK
<1>5. CodeIsSpent' /\ RegisteredCanLogin'
  BY DEF CodeIsSpent, RegisteredCanLogin, Entitled, TypeOK
<1> QED
  BY <1>1, <1>2, <1>3, <1>4, <1>5

\* The look-up before a code is sent, and before the row is written.
LEMMA FirstStep ==
  ASSUME Inv, NEW r \in Requests, FirstRegister(r) \/ FirstComplete(r)
  PROVE  Inv'
<1>1. r \notin entitled
  BY DEF FirstRegister, FirstComplete, First, Inv, Entitled
<1>2. pc[r] = "first" /\ reply[r] = "none"
  BY KindAt DEF FirstRegister, FirstComplete, First, At
<1>3. UNCHANGED <<store, req, got, consumed, before, entitled, failed>>
  BY DEF FirstRegister, FirstComplete, First, aux
<1>4. ASSUME NEW p \in Points, NEW a \in Replies, pc' = [pc EXCEPT ![r] = p],
             reply' = [reply EXCEPT ![r] = a],
             \/ p = "done" /\ a = "repeat"
             \/ p = "set" /\ a = "none" /\ req[r].kind = "register"
             \/ p = "create" /\ a = "none" /\ req[r].kind = "complete"
      PROVE  Inv'
  <2>1. p \in Path(req[r].kind)
    BY <1>2, <1>4, KindAt DEF Path
  <2>2. p = "create" => got[r] # NoCode
    BY <1>2, <1>4 DEF Inv, Presented
  <2>3. failed \subseteq failed' /\ failed' \subseteq Requests
    BY <1>3 DEF Inv, TypeOK
  <2> QED
    BY <1>1, <1>2, <1>3, <1>4, <2>1, <2>2, <2>3, MoveStep
<1>5. reply = [reply EXCEPT ![r] = "none"]
  BY <1>2 DEF Inv, TypeOK
<1> QED
  BY <1>4, <1>5 DEF FirstRegister, FirstComplete, First, Answer, Goto, Points,
     Replies

\* A login finds the one row of its address.
LEMMA LoginStep ==
  ASSUME Inv, NEW r \in Requests, Login(r)
  PROVE  Inv'
<1>1. pc[r] = "first" /\ req[r].kind = "login" /\ req[r] \in Parameters
  BY KindAt DEF Login, At
<1>2. UNCHANGED <<store, req, got, consumed, before, entitled>>
  BY DEF Login
<1>3. PICK a \in Replies :
        /\ pc' = [pc EXCEPT ![r] = "done"] /\ reply' = [reply EXCEPT ![r] = a]
        /\ r \in entitled \ failed' => a = "success"
        /\ failed \subseteq failed' /\ failed' \subseteq Requests
  <2>1. failed \subseteq Requests
    BY DEF Inv, TypeOK
  <2>2. CASE \E b \in RowsOf(req[r].email) :
               Answer(r, LoginAnswer(b, req[r].password)) /\ UNCHANGED failed
    <3>1. PICK b \in accounts : b.email = req[r].email /\ UNCHANGED failed
                    /\ Answer(r, LoginAnswer(b, req[r].password))
      BY <2>2 DEF RowsOf
    <3>2. r \in entitled => LoginAnswer(b, req[r].password) = "success"
      BY <3>1 DEF Inv, Entitled, Rows, LoginAnswer
    <3>3. LoginAnswer(b, req[r].password) \in Replies
      BY DEF LoginAnswer, Replies
    <3> QED
      BY <2>1, <3>1, <3>2, <3>3 DEF Answer
  <2>3. CASE /\ RowsOf(req[r].email) = {} /\ Answer(r, "denied")
             /\ UNCHANGED failed
    BY <2>1, <2>3 DEF Answer, Replies, RowsOf, Inv, Entitled
  <2>4. CASE Answer(r, "denied") /\ failed' = failed \cup {r}
    BY <2>1, <2>4 DEF Answer, Replies
  <2> QED
    BY <2>2, <2>3, <2>4 DEF Login
<1>4. "done" \in Points /\ "done" \in Path(req[r].kind)
  BY <1>1 DEF Points, Path
<1> QED
  BY <1>1, <1>2, <1>3, <1>4, MoveStep

\* The mail is sent or not: Register answers.
LEMMA SendEmailStep ==
  ASSUME Inv, NEW r \in Requests, SendEmail(r)
  PROVE  Inv'
<1>1. pc[r] = "mail" /\ req[r].kind = "register" /\ r \notin entitled
  BY KindAt DEF SendEmail, At, Inv, Entitled
<1>2. PICK a \in Replies :
        pc' = [pc EXCEPT ![r] = "done"] /\ reply' = [reply EXCEPT ![r] = a]
  BY DEF SendEmail, AnswerRegister, Answer, Replies
<1>3. UNCHANGED <<store, req, got, consumed, before, entitled, failed>>
  BY DEF SendEmail, aux
<1>4. failed \subseteq failed' /\ failed' \subseteq Requests
  BY <1>3 DEF Inv, TypeOK
<1>5. "done" \in Points /\ "done" \in Path(req[r].kind)
  BY <1>1 DEF Points, Path
<1> QED
  BY <1>1, <1>2, <1>3, <1>4, <1>5, MoveStep

\* The code stored is its registration's first and only one: it was not spent.
LEMMA SetCodeStep ==
  ASSUME Inv, NEW r \in Requests, SetCode(r)
  PROVE  Inv'
<1>1. /\ pc[r] = "set" /\ req[r].kind = "register" /\ req[r] \in Parameters
      /\ r \notin entitled /\ services /\ reply[r] = "none"
      /\ r \notin consumed /\ got[r] = got'[r]
  BY KindAt DEF SetCode, At, Inv, Entitled, Spent
<1>2. CASE UNCHANGED codes /\ AnswerRegister(r, FALSE)
  <2>1. /\ pc' = [pc EXCEPT ![r] = "done"] /\ reply' = [reply EXCEPT ![r] = "busy"]
        /\ UNCHANGED <<store, req, got, consumed, before, entitled, failed>>
    BY <1>2 DEF SetCode, AnswerRegister, Answer, store, aux
  <2>2. failed \subseteq failed' /\ failed' \subseteq Requests
    BY <2>1 DEF Inv, TypeOK
  <2>3. "done" \in Points /\ "done" \in Path(req[r].kind) /\ "busy" \in Replies
    BY <1>1 DEF Points, Path, Replies
  <2> QED
    BY <1>1, <2>1, <2>2, <2>3, MoveStep
<1>3. CASE \E c \in Codes : /\ codes' = [codes EXCEPT ![req[r].email] =
                                           [code |-> c, issue |-> r]]
                            /\ Goto(r, "mail")
  <2>1. PICK c \in Codes : codes' = [codes EXCEPT ![req[r].email] =
                                       [code |-> c, issue |-> r]]
    BY <1>3
  <2> USE DEF Inv
  <2>2. /\ pc' = [pc EXCEPT ![r] = "mail"]
        /\ UNCHANGED <<services, accounts, req, got, reply, consumed, before,
                       entitled, failed>>
    BY <1>3 DEF Goto, SetCode, aux
  <2>3. req[r].email \in Emails /\ [code |-> c, issue |-> r] \in Entries
    BY <1>1 DEF Parameters, Entries
  <2>4. TypeOK'
    BY <1>1, <2>1, <2>2, <2>3 DEF TypeOK, Points
  <2>5. Running' /\ Spent'
    BY <1>1, <2>2 DEF Running, Path, Spent, TypeOK
  <2>6. \A i \in Requests, e \in Emails : IssuedFor(i, e) => IssuedFor(i, e)'
    BY <1>1, <2>2 DEF IssuedFor, TypeOK
  <2>7. IssuedFor(r, req[r].email)'
    BY <1>1, <2>2 DEF IssuedFor, TypeOK
  <2>8. Stored'
    BY <1>1, <2>1, <2>2, <2>3, <2>6, <2>7 DEF Stored, TypeOK, IssuedFor
  <2>9. Presented'
    <3>1. \A q \in Requests : got[q] # NoCode =>
              req[q].email \in Emails /\ got[q].issue \in Requests
      BY DEF Presented, Parameters, IssuedFor
    <3> QED
      BY <1>1, <2>2, <2>6, <3>1 DEF Presented, TypeOK
  <2>10. Rows' /\ Entitled'
    BY <1>1, <2>2 DEF Rows, RowOf, Entitled, TypeOK
  <2>11. CodeIsSpent' /\ RegisteredCanLogin'
    BY <1>1, <2>2 DEF CodeIsSpent, RegisteredCanLogin, At, TypeOK
  <2> QED
    BY <2>4, <2>5, <2>8, <2>9, <2>10, <2>11
<1> QED
  BY <1>2, <1>3 DEF SetCode, getVerificationCodeKey

\* A code that expires was accepted before or never will be.
LEMMA ExpireStep ==
  ASSUME Inv, NEW e \in Emails, Expire(e)
  PROVE  Inv'
<1> USE DEF Inv, aux, Expire
<1>1. TypeOK' /\ Running' /\ Spent' /\ Entitled'
  BY DEF TypeOK, Running, Spent, Entitled
<1>2. Stored'
  BY DEF Stored, IssuedFor, TypeOK
<1>3. Presented' /\ Rows' /\ CodeIsSpent' /\ RegisteredCanLogin'
  BY DEF Presented, IssuedFor, Rows, RowOf, CodeIsSpent, RegisteredCanLogin, At
<1> QED
  BY <1>1, <1>2, <1>3

\* What Get accepts is stored, hence was issued for the address and not spent.
LEMMA VerifyGetStep ==
  ASSUME Inv, NEW r \in Requests, VerifyGet(r)
  PROVE  Inv'
<1> DEFINE entry == codes[req[r].email]
<1>1. /\ pc[r] = "get" /\ req[r].kind \in {"verify", "complete"}
      /\ req[r] \in Parameters /\ services /\ reply[r] = "none"
      /\ r \notin entitled /\ got[r] = NoCode
  BY KindAt DEF VerifyGet, At, Inv, Entitled, Presented
<1>2. UNCHANGED <<store, req, consumed, before, entitled, failed>>
  BY DEF VerifyGet, aux
<1>3. CASE Answer(r, "invalid") /\ UNCHANGED got
  <2>1. failed \subseteq failed' /\ failed' \subseteq Requests
    BY <1>2 DEF Inv, TypeOK
  <2>2. "done" \in Points /\ "done" \in Path(req[r].kind) /\ "invalid" \in Replies
    BY <1>1 DEF Points, Path, Replies
  <2> QED
    BY <1>1, <1>2, <1>3, <2>1, <2>2, MoveStep DEF Answer
<1>4. CASE /\ entry # NoCode /\ got' = [got EXCEPT ![r] = entry]
           /\ Goto(r, "del")
  <2> USE DEF Inv, store
  <2>1. pc' = [pc EXCEPT ![r] = "del"] /\ UNCHANGED reply
    BY <1>4 DEF Goto
  <2>2. req[r].email \in Emails /\ entry \in Entries
    BY <1>1, <1>4 DEF Parameters, TypeOK
  <2>3. IssuedFor(entry.issue, req[r].email) /\ entry.issue \notin consumed
    BY <1>4, <2>2 DEF Stored
  <2>4. TypeOK' /\ Running'
    BY <1>1, <1>2, <1>4, <2>1, <2>2 DEF TypeOK, Points, Running, Path
  <2>5. \A i \in Requests, e \in Emails : IssuedFor(i, e) => IssuedFor(i, e)'
    BY <1>1, <1>2, <2>1 DEF IssuedFor, TypeOK
  <2>6. Stored' /\ Spent'
    BY <1>1, <1>2, <2>1, <2>5 DEF Stored, Spent, TypeOK, IssuedFor
  <2>7. Presented'
    <3>1. \A q \in Requests : got[q] # NoCode =>
              req[q].email \in Emails /\ got[q].issue \in Requests
      BY DEF Presented, Parameters, IssuedFor
    <3>2. got'[r] = entry /\ entry.issue \in Requests
          /\ \A q \in Requests : q # r => got'[q] = got[q] /\ pc'[q] = pc[q]
      BY <1>4, <2>1, <2>3 DEF TypeOK, IssuedFor
    <3>3. pc'[r] = "del"
      BY <2>1 DEF TypeOK
    <3> QED
      BY <1>1, <1>2, <1>4, <2>2, <2>3, <2>5, <3>1, <3>2, <3>3 DEF Presented
  <2>8. Rows'
    BY <1>1, <1>2, <1>4, <2>1 DEF Rows, RowOf, TypeOK
  <2>9. Entitled' /\ RegisteredCanLogin'
    BY <1>1, <1>2, <2>1 DEF Entitled, RegisteredCanLogin, At, TypeOK
  <2>10. CodeIsSpent'
    BY <1>2, <1>4, <2>3 DEF CodeIsSpent, Spent, TypeOK
  <2> QED
    BY <2>4, <2>6, <2>7, <2>8, <2>9, <2>10
<1> QED
  BY <1>3, <1>4 DEF VerifyGet, getVerificationCodeKey

\* Del leaves nothing under the key: neither the code that was accepted nor one
\* that took its place.
LEMMA VerifyDelStep ==
  ASSUME Inv, NEW r \in Requests, VerifyDel(r)
  PROVE  Inv'
<1>1. /\ pc[r] = "del" /\ req[r].kind \in {"verify", "complete"}
      /\ req[r] \in Parameters /\ services /\ reply[r] = "none"
      /\ r \notin entitled /\ got[r] # NoCode
  BY KindAt DEF VerifyDel, At, Inv, Entitled, Presented
<1>2. IssuedFor(got[r].issue, req[r].email) /\ req[r].email \in Emails
  BY <1>1 DEF Inv, Presented, Parameters
<1>3. UNCHANGED <<services, accounts, req, got, before, entitled, failed>>
  BY DEF VerifyDel
<1>4. PICK p \in Points, a \in Replies :
        /\ pc' = [pc EXCEPT ![r] = p] /\ reply' = [reply EXCEPT ![r] = a]
        /\ p \in Path(req[r].kind)
        /\ \/ p = "done" /\ a = "success" /\ req[r].kind = "verify"
           \/ p = "first" /\ a = "none" /\ req[r].kind = "complete"
  <2>1. reply = [reply EXCEPT ![r] = "none"]
    BY <1>1 DEF Inv, TypeOK
  <2>2. \/ /\ req[r].kind = "verify" /\ pc' = [pc EXCEPT ![r] = "done"]
           /\ reply' = [reply EXCEPT ![r] = "success"]
        \/ /\ req[r].kind = "complete" /\ pc' = [pc EXCEPT ![r] = "first"]
           /\ reply' = [reply EXCEPT ![r] = "none"]
    BY <1>1, <2>1 DEF VerifyDel, Accepted, Answer, Goto
  <2>3. {"done", "first"} \subseteq Points /\ {"success", "none"} \subseteq Replies
        /\ "done" \in Path("verify") /\ "first" \in Path("complete")
    BY DEF Points, Replies, Path
  <2> QED
    BY <2>2, <2>3
<1>5. CASE UNCHANGED <<codes, consumed>>
  <2>1. failed \subseteq failed' /\ failed' \subseteq Requests
    BY <1>3 DEF Inv, TypeOK
  <2>2. UNCHANGED <<store, req, got, consumed, before, entitled>>
    BY <1>3, <1>5 DEF store
  <2> QED
    BY <1>1, <1>4, <2>1, <2>2, MoveStep
<1>6. CASE /\ codes' = [codes EXCEPT ![req[r].email] = NoCode]
           /\ consumed' = consumed \cup {got[r].issue}
  <2> USE DEF Inv
  <2>1. TypeOK' /\ Running'
    BY <1>1, <1>2, <1>3, <1>4, <1>6 DEF TypeOK, Running, IssuedFor
  <2>2. \A i \in Requests, e \in Emails : IssuedFor(i, e) => IssuedFor(i, e)'
    BY <1>1, <1>3, <1>4 DEF IssuedFor, TypeOK
  <2>3. Stored'
    BY <1>2, <1>6, <2>2 DEF Stored, IssuedFor, TypeOK
  <2>4. Spent'
    <3>1. \A i \in Requests : pc[i] \in {"mail", "done"} => pc'[i] = pc[i]
      BY <1>1, <1>4 DEF TypeOK
    <3> QED
      BY <1>2, <1>3, <1>6, <3>1 DEF Spent, IssuedFor, TypeOK
  <2>5. Presented'
    <3>1. \A q \in Requests : got[q] # NoCode =>
              req[q].email \in Emails /\ got[q].issue \in Requests
      BY DEF Presented, Parameters, IssuedFor
    <3> QED
      BY <1>1, <1>3, <1>4, <2>2, <3>1 DEF Presented, TypeOK
  <2>6. Rows'
    BY <1>1, <1>3, <1>4 DEF Rows, RowOf, TypeOK
  <2>7. Entitled' /\ RegisteredCanLogin' /\ CodeIsSpent'
    BY <1>1, <1>3, <1>4 DEF Entitled, RegisteredCanLogin, At, CodeIsSpent, TypeOK
  <2> QED
    BY <2>1, <2>3, <2>4, <2>5, <2>6, <2>7
<1> QED
  BY <1>5, <1>6 DEF VerifyDel, getVerificationCodeKey

\* A row is written only where the address has none.
LEMMA CreateStep ==
  ASSUME Inv, NEW r \in Requests, Create(r)
  PROVE  Inv'
<1>1. /\ pc[r] = "create" /\ req[r].kind = "complete"
      /\ req[r] \in Parameters /\ services /\ reply[r] = "none"
      /\ r \notin entitled /\ got[r] # NoCode
  BY KindAt DEF Create, At, Inv, Entitled, Presented
<1>2. UNCHANGED <<services, codes, req, got, consumed, before, entitled, failed>>
  BY DEF Create, aux
<1>3. PICK a \in {"success", "busy"} :
        /\ pc' = [pc EXCEPT ![r] = "done"] /\ reply' = [reply EXCEPT ![r] = a]
        /\ Insert(r) \/ (UNCHANGED accounts /\ a = "busy")
  BY DEF Create, Answer
<1>4. {"success", "busy"} \subseteq Replies /\ "done" \in Points
      /\ "done" \in Path("complete")
  BY DEF Replies, Points, Path
<1>5. CASE UNCHANGED accounts /\ a = "busy"
  <2>1. failed \subseteq failed' /\ failed' \subseteq Requests
    BY <1>2 DEF Inv, TypeOK
  <2>2. UNCHANGED <<store, req, got, consumed, before, entitled>>
    BY <1>2, <1>5 DEF store
  <2> QED
    BY <1>1, <1>3, <1>4, <1>5, <2>1, <2>2, MoveStep
<1>6. CASE Insert(r)
  <2> USE DEF Inv
  <2> DEFINE n == NewUser(r)
  <2>1. accounts' = accounts \cup {n} /\ \A b \in accounts : b.email # req[r].email
    BY <1>6 DEF Insert, RowsOf
  <2>2. /\ n.id = r /\ n.active /\ n.email = req[r].email
        /\ n.password = req[r].password /\ n \in AuthUser
    BY <1>1 DEF NewUser, AuthUser, Parameters, Running
  <2> HIDE DEF n
  <2>3. TypeOK' /\ Running'
    BY <1>1, <1>2, <1>3, <1>4, <2>1, <2>2 DEF TypeOK, Running
  <2>4. \A i \in Requests, e \in Emails : IssuedFor(i, e) => IssuedFor(i, e)'
    BY <1>1, <1>2, <1>3 DEF IssuedFor, TypeOK
  <2>5. Stored' /\ Spent'
    BY <1>1, <1>2, <1>3, <2>4 DEF Stored, Spent, IssuedFor, TypeOK
  <2>6. Presented'
    <3>1. \A q \in Requests : got[q] # NoCode =>
              req[q].email \in Emails /\ got[q].issue \in Requests
      BY DEF Presented, Parameters, IssuedFor
    <3> QED
      BY <1>1, <1>2, <1>3, <2>4, <3>1 DEF Presented, TypeOK
  <2>7. Rows'
    <3>1. \A b \in accounts : b.id # r
      BY <1>1 DEF Rows
    <3> QED
      BY <1>1, <1>2, <1>3, <2>1, <2>2, <3>1 DEF Rows, RowOf, TypeOK, AuthUser
  <2>8. Entitled' /\ RegisteredCanLogin' /\ CodeIsSpent'
    BY <1>1, <1>2, <1>3, <2>1 DEF Entitled, RegisteredCanLogin, At, CodeIsSpent,
       TypeOK
  <2> QED
    BY <2>3, <2>5, <2>6, <2>7, <2>8
<1> QED
  BY <1>3, <1>5, <1>6

-----------------------------------------------------------------------------
(* The theorems                                                             *)

\* Inv holds in every reachable state.
THEOREM Invariance == Spec => []Inv
<1>1. Inv /\ [Next]_vars => Inv'
  <2> SUFFICES ASSUME Inv, [Next]_vars PROVE Inv'
    OBVIOUS
  <2>1. CASE UNCHANGED vars
    BY <2>1 DEF vars, store, aux, Inv, TypeOK, Running, Stored, IssuedFor,
       Presented, Spent, Rows, RowOf, Entitled, CodeIsSpent, RegisteredCanLogin,
       At
  <2>2. CASE Next
    BY <2>2, ArriveStep, RejectStep, FirstStep, LoginStep, SetCodeStep,
       SendEmailStep, VerifyGetStep, VerifyDelStep, CreateStep, ExpireStep
       DEF Next
  <2> QED
    BY <2>1, <2>2
<1> QED
  BY InitInv, <1>1, PTL DEF Spec

\* What redis, the table and the handlers hold keeps its type.
THEOREM TypeCorrect == Spec => []TypeOK
<1>1. Inv => TypeOK
  BY DEF Inv
<1> QED
  BY <1>1, Invariance, PTL

\* However many completions race between their look-ups and their inserts, an
\* address has one row, and one completion reports success.
THEOREM AccountsAreUnique == Spec => []OneAccountPerEmail
<1>1. ASSUME Inv, NEW r \in Requests, NEW s \in Requests,
             reply[r] = "success", req[r].kind = "complete",
             reply[s] = "success", req[s].kind = "complete",
             req[r].email = req[s].email
      PROVE  r = s
  <2>1. PICK a \in accounts : RowOf(a, r)
    BY <1>1 DEF Inv, Rows
  <2>2. PICK b \in accounts : RowOf(b, s)
    BY <1>1 DEF Inv, Rows
  <2>3. a.email = b.email
    BY <1>1, <2>1, <2>2 DEF RowOf
  <2>4. a = b
    BY <1>1, <2>3 DEF Inv, Rows
  <2> QED
    BY <2>1, <2>2, <2>4 DEF RowOf
<1>2. Inv => \A a, b \in accounts : a.email = b.email => a = b
  BY DEF Inv, Rows
<1>3. Inv => OneAccountPerEmail
  BY <1>1, <1>2 DEF OneAccountPerEmail
<1> QED
  BY <1>3, Invariance, PTL

\* A code deleted after it was accepted is accepted from no later request.
THEOREM CodesAreSpentOnce == Spec => []CodeIsSpent
<1>1. Inv => CodeIsSpent
  BY DEF Inv
<1> QED
  BY <1>1, Invariance, PTL

\* An account exists only for an address whose mailbox was sent the code that
\* completed it.
THEOREM MailboxIsProved == Spec => []AccountProvesMailbox
<1>1. Inv => AccountProvesMailbox
  BY DEF Inv, Rows, RowOf, Presented, IssuedFor, TypeOK, AuthUser,
     AccountProvesMailbox
<1> QED
  BY <1>1, Invariance, PTL

\* A completed account can log in unless the database fails the login.
THEOREM LoginSucceeds == Spec => []RegisteredCanLogin
<1>1. Inv => RegisteredCanLogin
  BY DEF Inv
<1> QED
  BY <1>1, Invariance, PTL
=============================================================================
