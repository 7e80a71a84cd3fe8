------------------------------ MODULE Accounts ------------------------------
(***************************************************************************)
(* Registration and login: the handlers of httpHandler.go over the         *)
(* verification codes that emailService.go keeps in redis and the account  *)
(* table of authDB.go.                                                     *)
(*                                                                         *)
(* Every HTTP request runs on a goroutine of its own.  A step is one       *)
(* operation on redis, on the database or on the mail server; each may     *)
(* fail, and what the handler then does is part of the step.  main.go      *)
(* leaves the three services uninitialised (the calls are commented out):  *)
(* both that process and one with the services are initial states.         *)
(***************************************************************************)
EXTENDS Naturals, FiniteSets

CONSTANTS
    Requests,           \* HTTP requests; bounds how many there are
    Spellings, Emails,  \* addresses as typed, and normalised
    Normalise,          \* lower case without spaces; NoEmail: not an address
    Codes, Passwords,
    NoEmail, NoCode, NoPassword

ASSUME AccountsAssumption ==
    /\ NoEmail \notin Emails
    /\ Normalise \in [Spellings -> Emails \cup {NoEmail}]

VARIABLES
    services,   \* whether redis, database and mail were initialised
    codes,      \* redis: what is stored under the key of each address
    accounts,   \* the rows of the account table
    pc,         \* the point each request is at
    req,        \* its parameters
    got,        \* the entry its VerifyCode has accepted
    reply,      \* its answer
    \* for the properties alone:
    consumed,   \* registrations whose code was deleted after it was accepted
    before,     \* consumed, at the moment a request arrived
    entitled,   \* logins of an account that was complete when they arrived
    failed      \* logins the database has failed

store == <<services, codes, accounts>>
aux == <<consumed, before, entitled, failed>>
vars == <<store, pc, req, got, reply, aux>>

Kinds == {"register", "verify", "complete", "login"}

\* Each request stores one code at most: its id names the code it has issued.
Entries == [code : Codes, issue : Requests]
Parameters == [kind : Kinds, email : Emails, code : Codes \cup {NoCode},
               password : Passwords \cup {NoPassword}]
AuthUser == [id : Requests, email : Emails, password : Passwords, active : BOOLEAN]
Points == {"new", "first", "set", "mail", "get", "del", "create", "done"}
Replies == {"none", "success", "invalid", "repeat", "busy", "denied", "forbidden",
            "panic"}

TypeOK ==
    /\ services \in BOOLEAN
    /\ codes \in [Emails -> Entries \cup {NoCode}]
    /\ accounts \subseteq AuthUser
    /\ pc \in [Requests -> Points]
    /\ req \in [Requests -> Parameters \cup {NoCode}]
    /\ \A r \in Requests : pc[r] # "new" /\ reply[r] # "invalid" => req[r] \in Parameters
    /\ got \in [Requests -> Entries \cup {NoCode}]
    /\ reply \in [Requests -> Replies]
    /\ consumed \subseteq Requests /\ entitled \subseteq Requests
    /\ failed \subseteq Requests
    /\ before \in [Requests -> SUBSET Requests]

Init ==
    /\ services \in BOOLEAN
    /\ codes = [e \in Emails |-> NoCode]
    /\ accounts = {}
    /\ pc = [r \in Requests |-> "new"]
    /\ req = [r \in Requests |-> NoCode]
    /\ got = [r \in Requests |-> NoCode]
    /\ reply = [r \in Requests |-> "none"]
    /\ consumed = {} /\ before = [r \in Requests |-> {}]
    /\ entitled = {} /\ failed = {}

-----------------------------------------------------------------------------
At(r, p) == pc[r] = p
Goto(r, p) == pc' = [pc EXCEPT ![r] = p] /\ UNCHANGED reply
Answer(r, a) ==
    /\ pc' = [pc EXCEPT ![r] = "done"]
    /\ reply' = [reply EXCEPT ![r] = a]

\* Mutant: one key for all.
KeyOfPrefix(e) == CHOOSE k \in Emails : TRUE

\* addresses are in lower case when they come here
getVerificationCodeKey(e) == e

-----------------------------------------------------------------------------
\* where the handler of a request goes with parameters it accepts
FirstPoint(k) == IF k \in {"register", "login"} THEN "first" ELSE "get"

\* the answer without services: GetAuthDB() is nil and its use panics, which
\* the Recovery of gin catches; the absence of the mail service is looked for
Unserved(k) == IF k \in {"register", "login"} THEN "panic" ELSE "busy"

Registered(e, p) ==
    \E s \in Requests :
        reply[s] = "success" /\ req[s].kind = "complete"
        /\ req[s].email = e /\ req[s].password = p

\* RegisterRequest also has a password, which is nowhere kept.
Body(k, e, c, p) ==
    [kind |-> k, email |-> e,
     code |-> IF k \in {"verify", "complete"} THEN c ELSE NoCode,
     password |-> IF k \in {"complete", "login"} THEN p ELSE NoPassword]

\* ShouldBindJSON, the normalisation and validateEmail
Arrive(r, k, s, c, p) ==
    /\ At(r, "new")
    /\ LET e == Normalise[s] IN
        /\ e # NoEmail
        /\ req' = [req EXCEPT ![r] = Body(k, e, c, p)]
        /\ entitled' = IF k = "login" /\ Registered(e, p) THEN entitled \cup {r}
                                                          ELSE entitled
    /\ before' = [before EXCEPT ![r] = IF k \in {"verify", "complete"} THEN consumed
                                                                      ELSE @]
    /\ IF services THEN Goto(r, FirstPoint(k)) ELSE Answer(r, Unserved(k))
    /\ UNCHANGED <<store, got, consumed, failed>>

\* parameters that do not bind, or an address that is none
Reject(r) ==
    /\ At(r, "new")
    /\ Answer(r, "invalid")
    /\ UNCHANGED <<store, req, got, aux>>

-----------------------------------------------------------------------------
(* db.Where("email = ?").First                                              *)

RowsOf(e) == {a \in accounts : a.email = e}

\* Register and CompleteRegistration stop when a row is found, and go on when
\* there is none or, whether there is one or not, when the database fails.
First(r, kind, next) ==
    /\ At(r, "first") /\ req[r].kind = kind
    /\ \/ RowsOf(req[r].email) # {} /\ Answer(r, "repeat")
       \/ Goto(r, next)
    /\ UNCHANGED <<store, req, got, aux>>

FirstRegister(r) == First(r, "register", "set")
FirstComplete(r) == First(r, "complete", "create")

LoginAnswer(a, p) ==
    IF ~a.active THEN "forbidden" ELSE IF a.password = p THEN "success" ELSE "denied"

Login(r) ==
    /\ At(r, "first") /\ req[r].kind = "login"
    /\ \/ /\ \E a \in RowsOf(req[r].email) : Answer(r, LoginAnswer(a, req[r].password))
          /\ UNCHANGED failed
       \/ RowsOf(req[r].email) = {} /\ Answer(r, "denied") /\ UNCHANGED failed
       \/ Answer(r, "denied") /\ failed' = failed \cup {r}
    /\ UNCHANGED <<store, req, got, consumed, before, entitled>>

-----------------------------------------------------------------------------
(* SendVerificationCode: the code is stored, then mailed.                   *)

\* what Register says of it
AnswerRegister(r, sent) == Answer(r, IF sent THEN "success" ELSE "busy")

SetCode(r) ==
    /\ At(r, "set")
    /\ \/ /\ \E c \in Codes :
              codes' = [codes EXCEPT ![getVerificationCodeKey(req[r].email)] =
                          [code |-> c, issue |-> r]]
          /\ Goto(r, "mail")
       \/ UNCHANGED codes /\ AnswerRegister(r, FALSE)
    /\ UNCHANGED <<services, accounts, req, got, aux>>

\* A mail that fails leaves the code where it is.
SendEmail(r) ==
    /\ At(r, "mail")
    /\ \E sent \in BOOLEAN : AnswerRegister(r, sent)
    /\ UNCHANGED <<store, req, got, aux>>

\* ten minutes have passed
Expire(e) ==
    /\ codes[e] # NoCode
    /\ codes' = [codes EXCEPT ![e] = NoCode]
    /\ UNCHANGED <<services, accounts, pc, req, got, reply, aux>>

-----------------------------------------------------------------------------
(* VerifyCode: Get, the comparison, Del.                                    *)

\* The second case is an absent or a different code, or an error of redis.
VerifyGet(r) ==
    /\ At(r, "get")
    /\ LET entry == codes[getVerificationCodeKey(req[r].email)] IN
        \/ /\ entry # NoCode /\ entry.code = req[r].code
           /\ got' = [got EXCEPT ![r] = entry]
           /\ Goto(r, "del")
        \/ Answer(r, "invalid") /\ UNCHANGED got
    /\ UNCHANGED <<store, req, aux>>

\* what follows an accepted code
Accepted(r) == IF req[r].kind = "verify" THEN Answer(r, "success") ELSE Goto(r, "first")

\* Mutant: the code is left to expire.
VerifyDelNothing(r) ==
    /\ At(r, "del")
    /\ consumed' = consumed \cup {got[r].issue}
    /\ Accepted(r)
    /\ UNCHANGED <<store, req, got, before, entitled, failed>>

\* Del takes whatever code the key holds by now; its error is not looked at.
VerifyDel(r) ==
    /\ At(r, "del")
    /\ \/ /\ codes' = [codes EXCEPT ![getVerificationCodeKey(req[r].email)] = NoCode]
          /\ consumed' = consumed \cup {got[r].issue}
       \/ UNCHANGED <<codes, consumed>>
    /\ Accepted(r)
    /\ UNCHANGED <<services, accounts, req, got, before, entitled, failed>>

-----------------------------------------------------------------------------
\* Mutant: IsActive is left to the default of the table.
NewUserByDefault(r) == [id |-> r, email |-> req[r].email, password |-> req[r].password,
                        active |-> FALSE]

NewUser(r) == [id |-> r, email |-> req[r].email, password |-> req[r].password,
               active |-> TRUE]

\* Mutant: a table without the unique index.
InsertAny(r) == accounts' = accounts \cup {NewUser(r)}

\* The unique index on the address refuses a second row.
Insert(r) ==
    /\ RowsOf(req[r].email) = {}
    /\ accounts' = accounts \cup {NewUser(r)}

\* db.Create, after the password was hashed: it succeeds, or its answer is lost
\* after the row was written, or nothing is written.
Create(r) ==
    /\ At(r, "create")
    /\ \/ Insert(r) /\ Answer(r, "success")
       \/ Insert(r) /\ Answer(r, "busy")
       \/ UNCHANGED accounts /\ Answer(r, "busy")
    /\ UNCHANGED <<services, codes, req, got, aux>>

-----------------------------------------------------------------------------
Next ==
    \/ \E r \in Requests :
        \/ \E k \in Kinds, s \in Spellings, c \in Codes, p \in Passwords :
              Arrive(r, k, s, c, p)
        \/ Reject(r)
        \/ FirstRegister(r) \/ FirstComplete(r) \/ Login(r)
        \/ SetCode(r) \/ SendEmail(r) \/ VerifyGet(r) \/ VerifyDel(r) \/ Create(r)
    \/ \E e \in Emails : Expire(e)

Spec == Init /\ [][Next]_vars

-----------------------------------------------------------------------------
\* However many completions of one address run at once, between the look-up
\* and the insert of each other or after a look-up that failed, one of them at
\* most reports success, and the table has one row for it.
OneAccountPerEmail ==
    /\ \A a, b \in accounts : a.email = b.email => a = b
    /\ \A r, s \in Requests :
        /\ reply[r] = "success" /\ req[r].kind = "complete"
        /\ reply[s] = "success" /\ req[s].kind = "complete"
        /\ req[r].email = req[s].email
        => r = s

\* A code that VerifyCode has accepted and deleted is accepted from no request
\* that arrives later, from /verify and /completeRegistration alike, even when
\* the deletion of one meets the storing of a new code.
CodeIsSpent ==
    \A r \in Requests : got[r] # NoCode => got[r].issue \notin before[r]

\* Whoever has an account has presented a code that was issued for the
\* address of the account, however it was spelled in the two requests.
AccountProvesMailbox ==
    \A a \in accounts :
        LET issuer == got[a.id].issue IN
        /\ req[issuer].kind = "register"
        /\ req[issuer].email = a.email

\* A login that arrives after the completion of its account was reported, with
\* its password and however the address is spelled, succeeds, whatever other
\* registrations run, unless the database fails it.
RegisteredCanLogin ==
    \A r \in entitled \ failed : At(r, "done") => reply[r] = "success"
=============================================================================
