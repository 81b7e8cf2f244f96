---------------------------- MODULE AccountServer ----------------------------
(***************************************************************************)
(* Accounts: login, sign-up, verification by a mailed code and recovery of *)
(* a password.  AccountHandler, DBCommunicator and EmailHandler run in a   *)
(* thread per request; the pages of a program send one request at a time   *)
(* and block until a datagram comes back, so there is one thread per       *)
(* program.                                                                *)
(*                                                                         *)
(* All threads use one static database handle, and each opens it again:    *)
(* sqlite3_open clears it first and sets it at its end, unless it fails,   *)
(* and a statement on a cleared handle fails.  So may one that meets a     *)
(* write of another handle (SQLITE_BUSY).  What a failed statement leads   *)
(* to differs: most read like "no such row" or like success, and those     *)
(* that print the error message print a null pointer when the handle is    *)
(* cleared, which ends the server.                                         *)
(*                                                                         *)
(* Names, passwords and mails stand for what getDetails keeps of the typed *)
(* ones (letters, digits, @ and .): every request goes through it, so that *)
(* two texts that differ in other characters only are one here.  A text    *)
(* with the separator ':' in it is left out, as are lost datagrams.  Whom  *)
(* a program logs in as is a constant: the page Login sends one literal    *)
(* name for everybody, whatever is typed.                                  *)
(*                                                                         *)
(* A definition named X_Y is X with a plausible mistake in it: nothing     *)
(* uses it, it is there to show that a property notices the mistake.       *)
(***************************************************************************)
EXTENDS Naturals, Sequences

CONSTANTS User, Password, Mail, Code,
          Empty,          \* the empty text: a field or map entry nobody has set
          Program,        \* instances of the client
          NoProgram,      \* the zero address an absent map entry reads as
          Account,        \* [Program -> User]: the name its page Login sends
          Identity,       \* per program: names and mails its user types
          Registered,     \* the rows of the database file at the start
          MaxRequests,    \* bound: requests of the whole run
          FreshRecovery,  \* recovery only in programs without a sign-up
          ScriptFails     \* the mail script may exit with an error

Name == User \cup {Empty}
Pass == Password \cup {Empty}
Addr == Mail \cup {Empty}
Num  == Code \cup {Empty}
Row  == [name : Name, password : Pass, mail : Addr]

ASSUME AccountAssumption ==
    /\ Empty \notin User \cup Password \cup Mail \cup Code
    /\ NoProgram \notin Program
    /\ Account \in [Program -> User]
    /\ Identity \in [Program -> SUBSET (User \X Mail)]
    /\ Registered \in Seq(Row)
    /\ MaxRequests \in Nat
    /\ FreshRecovery \in BOOLEAN /\ ScriptFails \in BOOLEAN

\* The first character of a request and of an answer.
Kind   == {"login", "signup", "check", "mailCode", "newPass"}
Result == {"correct", "incorrectPass", "invalidUser", "userExists",
           "emailExists", "noEmail"}

\* The request thread of a program, at its next access to shared state.
Pc == {"open", "opening", "user", "password", "mail", "match", "script",
       "store", "code", "insert", "change", "address", "answer", "done"}
Thread == [pc : Pc, kind : Kind, name : Name, password : Pass, mail : Addr,
           code : Num, result : Result]

Page == {"first", "login", "signup", "recovery", "verification",
         "newPassword", "menu"}

\* The fields of the pages EmailVerfication and NewPassword.
Verification == [action : {"none", "signup", "recovery"}, name : Name,
                 password : Pass, mail : Addr]
NewPassword  == [name : Name, mail : Addr, code : Num]

VARIABLES
    users,         \* the table Users, in the order of its ids
    db,            \* the static handle is set
    serverUp,      \* the server's process
    resetCodes,    \* of EmailHandler
    clientMap,     \* of Server: where a name has logged in from
    thread,        \* per program: the thread of its last request
    answers,       \* per program: datagrams it has not read
    mailbox,       \* the codes that have arrived at a mail
    waiting,       \* per program: its UI thread is blocked in Receive
    page,          \* per program: the page it shows
    verification,  \* per program: page EmailVerfication
    newPassword,   \* per program: page NewPassword
    requests,      \* the number of requests so far
    mailed,        \* ghost: mails and the codes that were stored for them
    typed,         \* ghost: mails and the codes that were typed for them
    matched,       \* ghost: names and mails asked for while in one row
    changed,       \* ghost: names and mails a password was changed for
    chosen,        \* ghost: the password a user was last told to have
    missed         \* ghost: names a statement failed for

serverVars == <<users, db, serverUp, resetCodes, clientMap>>
pageVars   == <<page, verification, newPassword>>
clientVars == <<answers, mailbox, waiting, pageVars, requests>>
ghostVars  == <<mailed, typed, matched, changed, chosen, missed>>
vars == <<serverVars, thread, clientVars, ghostVars>>

TypeOK ==
    /\ users \in Seq(Row)
    /\ db \in BOOLEAN /\ serverUp \in BOOLEAN
    /\ resetCodes \in [Addr -> Num]
    /\ clientMap \in [Name -> Program \cup {NoProgram}]
    /\ thread \in [Program -> Thread]
    /\ answers \in [Program -> Seq(Result)]
    /\ mailbox \in [Addr -> SUBSET Code]
    /\ waiting \in [Program -> BOOLEAN]
    /\ page \in [Program -> Page]
    /\ verification \in [Program -> Verification]
    /\ newPassword \in [Program -> NewPassword]
    /\ requests \in 0 .. MaxRequests
    /\ mailed \subseteq Addr \X Num
    /\ typed \subseteq Addr \X Num
    /\ matched \subseteq Name \X Addr
    /\ changed \subseteq Name \X Addr
    /\ chosen \in [User -> Pass]
    /\ missed \subseteq Name

-----------------------------------------------------------------------------
(* The table.                                                              *)

Named(T, n) == {i \in DOMAIN T : T[i].name = n}

\* The callback runs for every row with the name and keeps the last.
Last(T, n) == {i \in Named(T, n) : \A j \in Named(T, n) : j <= i}

PasswordOf(T, n) == IF Last(T, n) = {}
                    THEN Empty ELSE T[CHOOSE i \in Last(T, n) : TRUE].password
MailOf(T, n)     == IF Last(T, n) = {}
                    THEN Empty ELSE T[CHOOSE i \in Last(T, n) : TRUE].mail

Fresh == [pc |-> "done", kind |-> "login", name |-> Empty, password |-> Empty,
          mail |-> Empty, code |-> Empty, result |-> "correct"]
NoVerification == [action |-> "none", name |-> Empty, password |-> Empty,
                   mail |-> Empty]
NoNewPassword  == [name |-> Empty, mail |-> Empty, code |-> Empty]

Init ==
    /\ users = Registered
    /\ db = FALSE /\ serverUp = TRUE
    /\ resetCodes = [m \in Addr |-> Empty]
    /\ clientMap = [n \in Name |-> NoProgram]
    /\ thread = [c \in Program |-> Fresh]
    /\ answers = [c \in Program |-> <<>>]
    /\ mailbox = [m \in Addr |-> {}]
    /\ waiting = [c \in Program |-> FALSE]
    /\ page = [c \in Program |-> "first"]
    /\ verification = [c \in Program |-> NoVerification]
    /\ newPassword = [c \in Program |-> NoNewPassword]
    /\ requests = 0
    /\ mailed = {} /\ typed = {} /\ matched = {} /\ changed = {}
    /\ chosen = [u \in User |-> PasswordOf(Registered, u)]
    /\ missed = {}

-----------------------------------------------------------------------------
(* Requests of the pages.  The UI thread blocks for the answer.            *)

Request(c, kind, name, password, mail, code) ==
    /\ ~waiting[c]
    /\ requests < MaxRequests
    /\ requests' = requests + 1
    /\ thread' = [thread EXCEPT ![c] =
           [pc |-> "open", kind |-> kind, name |-> name,
            password |-> password, mail |-> mail, code |-> code,
            result |-> "correct"]]
    /\ waiting' = [waiting EXCEPT ![c] = TRUE]
    /\ UNCHANGED <<serverVars, answers, mailbox, pageVars, mailed, matched,
                   changed, chosen, missed>>

SendLogin(c, p) ==
    /\ page[c] = "login"
    /\ Request(c, "login", Account[c], p, Empty, Empty)
    /\ UNCHANGED typed

SendSignup(c, n, p, m) ==
    /\ page[c] = "signup"
    /\ <<n, m>> \in Identity[c]
    /\ Request(c, "signup", n, p, m, Empty)
    /\ UNCHANGED typed

CheckEmail(c, n, m) ==
    /\ page[c] = "recovery"
    /\ <<n, m>> \in Identity[c]
    /\ FreshRecovery => verification[c].name = Empty
    /\ Request(c, "mailCode", n, Empty, m, Empty)
    /\ UNCHANGED typed

\* A user types a code it has been sent, or nothing, which is no code.
Typeable(c) ==
    UNION {mailbox[i[2]] : i \in Identity[c]} \cup {Empty}

\* EmailVerfication.done: the same request after a sign-up and in a recovery.
CheckCode(c, k) ==
    /\ page[c] = "verification"
    /\ k \in Typeable(c)
    /\ LET v == verification[c]
       IN  /\ Request(c, "check", v.name, v.password, v.mail, k)
           /\ typed' = typed \cup ({<<v.mail, k>>} \cap (Addr \X Code))

SendNewPassword(c, p) ==
    /\ page[c] = "newPassword"
    /\ LET f == newPassword[c]
       IN  Request(c, "newPass", f.name, p, f.mail, f.code)
    /\ UNCHANGED typed

-----------------------------------------------------------------------------
(* The threads of the server.                                              *)

Goto(c, pc)       == thread' = [thread EXCEPT ![c].pc = pc]
Answer(c, result) == thread' = [thread EXCEPT ![c].pc = "answer",
                                              ![c].result = result]
At(c, pc) == serverUp /\ thread[c].pc = pc

\* analyzeUser opens the database again.  The handle is cleared ...
OpenBegins(c) ==
    /\ At(c, "open")
    /\ db' = FALSE
    /\ Goto(c, "opening")
    /\ UNCHANGED <<users, serverUp, resetCodes, clientMap, clientVars,
                   ghostVars>>

FirstPc(kind) == CASE kind \in {"login", "signup"}  -> "user"
                   [] kind = "mailCode"             -> "mail"
                   [] kind \in {"check", "newPass"} -> "code"

\* ... and set, or left clear when sqlite3_open fails: analyzeUser does not
\* look at what open returns, so the request goes on either way and is told
\* by its first character.  A CREATE TABLE that fails leaves the handle set
\* and the table, which is there since the first request, as it is.
OpenEnds(c) ==
    /\ At(c, "opening")
    /\ db' \in BOOLEAN
    /\ Goto(c, FirstPc(thread[c].kind))
    /\ UNCHANGED <<users, serverUp, resetCodes, clientMap, clientVars,
                   ghostVars>>

Writing   == {"insert", "change"}
Accessing == Writing \cup {"opening", "user", "password", "mail", "match"}

\* Another thread is in the database and one of the two writes.
Contended(c) ==
    \E d \in Program \ {c} :
        /\ thread[d].pc \in Accessing
        /\ thread[c].pc \in Writing \/ thread[d].pc \in Writing

\* Whether the statement of c's thread finds the database.
Outcomes(c) == IF ~db THEN {FALSE} ELSE {TRUE} \cup {~Contended(c)}

\* A failed statement that may make two rows of a name, or none.
Noted(c, ok) == missed' = IF ok THEN missed ELSE missed \cup {thread[c].name}

\* doesUserExist: a failed statement reads like an unknown name.
DoesUserExist(c) ==
    /\ At(c, "user")
    /\ \E ok \in Outcomes(c) :
           LET known == ok /\ Named(users, thread[c].name) # {}
           IN  \/ /\ thread[c].kind = "login"
                  /\ IF known THEN Goto(c, "password")
                              ELSE Answer(c, "invalidUser")
                  /\ UNCHANGED missed
               \/ /\ thread[c].kind = "signup"
                  /\ IF known THEN Answer(c, "userExists")
                              ELSE Goto(c, "mail")
                  /\ Noted(c, ok)
    /\ UNCHANGED <<serverVars, clientVars, mailed, typed, matched, changed,
                   chosen>>

DoesPasswordMatch(c) ==
    /\ At(c, "password")
    /\ \E ok \in Outcomes(c) :
           IF thread[c].password =
                  IF ok THEN PasswordOf(users, thread[c].name) ELSE Empty
           THEN Goto(c, "address")
           ELSE Answer(c, "incorrectPass")
    /\ UNCHANGED <<serverVars, clientVars, ghostVars>>

\* A null error message is printed, which ends the process.
PrintsNull(c) ==
    /\ thread[c].pc \in {"mail", "match", "change"}
    /\ serverUp /\ ~db
    /\ serverUp' = FALSE
    /\ UNCHANGED <<users, db, resetCodes, clientMap, thread, clientVars,
                   ghostVars>>

\* doesEmailExist, in handleSignup and in handleEmailReq.
DoesEmailExist(c) ==
    /\ At(c, "mail") /\ db
    /\ \E ok \in Outcomes(c) :
           LET known == /\ ok
                        /\ \E i \in DOMAIN users :
                               users[i].mail = thread[c].mail
           IN  \/ /\ thread[c].kind = "signup"
                  /\ IF known THEN Answer(c, "emailExists")
                              ELSE Goto(c, "script")
               \/ /\ thread[c].kind = "mailCode"
                  /\ IF known THEN Goto(c, "match")
                              ELSE Answer(c, "noEmail")
    /\ UNCHANGED <<serverVars, clientVars, ghostVars>>

\* doesEmailMatch
DoesEmailMatch(c) ==
    /\ At(c, "match") /\ db
    /\ LET t == thread[c]
       IN  /\ \E ok \in Outcomes(c) :
                  IF ok /\ MailOf(users, t.name) = t.mail
                  THEN Goto(c, "script")
                  ELSE Answer(c, "invalidUser")
           /\ matched' = IF MailOf(users, t.name) = t.mail
                         THEN matched \cup {<<t.name, t.mail>>} ELSE matched
    /\ UNCHANGED <<serverVars, clientVars, mailed, typed, changed, chosen,
                   missed>>

\* sendMail: any number of six digits; the script ends well also when the
\* mail could not be sent.
RunScript(c) ==
    /\ At(c, "script")
    /\ \/ \E k \in Code :
              /\ thread' = [thread EXCEPT ![c].pc = "store", ![c].code = k]
              /\ \/ mailbox' = [mailbox EXCEPT ![thread[c].mail] =
                                    @ \cup {k}]
                 \/ UNCHANGED mailbox
       \/ ScriptFails /\ Answer(c, "correct") /\ UNCHANGED mailbox
    /\ UNCHANGED <<serverVars, answers, waiting, pageVars, requests,
                   ghostVars>>

\* The code counts from here on; both requests answer that all is well.
StoreCode(c) ==
    /\ At(c, "store")
    /\ LET t == thread[c]
       IN  /\ resetCodes' = [resetCodes EXCEPT ![t.mail] = t.code]
           /\ mailed' = mailed \cup {<<t.mail, t.code>>}
    /\ Answer(c, "correct")
    /\ UNCHANGED <<users, db, serverUp, clientMap, clientVars, typed, matched,
                   changed, chosen, missed>>

\* isCodeCorrect, in verifyPasscode and in handlePassReset.
IsCodeCorrect(c) ==
    /\ At(c, "code")
    /\ LET t == thread[c]
       IN  IF resetCodes[t.mail] = t.code
           THEN Goto(c, IF t.kind = "check" THEN "insert" ELSE "change")
           ELSE Answer(c, "incorrectPass")
    /\ UNCHANGED <<serverVars, clientVars, ghostVars>>

\* addNewUser: whether the row was inserted is not asked.
AddNewUser(c) ==
    /\ At(c, "insert")
    /\ \E ok \in Outcomes(c) :
           LET t == thread[c]
           IN  /\ users' = IF ok
                           THEN Append(users, [name |-> t.name,
                                               password |-> t.password,
                                               mail |-> t.mail])
                           ELSE users
               /\ Noted(c, ok)
    /\ Answer(c, "correct")
    /\ UNCHANGED <<db, serverUp, resetCodes, clientMap, clientVars, mailed,
                   typed, matched, changed, chosen>>

ChangePassword_Swapped(c) ==
    /\ At(c, "change") /\ db
    /\ LET t == thread[c]
       IN  /\ users' = [i \in DOMAIN users |->
                            IF users[i].name = t.password
                            THEN [users[i] EXCEPT !.password = t.name]
                            ELSE users[i]]
           /\ changed' = changed \cup {<<t.name, t.mail>>}
    /\ Answer(c, "correct")
    /\ UNCHANGED <<db, serverUp, resetCodes, clientMap, clientVars, mailed,
                   typed, matched, chosen, missed>>

\* changePassword: in every row with the name.
ChangePassword(c) ==
    /\ At(c, "change") /\ db
    /\ \E ok \in Outcomes(c) :
           LET t == thread[c]
           IN  /\ users' = IF ok
                           THEN [i \in DOMAIN users |->
                                    IF users[i].name = t.name
                                    THEN [users[i] EXCEPT
                                              !.password = t.password]
                                    ELSE users[i]]
                           ELSE users
               /\ changed' = changed \cup {<<t.name, t.mail>>}
               /\ Noted(c, ok)
    /\ Answer(c, "correct")
    /\ UNCHANGED <<db, serverUp, resetCodes, clientMap, clientVars, mailed,
                   typed, matched, chosen>>

AddClientAddress(c) ==
    /\ At(c, "address")
    /\ clientMap' = [clientMap EXCEPT ![thread[c].name] = c]
    /\ Answer(c, "correct")
    /\ UNCHANGED <<users, db, serverUp, resetCodes, clientVars, ghostVars>>

\* A login that went well is answered by name, everything else by address.
SendResponse(c) ==
    /\ At(c, "answer")
    /\ LET t  == thread[c]
           to == IF t.kind = "login" /\ t.result = "correct"
                 THEN clientMap[t.name] ELSE c
       IN  answers' = IF to \in Program
                      THEN [answers EXCEPT ![to] = Append(@, t.result)]
                      ELSE answers
    /\ Goto(c, "done")
    /\ UNCHANGED <<serverVars, mailbox, waiting, pageVars, requests,
                   ghostVars>>

Handle(c) == \/ OpenBegins(c) \/ OpenEnds(c)
             \/ DoesUserExist(c) \/ DoesPasswordMatch(c)
             \/ DoesEmailExist(c) \/ DoesEmailMatch(c) \/ PrintsNull(c)
             \/ RunScript(c) \/ StoreCode(c) \/ IsCodeCorrect(c)
             \/ AddNewUser(c) \/ ChangePassword(c)
             \/ AddClientAddress(c) \/ SendResponse(c)

-----------------------------------------------------------------------------
(* The pages take the next datagram for the answer.  It is the last thing  *)
(* the thread has done, except that a program may get the answer to another*)
(* login with its name, whose sender then waits for ever.                  *)

Read(c, kind) ==
    /\ waiting[c] /\ thread[c].kind = kind
    /\ answers[c] # <<>>
    /\ answers' = [answers EXCEPT ![c] = Tail(@)]
    /\ waiting' = [waiting EXCEPT ![c] = FALSE]
    /\ thread' = [thread EXCEPT ![c] = IF @.pc = "done" THEN Fresh ELSE @]
    /\ UNCHANGED <<serverVars, mailbox, requests, mailed, typed,
                   matched, changed, missed>>

Reply(c) == Head(answers[c])
Show(c, p) == page' = [page EXCEPT ![c] = p]

LoginAnswered(c) ==
    /\ Read(c, "login")
    /\ IF Reply(c) = "correct" THEN Show(c, "menu") ELSE UNCHANGED page
    /\ UNCHANGED <<verification, newPassword, chosen>>

SignupAnswered_AnyAnswer(c) ==
    /\ Read(c, "signup")
    /\ Show(c, "verification")
    /\ verification' = [verification EXCEPT ![c] =
           [action |-> "signup", name |-> thread[c].name,
            password |-> thread[c].password, mail |-> thread[c].mail]]
    /\ UNCHANGED <<newPassword, chosen>>

SignupAnswered(c) ==
    /\ Read(c, "signup")
    /\ IF Reply(c) = "correct"
       THEN /\ Show(c, "verification")
            /\ verification' = [verification EXCEPT ![c] =
                   [action |-> "signup", name |-> thread[c].name,
                    password |-> thread[c].password, mail |-> thread[c].mail]]
       ELSE UNCHANGED <<page, verification>>
    /\ UNCHANGED <<newPassword, chosen>>

RecoveryAnswered_NoName(c) ==
    /\ Read(c, "mailCode")
    /\ IF Reply(c) \notin {"noEmail", "invalidUser"}
       THEN /\ Show(c, "verification")
            /\ verification' = [verification EXCEPT
                   ![c].action = "recovery", ![c].mail = thread[c].mail]
            /\ newPassword' = [newPassword EXCEPT ![c].mail = thread[c].mail]
       ELSE UNCHANGED <<page, verification, newPassword>>
    /\ UNCHANGED chosen

\* Whatever is not one of two refusals goes on.  Name and password of the
\* verification page stay what an earlier sign-up has left there.
RecoveryAnswered(c) ==
    /\ Read(c, "mailCode")
    /\ IF Reply(c) \notin {"noEmail", "invalidUser"}
       THEN /\ Show(c, "verification")
            /\ verification' = [verification EXCEPT
                   ![c].action = "recovery", ![c].mail = thread[c].mail]
            /\ newPassword' = [newPassword EXCEPT
                   ![c].name = thread[c].name, ![c].mail = thread[c].mail]
       ELSE UNCHANGED <<page, verification, newPassword>>
    /\ UNCHANGED chosen

VerificationAnswered_KeepsAnswer(c) ==
    /\ Read(c, "check")
    /\ Reply(c) = "correct"
    /\ Show(c, "newPassword")
    /\ newPassword' = [newPassword EXCEPT ![c].code = Reply(c)]
    /\ UNCHANGED <<verification, chosen>>

\* "Signed up succrefully!", or on to the new password.
VerificationAnswered(c) ==
    /\ Read(c, "check")
    /\ LET v == verification[c]
       IN  \/ /\ Reply(c) = "correct" /\ v.action = "signup"
              /\ Show(c, "login")
              /\ chosen' = [u \in User |-> IF u = v.name THEN v.password
                                                         ELSE chosen[u]]
              /\ UNCHANGED newPassword
           \/ /\ Reply(c) = "correct" /\ v.action = "recovery"
              /\ Show(c, "newPassword")
              /\ newPassword' = [newPassword EXCEPT ![c].code = thread[c].code]
              /\ UNCHANGED chosen
           \/ /\ Reply(c) # "correct"
              /\ UNCHANGED <<page, newPassword, chosen>>
    /\ UNCHANGED verification

\* "Password changed successfully"
NewPasswordAnswered(c) ==
    /\ Read(c, "newPass")
    /\ IF Reply(c) = "correct"
       THEN /\ Show(c, "login")
            /\ chosen' = [u \in User |-> IF u = thread[c].name
                                         THEN thread[c].password
                                         ELSE chosen[u]]
       ELSE UNCHANGED <<page, chosen>>
    /\ UNCHANGED <<verification, newPassword>>

\* The buttons of the pages: home, back, log in, sign up, forgot password.
Links(c) ==
    CASE page[c] = "first"        -> {"login", "signup"}
      [] page[c] = "login"        -> {"first", "recovery"}
      [] page[c] = "signup"       -> {"first"}
      [] page[c] = "recovery"     -> {"first", "login"}
      [] page[c] = "verification" ->
             {"first"} \cup IF verification[c].action = "signup"
                            THEN {"signup"} ELSE {"recovery"}
      [] OTHER                    -> {}

Click(c, p) ==
    /\ ~waiting[c]
    /\ p \in Links(c)
    /\ Show(c, p)
    /\ UNCHANGED <<serverVars, thread, answers, mailbox, waiting,
                   verification, newPassword, requests, ghostVars>>

\* A user who closes the program, which a blocked window does not allow, and
\* starts it again; with no field set that only leads back to the first page.
\* The new socket has an address of its own: the old one leads nowhere.
Restart(c) ==
    /\ ~waiting[c] /\ thread[c].pc = "done"
    /\ verification[c] # NoVerification \/ page[c] = "menu"
    /\ Show(c, "first")
    /\ answers' = [answers EXCEPT ![c] = <<>>]
    /\ verification' = [verification EXCEPT ![c] = NoVerification]
    /\ newPassword' = [newPassword EXCEPT ![c] = NoNewPassword]
    /\ clientMap' = [n \in Name |-> IF clientMap[n] = c
                                    THEN NoProgram ELSE clientMap[n]]
    /\ UNCHANGED <<users, db, serverUp, resetCodes, thread, mailbox, waiting,
                   requests, ghostVars>>

Answered(c) == \/ LoginAnswered(c) \/ SignupAnswered(c) \/ RecoveryAnswered(c)
               \/ VerificationAnswered(c) \/ NewPasswordAnswered(c)

Use(c) == \/ \E p \in Password : SendLogin(c, p) \/ SendNewPassword(c, p)
          \/ \E n \in User, p \in Password, m \in Mail : SendSignup(c, n, p, m)
          \/ \E n \in User, m \in Mail : CheckEmail(c, n, m)
          \/ \E k \in Num : CheckCode(c, k)
          \/ \E p \in Page : Click(c, p)
          \/ Restart(c)

Next == \E c \in Program : Handle(c) \/ Answered(c) \/ Use(c)

Spec == Init /\ [][Next]_vars

-----------------------------------------------------------------------------
(* What an account is worth.                                               *)

\* Every account has been added with a code that was made for its mail and
\* typed for it, although the pages and the server check it in different
\* places: the page opens on an answer, the server compares with what it has
\* stored, and an absent code equals a field left empty.
VerifiedAccounts ==
    \A i \in DOMAIN users :
        i > Len(Registered) =>
            \E k \in Code : /\ <<users[i].mail, k>> \in mailed
                            /\ <<users[i].mail, k>> \in typed

\* A password is only changed for a name that had the mail which got the
\* code: handlePassReset does not ask for it again, but trusts the fields the
\* recovery page has filled in three requests earlier.
ResetByHolder == changed \subseteq matched

\* What a user was last told to be the password is what a login compares with,
\* unless a statement failed that looked for the name, added it or changed it.
PasswordStands ==
    \A u \in User :
        \/ chosen[u] = PasswordOf(users, u)
        \/ u \in missed
        \/ \E c \in Program : /\ waiting[c]
                              /\ thread[c].kind \in {"check", "newPass"}
                              /\ thread[c].name = u
=============================================================================
