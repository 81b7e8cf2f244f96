------------------------- MODULE AccountServerProofs -------------------------
(***************************************************************************)
(* The types, ResetByHolder, VerifiedAccounts and PasswordStands for every *)
(* number of users, programs and requests, and every interleaving of the   *)
(* threads, also when statements fail.  What makes the first two           *)
(* invariants inductive is what each thread has established by the time it *)
(* is at its pc, what each page relies on, and that only a program which   *)
(* is logged in, or is about to be told so, gets answers to requests of    *)
(* others.  The last one needs more, see the end of the module.            *)
(***************************************************************************)
EXTENDS AccountServer, TLAPS

\* Which requests reach a place of analyzeUser.
KindOK(t) ==
    /\ t.pc \in {"password", "address"} => t.kind = "login"
    /\ t.pc \in {"mail", "script", "store"} => t.kind \in {"signup", "mailCode"}
    /\ t.pc = "match" => t.kind = "mailCode"
    /\ t.pc = "code" => t.kind \in {"check", "newPass"}
    /\ t.pc = "insert" => t.kind = "check"
    /\ t.pc = "change" => t.kind = "newPass"

\* The server has logged the program in, which may not know yet.
In(c) ==
    /\ thread[c].kind = "login" /\ thread[c].result = "correct"
    /\ thread[c].pc \in {"answer", "done"}
    /\ waiting[c] \/ page[c] = "menu"

\* A program has one request under way and gets the answer to it, or it is
\* logged in and gets nothing but answers to logins.
Session(c) ==
    /\ KindOK(thread[c])
    /\ thread[c].pc # "done" => In(c) \/ (waiting[c] /\ answers[c] = <<>>)
    /\ answers[c] # <<>> =>
           In(c) \/ (waiting[c] /\ answers[c] = <<thread[c].result>>)
    /\ In(c) => \A i \in DOMAIN answers[c] : answers[c][i] = "correct"
    /\ \A n \in Name : clientMap[n] = c => In(c)

Stored(m)     == ScriptFails \/ resetCodes[m] # Empty
Holds(f)      == <<f.name, f.mail>> \in matched
Replying(t)   == t.pc \in {"answer", "done"}

\* What the thread of a request has established.
Established(c) ==
    LET t == thread[c]
    IN  waiting[c] =>
        /\ t.kind = "signup" /\ Replying(t) /\ t.result = "correct" =>
               Stored(t.mail)
        /\ t.kind = "mailCode" /\ t.pc \in {"script", "store"} => Holds(t)
        /\ t.kind = "mailCode" /\ Replying(t) =>
               \/ t.result \in {"noEmail", "invalidUser"}
               \/ Holds(t) /\ Stored(t.mail)
        /\ t.pc = "store" => t.code \in Code
        /\ t.kind = "check" =>
               /\ t.code \in Code => <<t.mail, t.code>> \in typed
               /\ Stored(t.mail)
        /\ t.pc = "insert" =>
               ScriptFails \/ (t.code \in Code /\ <<t.mail, t.code>> \in mailed)
        /\ t.kind = "newPass" => Holds(t)

\* What the pages of a program rely on.
Pages(c) ==
    /\ page[c] = "verification" => Stored(verification[c].mail)
    /\ verification[c].action = "recovery" => Holds(newPassword[c])
    /\ page[c] = "newPassword" => verification[c].action = "recovery"

CodesMailed ==
    \A m \in Addr : resetCodes[m] # Empty =>
        resetCodes[m] \in Code /\ <<m, resetCodes[m]>> \in mailed

AccountInv == /\ \A c \in Program : Session(c) /\ Established(c) /\ Pages(c)
              /\ CodesMailed
              /\ ScriptFails \/ VerifiedAccounts
              /\ ResetByHolder

-----------------------------------------------------------------------------
(* Types.                                                                  *)

Threads == [Program -> Thread]

\* A thread that goes on stays a thread.
LEMMA GotoType ==
    ASSUME thread \in Threads, NEW c \in Program, NEW pc \in Pc, Goto(c, pc)
    PROVE  thread' \in Threads
BY DEF Threads, Thread, Goto

\* So does one that has its answer.
LEMMA AnswerType ==
    ASSUME thread \in Threads, NEW c \in Program, NEW r \in Result,
           Answer(c, r)
    PROVE  thread' \in Threads
<1> DEFINE t == [thread[c] EXCEPT !.pc = "answer", !.result = r]
<1>1. t \in Thread
  BY DEF Threads, Thread, Pc
<1>2. thread' = [thread EXCEPT ![c] = t]
  BY DEF Threads, Answer
<1> HIDE DEF t
<1> QED  BY <1>1, <1>2 DEF Threads

\* The first place of a request is a place.
LEMMA FirstPcType ==
    ASSUME NEW kind \in Kind
    PROVE  FirstPc(kind) \in {"user", "mail", "code"}
BY DEF FirstPc, Kind

\* A request starts a thread.
LEMMA RequestType ==
    ASSUME TypeOK, NEW c \in Program, NEW kind \in Kind, NEW name \in Name,
           NEW password \in Pass, NEW mail \in Addr, NEW code \in Num,
           Request(c, kind, name, password, mail, code)
    PROVE  /\ thread' \in Threads
           /\ waiting' \in [Program -> BOOLEAN]
           /\ requests' \in 0 .. MaxRequests
           /\ UNCHANGED <<serverVars, answers, mailbox, pageVars, mailed,
                          matched, changed, chosen, missed>>
<1>1. /\ thread' \in Threads
  BY DEF TypeOK, Request, Threads, Thread, Pc, Result
<1>2. waiting' \in [Program -> BOOLEAN] /\ requests' \in 0 .. MaxRequests
  BY AccountAssumption DEF TypeOK, Request
<1> QED  BY <1>1, <1>2 DEF Request

\* The row a statement finds is a row of the table, if there is one.
LEMMA PasswordOfType ==
    ASSUME NEW T \in Seq(Row), NEW n
    PROVE  PasswordOf(T, n) \in Pass
<1>1. CASE Last(T, n) = {}
  BY <1>1 DEF PasswordOf, Pass
<1>2. CASE Last(T, n) # {}
  <2>1. (CHOOSE i \in Last(T, n) : TRUE) \in DOMAIN T
    BY <1>2 DEF Last, Named
  <2>2. ASSUME NEW i \in DOMAIN T PROVE T[i].password \in Pass
    <3>1. T[i] \in Row
      BY <2>2
    <3> QED  BY <3>1 DEF Row
  <2> QED  BY <1>2, <2>1, <2>2 DEF PasswordOf
<1> QED  BY <1>1, <1>2

\* The initial state is well typed.
LEMMA InitType == Init => TypeOK
<1> SUFFICES ASSUME Init PROVE TypeOK
  OBVIOUS
<1>1. Fresh \in Thread /\ NoVerification \in Verification
      /\ NoNewPassword \in NewPassword
  BY DEF Fresh, Thread, Pc, Kind, Name, Pass, Addr, Num, Result,
         NoVerification, Verification, NoNewPassword, NewPassword
<1>2. chosen \in [User -> Pass]
  BY AccountAssumption, PasswordOfType DEF Init
<1>3. /\ resetCodes \in [Addr -> Num] /\ answers \in [Program -> Seq(Result)]
      /\ page \in [Program -> Page]
      /\ clientMap \in [Name -> Program \cup {NoProgram}]
  BY DEF Init, Num, Page
<1>4. /\ thread \in [Program -> Thread]
      /\ verification \in [Program -> Verification]
      /\ newPassword \in [Program -> NewPassword]
      /\ mailbox \in [Addr -> SUBSET Code]
  <2>1. mailbox \in [Addr -> SUBSET Code]
    BY DEF Init
  <2> QED  BY <1>1, <2>1 DEF Init
<1>5. requests \in 0 .. MaxRequests /\ users \in Seq(Row)
  BY AccountAssumption DEF Init
<1> QED  BY <1>2, <1>3, <1>4, <1>5 DEF Init, TypeOK

\* A changed password leaves a table.
LEMMA ChangedType ==
    ASSUME NEW T \in Seq(Row), NEW n, NEW p \in Pass
    PROVE  [i \in DOMAIN T |-> IF T[i].name = n
                               THEN [T[i] EXCEPT !.password = p] ELSE T[i]]
               \in Seq(Row)
<1>1. ASSUME NEW i \in DOMAIN T
      PROVE  [T[i] EXCEPT !.password = p] \in Row /\ T[i] \in Row
  <2>1. T[i] \in Row
    BY <1>1
  <2> QED  BY <2>1 DEF Row
<1>2. DOMAIN T = 1 .. Len(T) /\ Len(T) \in Nat
  OBVIOUS
<1> QED  BY <1>1, <1>2

\* The request threads keep the types.
LEMMA HandleType ==
    ASSUME TypeOK, NEW c \in Program, Handle(c)
    PROVE  TypeOK'
<1> USE DEF serverVars, clientVars, pageVars, ghostVars
<1>t. /\ thread \in Threads /\ thread[c] \in Thread
  BY DEF TypeOK, Threads
<1>f. /\ thread[c].kind \in Kind /\ thread[c].name \in Name
      /\ thread[c].password \in Pass /\ thread[c].mail \in Addr
      /\ thread[c].code \in Num /\ thread[c].result \in Result
  BY <1>t DEF Thread
<1>g. ASSUME NEW ok, Noted(c, ok) PROVE missed' \subseteq Name
  BY <1>f, <1>g DEF TypeOK, Noted
<1>1. CASE OpenBegins(c)
  <2>1. thread' \in Threads
    BY <1>t, <1>1, GotoType DEF OpenBegins, Pc
  <2> QED  BY <1>1, <2>1 DEF OpenBegins, TypeOK, Threads
<1>2. CASE OpenEnds(c)
  <2>1. thread' \in Threads
    BY <1>t, <1>f, <1>2, GotoType, FirstPcType DEF OpenEnds, Pc
  <2> QED  BY <1>2, <2>1 DEF OpenEnds, TypeOK, Threads
<1>3. CASE DoesUserExist(c)
  <2>1. thread' \in Threads
    BY <1>t, <1>3, GotoType, AnswerType DEF DoesUserExist, Pc, Result
  <2> QED  BY <1>3, <1>g, <2>1 DEF DoesUserExist, TypeOK, Threads
<1>4. CASE DoesPasswordMatch(c)
  <2>1. thread' \in Threads
    BY <1>t, <1>4, GotoType, AnswerType DEF DoesPasswordMatch, Pc, Result
  <2> QED  BY <1>4, <1>g, <2>1 DEF DoesPasswordMatch, TypeOK, Threads
<1>5. CASE DoesEmailExist(c)
  <2>1. thread' \in Threads
    BY <1>t, <1>5, GotoType, AnswerType DEF DoesEmailExist, Pc, Result
  <2> QED  BY <1>5, <1>g, <2>1 DEF DoesEmailExist, TypeOK, Threads
<1>6. CASE DoesEmailMatch(c)
  <2>1. thread' \in Threads
    BY <1>t, <1>6, GotoType, AnswerType DEF DoesEmailMatch, Pc, Result
  <2>2. matched' \subseteq Name \X Addr
    BY <1>f, <1>6 DEF DoesEmailMatch, TypeOK
  <2> QED  BY <1>6, <1>g, <2>1, <2>2 DEF DoesEmailMatch, TypeOK, Threads
<1>7. CASE PrintsNull(c)
  BY <1>7 DEF PrintsNull, TypeOK
<1>8. CASE RunScript(c)
  <2>1. thread' \in Threads
    <3>1. CASE \E k \in Code :
              thread' = [thread EXCEPT ![c].pc = "store", ![c].code = k]
      <4>1. PICK k \in Code :
                thread' = [thread EXCEPT ![c].pc = "store", ![c].code = k]
        BY <3>1
      <4> DEFINE t == [thread[c] EXCEPT !.pc = "store", !.code = k]
      <4>2. t \in Thread
        BY <1>t DEF Thread, Pc, Num
      <4>3. thread' = [thread EXCEPT ![c] = t]
        BY <1>t, <4>1 DEF Threads
      <4> HIDE DEF t
      <4> QED  BY <1>t, <4>2, <4>3 DEF Threads
    <3>2. CASE Answer(c, "correct")
      BY <1>t, <3>2, AnswerType DEF Result
    <3> QED  BY <1>8, <3>1, <3>2 DEF RunScript
  <2>2. mailbox' \in [Addr -> SUBSET Code]
    <3>1. CASE UNCHANGED mailbox
      BY <3>1 DEF TypeOK
    <3>2. CASE \E k \in Code : mailbox' = [mailbox EXCEPT
                  ![thread[c].mail] = @ \cup {k}]
      <4>1. PICK k \in Code : mailbox' = [mailbox EXCEPT
                ![thread[c].mail] = mailbox[thread[c].mail] \cup {k}]
        BY <3>2
      <4>2. mailbox[thread[c].mail] \cup {k} \in SUBSET Code
        BY <1>f DEF TypeOK
      <4> QED  BY <4>1, <4>2 DEF TypeOK
    <3> QED  BY <1>8, <3>1, <3>2 DEF RunScript
  <2> QED  BY <1>8, <2>1, <2>2 DEF RunScript, TypeOK, Threads
<1>9. CASE StoreCode(c)
  <2>1. thread' \in Threads
    BY <1>t, <1>9, AnswerType DEF StoreCode, Result
  <2>2. resetCodes' \in [Addr -> Num]
    BY <1>f, <1>9 DEF StoreCode, TypeOK
  <2>3. mailed' \subseteq Addr \X Num
    BY <1>f, <1>9 DEF StoreCode, TypeOK
  <2> QED  BY <1>9, <2>1, <2>2, <2>3 DEF StoreCode, TypeOK, Threads
<1>10. CASE IsCodeCorrect(c)
  <2>1. thread' \in Threads
    BY <1>t, <1>10, GotoType, AnswerType DEF IsCodeCorrect, Pc, Result
  <2> QED  BY <1>10, <2>1 DEF IsCodeCorrect, TypeOK, Threads
<1>11. CASE AddNewUser(c)
  <2>1. thread' \in Threads
    BY <1>t, <1>11, AnswerType DEF AddNewUser, Result
  <2>2. users' \in Seq(Row)
    <3>1. [name |-> thread[c].name, password |-> thread[c].password,
           mail |-> thread[c].mail] \in Row
      BY <1>f DEF Row
    <3> QED  BY <1>11, <3>1 DEF AddNewUser, TypeOK
  <2> QED  BY <1>11, <1>g, <2>1, <2>2 DEF AddNewUser, TypeOK, Threads
<1>12. CASE ChangePassword(c)
  <2>1. thread' \in Threads
    BY <1>t, <1>12, AnswerType DEF ChangePassword, Result
  <2>2. users' \in Seq(Row)
    <3>1. users \in Seq(Row)
      BY DEF TypeOK
    <3>2. CASE users' = users
      BY <3>1, <3>2
    <3>3. CASE users' = [i \in DOMAIN users |->
                            IF users[i].name = thread[c].name
                            THEN [users[i] EXCEPT
                                      !.password = thread[c].password]
                            ELSE users[i]]
      BY <1>f, <3>1, <3>3, ChangedType
    <3> QED  BY <1>12, <3>2, <3>3 DEF ChangePassword
  <2>3. changed' \subseteq Name \X Addr
    BY <1>f, <1>12 DEF ChangePassword, TypeOK
  <2> QED  BY <1>12, <1>g, <2>1, <2>2, <2>3 DEF ChangePassword, TypeOK, Threads
<1>13. CASE AddClientAddress(c)
  <2>1. thread' \in Threads
    BY <1>t, <1>13, AnswerType DEF AddClientAddress, Result
  <2>2. clientMap' \in [Name -> Program \cup {NoProgram}]
    BY <1>13 DEF AddClientAddress, TypeOK
  <2> QED  BY <1>13, <2>1, <2>2 DEF AddClientAddress, TypeOK, Threads
<1>14. CASE SendResponse(c)
  <2>1. thread' \in Threads
    BY <1>t, <1>14, GotoType DEF SendResponse, Pc
  <2>2. answers' \in [Program -> Seq(Result)]
    <3>1. PICK to : answers' = IF to \in Program
              THEN [answers EXCEPT ![to] = Append(@, thread[c].result)]
              ELSE answers
      BY <1>14 DEF SendResponse
    <3>2. CASE to \in Program
      <4>1. Append(answers[to], thread[c].result) \in Seq(Result)
        BY <1>f, <3>2 DEF TypeOK
      <4> QED  BY <3>1, <3>2, <4>1 DEF TypeOK
    <3> QED  BY <3>1, <3>2 DEF TypeOK
  <2> QED  BY <1>14, <2>1, <2>2 DEF SendResponse, TypeOK, Threads
<1> QED  BY <1>1, <1>2, <1>3, <1>4, <1>5, <1>6, <1>7, <1>8, <1>9, <1>10,
            <1>11, <1>12, <1>13, <1>14 DEF Handle

\* So do the pages that get an answer.
LEMMA AnsweredType ==
    ASSUME TypeOK, NEW c \in Program, Answered(c)
    PROVE  TypeOK'
<1> USE DEF serverVars
<1>0. ASSUME NEW kind, Read(c, kind)
      PROVE  /\ Reply(c) \in Result
             /\ answers' \in [Program -> Seq(Result)]
             /\ waiting' \in [Program -> BOOLEAN]
             /\ thread' \in [Program -> Thread]
  <2>1. answers[c] \in Seq(Result) /\ answers[c] # <<>>
    BY <1>0 DEF Read, TypeOK
  <2>2. Reply(c) \in Result /\ Tail(answers[c]) \in Seq(Result)
    BY <2>1 DEF Reply
  <2>3. Fresh \in Thread
    BY DEF Fresh, Thread, Pc, Kind, Name, Pass, Addr, Num, Result
  <2> QED  BY <1>0, <2>2, <2>3 DEF Read, TypeOK
<1>1. CASE LoginAnswered(c)
  <2>1. page' \in [Program -> Page]
    BY <1>1 DEF LoginAnswered, Show, Page, TypeOK
  <2> QED  BY <1>0, <1>1, <2>1 DEF LoginAnswered, Read, TypeOK
<1>f. /\ thread[c].kind \in Kind /\ thread[c].name \in Name
      /\ thread[c].password \in Pass /\ thread[c].mail \in Addr
      /\ thread[c].code \in Num
  BY DEF TypeOK, Thread
<1>2. CASE SignupAnswered(c)
  <2>1. page' \in [Program -> Page]
    BY <1>2 DEF SignupAnswered, Show, Page, TypeOK
  <2>2. verification' \in [Program -> Verification]
    <3>1. [action |-> "signup", name |-> thread[c].name,
           password |-> thread[c].password, mail |-> thread[c].mail]
             \in Verification
      BY <1>f DEF Verification
    <3> QED  BY <1>2, <3>1 DEF SignupAnswered, TypeOK
  <2> QED  BY <1>0, <1>2, <2>1, <2>2 DEF SignupAnswered, Read, TypeOK
<1>3. CASE RecoveryAnswered(c)
  <2>1. page' \in [Program -> Page]
    BY <1>3 DEF RecoveryAnswered, Show, Page, TypeOK
  <2>2. verification' \in [Program -> Verification]
    <3>1. CASE UNCHANGED verification
      BY <3>1 DEF TypeOK
    <3>2. CASE verification' = [verification EXCEPT
                   ![c].action = "recovery", ![c].mail = thread[c].mail]
      <4> DEFINE v == [verification[c] EXCEPT !.action = "recovery",
                                              !.mail = thread[c].mail]
      <4>1. v \in Verification
        BY <1>f, ZenonT(60) DEF TypeOK, Verification
      <4>2. verification' = [verification EXCEPT ![c] = v]
        BY <3>2 DEF TypeOK
      <4> HIDE DEF v
      <4> QED  BY <4>1, <4>2 DEF TypeOK
    <3> QED  BY <1>3, <3>1, <3>2 DEF RecoveryAnswered
  <2>3. newPassword' \in [Program -> NewPassword]
    <3>1. CASE UNCHANGED newPassword
      BY <3>1 DEF TypeOK
    <3>2. CASE newPassword' = [newPassword EXCEPT
                   ![c].name = thread[c].name, ![c].mail = thread[c].mail]
      <4> DEFINE f == [newPassword[c] EXCEPT !.name = thread[c].name,
                                             !.mail = thread[c].mail]
      <4>1. f \in NewPassword
        BY <1>f DEF TypeOK, NewPassword
      <4>2. newPassword' = [newPassword EXCEPT ![c] = f]
        BY <3>2 DEF TypeOK
      <4> HIDE DEF f
      <4> QED  BY <4>1, <4>2 DEF TypeOK
    <3> QED  BY <1>3, <3>1, <3>2 DEF RecoveryAnswered
  <2> QED  BY <1>0, <1>3, <2>1, <2>2, <2>3 DEF RecoveryAnswered, Read, TypeOK
<1>4. CASE VerificationAnswered(c)
  <2>1. page' \in [Program -> Page]
    BY <1>4 DEF VerificationAnswered, Show, Page, TypeOK
  <2>2. newPassword' \in [Program -> NewPassword]
    <3>1. CASE UNCHANGED newPassword
      BY <3>1 DEF TypeOK
    <3>2. CASE newPassword' = [newPassword EXCEPT ![c].code = thread[c].code]
      BY <1>f, <3>2 DEF TypeOK, NewPassword
    <3> QED  BY <1>4, <3>1, <3>2 DEF VerificationAnswered
  <2>3. chosen' \in [User -> Pass]
    <3>1. verification[c].password \in Pass
      BY DEF TypeOK, Verification
    <3> QED  BY <1>4, <3>1 DEF VerificationAnswered, TypeOK
  <2> QED  BY <1>0, <1>4, <2>1, <2>2, <2>3 DEF VerificationAnswered, Read,
              TypeOK
<1>5. CASE NewPasswordAnswered(c)
  <2>1. page' \in [Program -> Page] /\ chosen' \in [User -> Pass]
    BY <1>f, <1>5 DEF NewPasswordAnswered, Show, Page, TypeOK
  <2> QED  BY <1>0, <1>5, <2>1 DEF NewPasswordAnswered, Read, TypeOK
<1> QED  BY <1>1, <1>2, <1>3, <1>4, <1>5 DEF Answered

\* And what users do.
LEMMA UseType ==
    ASSUME TypeOK, NEW c \in Program, Use(c)
    PROVE  TypeOK'
<1> USE DEF serverVars, pageVars, ghostVars
<1>0. Account[c] \in Name
  BY AccountAssumption DEF Name
<1>1. ASSUME NEW p \in Password, SendLogin(c, p) PROVE TypeOK'
  <2>1. /\ Empty \in Addr /\ Empty \in Num /\ p \in Pass
        /\ "login" \in Kind
    BY DEF Addr, Num, Pass, Kind
  <2> QED  BY <1>0, <1>1, <2>1, RequestType DEF SendLogin, TypeOK, Threads
<1>2. ASSUME NEW p \in Password, SendNewPassword(c, p) PROVE TypeOK'
  <2>1. /\ newPassword[c].name \in Name /\ newPassword[c].mail \in Addr
        /\ newPassword[c].code \in Num /\ p \in Pass /\ "newPass" \in Kind
    BY DEF TypeOK, NewPassword, Pass, Kind
  <2> QED  BY <1>2, <2>1, RequestType DEF SendNewPassword, TypeOK, Threads
<1>3. ASSUME NEW n \in User, NEW p \in Password, NEW m \in Mail,
             SendSignup(c, n, p, m)
      PROVE  TypeOK'
  <2>1. /\ n \in Name /\ p \in Pass /\ m \in Addr /\ Empty \in Num
        /\ "signup" \in Kind
    BY DEF Name, Pass, Addr, Num, Kind
  <2> QED  BY <1>3, <2>1, RequestType DEF SendSignup, TypeOK, Threads
<1>4. ASSUME NEW n \in User, NEW m \in Mail, CheckEmail(c, n, m)
      PROVE  TypeOK'
  <2>1. /\ n \in Name /\ Empty \in Pass /\ m \in Addr /\ Empty \in Num
        /\ "mailCode" \in Kind
    BY DEF Name, Pass, Addr, Num, Kind
  <2> QED  BY <1>4, <2>1, RequestType DEF CheckEmail, TypeOK, Threads
<1>5. ASSUME NEW k \in Num, CheckCode(c, k) PROVE TypeOK'
  <2>1. /\ verification[c].name \in Name /\ verification[c].mail \in Addr
        /\ verification[c].password \in Pass /\ "check" \in Kind
    BY DEF TypeOK, Verification, Kind
  <2>2. typed' \subseteq Addr \X Num
    BY <1>5, <2>1 DEF CheckCode, TypeOK
  <2> QED  BY <1>5, <2>1, <2>2, RequestType DEF CheckCode, TypeOK, Threads
<1>6. ASSUME NEW p \in Page, Click(c, p) PROVE TypeOK'
  BY <1>6 DEF Click, Show, TypeOK
<1>7. CASE Restart(c)
  <2>1. NoVerification \in Verification /\ NoNewPassword \in NewPassword
    BY DEF NoVerification, Verification, NoNewPassword, NewPassword, Name,
           Pass, Addr, Num
  <2> QED  BY <1>7, <2>1 DEF Restart, Show, Page, TypeOK
<1> QED  BY <1>1, <1>2, <1>3, <1>4, <1>5, <1>6, <1>7 DEF Use

\* No step breaks the types.
LEMMA StepType == TypeOK /\ [Next]_vars => TypeOK'
<1> SUFFICES ASSUME TypeOK, [Next]_vars PROVE TypeOK'
  OBVIOUS
<1>1. CASE UNCHANGED vars
  BY <1>1 DEF vars, serverVars, clientVars, pageVars, ghostVars, TypeOK
<1> QED  BY <1>1, HandleType, AnsweredType, UseType DEF Next

\* Requests, threads, answers, pages and the table keep their types, whatever
\* statements fail and in whatever order the threads run.
THEOREM AccountTypeCorrect == Spec => []TypeOK
BY InitType, StepType, PTL DEF Spec

-----------------------------------------------------------------------------
(* What threads and pages rely on.                                         *)

Local(c) == Session(c) /\ Established(c) /\ Pages(c)

\* What others have established is never taken back.
Grows == /\ mailed \subseteq mailed' /\ typed \subseteq typed'
         /\ matched \subseteq matched'
         /\ \A m \in Addr : resetCodes[m] # Empty => resetCodes'[m] # Empty

\* A step of another program or its thread leaves d's reasons alone.
LEMMA OthersStay ==
    ASSUME TypeOK, NEW d \in Program, Local(d), Grows,
           thread'[d] = thread[d], waiting'[d] = waiting[d],
           answers'[d] = answers[d], page'[d] = page[d],
           verification'[d] = verification[d],
           newPassword'[d] = newPassword[d],
           \A n \in Name : clientMap'[n] = d => clientMap[n] = d
    PROVE  Local(d)'
<1>1. thread[d].mail \in Addr /\ verification[d].mail \in Addr
  BY DEF TypeOK, Thread, Verification
<1>2. Session(d)'
  BY DEF Local, Session, KindOK, In
<1>3. Established(d)'
  BY <1>1 DEF Local, Established, Grows, Stored, Holds, Replying
<1>4. Pages(d)'
  BY <1>1 DEF Local, Pages, Grows, Stored, Holds
<1> QED  BY <1>2, <1>3, <1>4 DEF Local

\* AccountInv step: the program that moves, the others, the rest.
LEMMA Assemble ==
    ASSUME TypeOK, TypeOK', AccountInv, NEW c \in Program, Grows,
           \A d \in Program \ {c} :
               /\ thread'[d] = thread[d] /\ waiting'[d] = waiting[d]
               /\ answers'[d] = answers[d] /\ page'[d] = page[d]
               /\ verification'[d] = verification[d]
               /\ newPassword'[d] = newPassword[d]
               /\ \A n \in Name : clientMap'[n] = d => clientMap[n] = d,
           Local(c)',
           CodesMailed',
           ScriptFails \/ VerifiedAccounts',
           ResetByHolder'
    PROVE  AccountInv'
<1>1. ASSUME NEW d \in Program PROVE Local(d)'
  <2>1. CASE d = c
    BY <2>1
  <2>2. CASE d # c
    <3>1. Local(d)
      BY DEF AccountInv, Local
    <3> QED  BY <2>2, <3>1, OthersStay
  <2> QED  BY <2>1, <2>2
<1> QED  BY <1>1 DEF AccountInv, Local

\* c's thread becomes t and is not done yet.
LEMMA MoveOn ==
    ASSUME TypeOK, TypeOK', AccountInv, NEW c \in Program, NEW t,
           thread[c].pc \notin {"answer", "done"},
           thread' = [thread EXCEPT ![c] = t],
           KindOK(t),
           \/ t.kind = "login" /\ t.pc = "answer" /\ t.result = "correct"
           \/ clientMap' = clientMap,
           UNCHANGED <<answers, waiting, pageVars>>,
           \A d \in Program \ {c}, n \in Name :
               clientMap'[n] = d => clientMap[n] = d,
           Grows, Established(c)', CodesMailed',
           ScriptFails \/ VerifiedAccounts', ResetByHolder'
    PROVE  AccountInv'
<1>1. thread'[c] = t /\ \A d \in Program \ {c} : thread'[d] = thread[d]
  BY DEF TypeOK
<1>2. Session(c) /\ Pages(c)
  BY DEF AccountInv
<1>3. Session(c)'
  <2>1. ~In(c) /\ waiting[c] /\ answers[c] = <<>>
    BY <1>2 DEF Session, In
  <2>2. waiting'[c] /\ answers'[c] = <<>>
    BY <2>1
  <2>3. KindOK(t)
    OBVIOUS
  <2>4. \A n \in Name : clientMap'[n] = c => In(c)'
    BY <1>1, <1>2, <2>1, <2>2 DEF Session, In
  <2> QED  BY <1>1, <2>2, <2>3, <2>4 DEF Session
<1>4. Pages(c)'
  <2>1. verification[c].mail \in Addr
    BY DEF TypeOK, Verification
  <2> QED  BY <1>2, <2>1 DEF pageVars, Pages, Grows, Stored, Holds
<1> QED  BY <1>1, <1>3, <1>4, Assemble DEF Local, pageVars

\* The same for a step that changes nothing the invariant says of the server.
LEMMA MoveOnQuietly ==
    ASSUME TypeOK, TypeOK', AccountInv, NEW c \in Program, NEW t,
           thread[c].pc \notin {"answer", "done"},
           thread' = [thread EXCEPT ![c] = t], KindOK(t),
           UNCHANGED <<answers, waiting, pageVars, clientMap, users,
                       resetCodes, mailed, typed, changed>>,
           matched \subseteq matched',
           Established(c)'
    PROVE  AccountInv'
<1>1. Grows
  BY DEF Grows
<1>2. CodesMailed'
  BY DEF AccountInv, CodesMailed
<1>3. ScriptFails \/ VerifiedAccounts'
  BY DEF AccountInv, VerifiedAccounts
<1>4. ResetByHolder'
  BY DEF AccountInv, ResetByHolder
<1> QED  BY <1>1, <1>2, <1>3, <1>4, MoveOn

\* The thread moves to another place without having established more.
LEMMA GotoInv ==
    ASSUME TypeOK, TypeOK', AccountInv, NEW c \in Program, NEW pc \in Pc,
           thread[c].pc \notin {"answer", "done"},
           Goto(c, pc), pc \notin {"answer", "done"},
           KindOK([thread[c] EXCEPT !.pc = pc]),
           UNCHANGED <<answers, waiting, pageVars, clientMap, users,
                       resetCodes, mailed, typed, changed>>,
           matched \subseteq matched',
           pc \in {"script", "store"} /\ thread[c].kind = "mailCode" =>
               <<thread[c].name, thread[c].mail>> \in matched',
           pc # "store",
           pc = "insert" => \/ ScriptFails
                            \/ /\ thread[c].code \in Code
                               /\ <<thread[c].mail, thread[c].code>> \in mailed
    PROVE  AccountInv'
<1> DEFINE t == [thread[c] EXCEPT !.pc = pc]
<1>1. /\ thread[c] \in Thread
      /\ t.pc = pc /\ t.kind = thread[c].kind /\ t.name = thread[c].name
      /\ t.mail = thread[c].mail /\ t.code = thread[c].code
      /\ t.result = thread[c].result
  BY DEF TypeOK, Thread
<1>2. thread' = [thread EXCEPT ![c] = t] /\ thread'[c] = t
  BY DEF TypeOK, Goto
<1>3. KindOK(t)
  OBVIOUS
<1> HIDE DEF t
<1>4. Established(c) /\ Session(c)
  BY DEF AccountInv
<1>5. Established(c)'
  BY <1>1, <1>2, <1>4 DEF Established, Session, In, Holds, Stored, Replying
<1> QED  BY <1>1, <1>2, <1>3, <1>5, MoveOnQuietly

\* The thread gets its answer, without having established more.
LEMMA AnswerInv ==
    ASSUME TypeOK, TypeOK', AccountInv, NEW c \in Program, NEW r \in Result,
           thread[c].pc \notin {"answer", "done"}, Answer(c, r),
           thread[c].kind = "signup" => r # "correct",
           thread[c].kind = "mailCode" => r \in {"noEmail", "invalidUser"},
           UNCHANGED <<answers, waiting, pageVars, clientMap, users,
                       resetCodes, mailed, typed, changed>>,
           matched \subseteq matched'
    PROVE  AccountInv'
<1> DEFINE t == [thread[c] EXCEPT !.pc = "answer", !.result = r]
<1>1. /\ thread[c] \in Thread
      /\ t.pc = "answer" /\ t.kind = thread[c].kind /\ t.name = thread[c].name
      /\ t.mail = thread[c].mail /\ t.code = thread[c].code /\ t.result = r
  BY DEF TypeOK, Thread
<1>2. thread' = [thread EXCEPT ![c] = t]
  BY DEF TypeOK, Answer
<1>3. KindOK(t)
  BY <1>1 DEF AccountInv, Session, KindOK
<1> HIDE DEF t
<1>5. thread'[c] = t
  BY <1>2 DEF TypeOK
<1>0. Established(c) /\ Session(c)
  BY DEF AccountInv
<1>4. Established(c)'
  BY <1>0, <1>1, <1>5 DEF Established, Session, In, Holds, Stored, Replying
<1> QED  BY <1>1, <1>2, <1>3, <1>4, MoveOnQuietly

\* What the mail script has sent counts from here on.
LEMMA StoreInv ==
    ASSUME TypeOK, TypeOK', AccountInv, NEW c \in Program, StoreCode(c)
    PROVE  AccountInv'
<1> DEFINE t == [thread[c] EXCEPT !.pc = "answer", !.result = "correct"]
<1>1. /\ thread[c] \in Thread /\ thread[c].pc = "store"
      /\ t.pc = "answer" /\ t.kind = thread[c].kind /\ t.name = thread[c].name
      /\ t.mail = thread[c].mail /\ t.code = thread[c].code
      /\ t.result = "correct"
  BY DEF TypeOK, Thread, StoreCode, At
<1>2. thread' = [thread EXCEPT ![c] = t] /\ thread'[c] = t
  BY DEF TypeOK, StoreCode, Answer
<1>3. KindOK(t)
  BY <1>1 DEF AccountInv, Session, KindOK
<1> HIDE DEF t
<1>4. Established(c) /\ Session(c) /\ waiting[c]
  BY <1>1 DEF AccountInv, Session, In
<1>5. /\ t.kind \in {"signup", "mailCode"} /\ t.code \in Code /\ t.code # Empty
      /\ t.mail \in Addr
  BY <1>1, <1>4, AccountAssumption DEF Established, Session, KindOK, Thread
<1>6. /\ resetCodes' = [resetCodes EXCEPT ![t.mail] = t.code]
      /\ mailed' = mailed \cup {<<t.mail, t.code>>}
      /\ UNCHANGED <<users, clientMap, answers, waiting, pageVars, typed,
                     matched, changed>>
  BY <1>1 DEF StoreCode, clientVars
<1>7. Grows
  BY <1>5, <1>6 DEF Grows, TypeOK
<1>8. CodesMailed'
  BY <1>5, <1>6 DEF CodesMailed, AccountInv, TypeOK
<1>9. ScriptFails \/ VerifiedAccounts'
  BY <1>6 DEF AccountInv, VerifiedAccounts
<1>10. ResetByHolder'
  BY <1>6 DEF AccountInv, ResetByHolder
<1>11. Established(c)'
  <2>1. resetCodes'[t.mail] # Empty
    BY <1>5, <1>6 DEF TypeOK
  <2> QED  BY <1>1, <1>2, <1>4, <1>5, <1>6, <2>1 DEF Established, Holds, Stored,
              Replying
<1> QED  BY <1>1, <1>2, <1>3, <1>5, <1>6, <1>7, <1>8, <1>9, <1>10, <1>11,
            MoveOn

\* addNewUser: the thread has found the stored code in its request.
LEMMA AddInv ==
    ASSUME TypeOK, TypeOK', AccountInv, NEW c \in Program, AddNewUser(c)
    PROVE  AccountInv'
<1> DEFINE t == [thread[c] EXCEPT !.pc = "answer", !.result = "correct"]
<1>1. /\ thread[c] \in Thread /\ thread[c].pc = "insert"
      /\ t.pc = "answer" /\ t.kind = thread[c].kind /\ t.name = thread[c].name
      /\ t.mail = thread[c].mail /\ t.code = thread[c].code
      /\ t.result = "correct"
  BY DEF TypeOK, Thread, AddNewUser, At
<1>2. thread' = [thread EXCEPT ![c] = t] /\ thread'[c] = t
  BY DEF TypeOK, AddNewUser, Answer
<1>3. KindOK(t)
  BY <1>1 DEF AccountInv, Session, KindOK
<1> HIDE DEF t
<1>4. Established(c) /\ Session(c) /\ waiting[c] /\ t.kind = "check"
  BY <1>1 DEF AccountInv, Session, In, KindOK
<1>5. UNCHANGED <<clientMap, answers, waiting, pageVars, resetCodes, mailed,
                  typed, matched, changed>>
  BY DEF AddNewUser, clientVars
<1>6. Grows /\ CodesMailed' /\ ResetByHolder'
  BY <1>5 DEF Grows, CodesMailed, ResetByHolder, AccountInv
<1>7. ScriptFails \/ VerifiedAccounts'
  <2> SUFFICES ASSUME ~ScriptFails PROVE VerifiedAccounts'
    OBVIOUS
  <2>1. VerifiedAccounts /\ users \in Seq(Row)
    BY DEF AccountInv, TypeOK
  <2>2. CASE users' = users
    BY <1>5, <2>1, <2>2 DEF VerifiedAccounts
  <2>3. CASE users' = Append(users, [name |-> thread[c].name,
                                     password |-> thread[c].password,
                                     mail |-> thread[c].mail])
    <3> SUFFICES ASSUME NEW i \in DOMAIN users', i > Len(Registered)
                 PROVE  \E k \in Code : /\ <<users'[i].mail, k>> \in mailed
                                        /\ <<users'[i].mail, k>> \in typed
      BY <1>5 DEF VerifiedAccounts
    <3>1. CASE i \in DOMAIN users
      <4>1. users'[i] = users[i]
        BY <2>1, <2>3, <3>1
      <4> QED  BY <2>1, <3>1, <4>1 DEF VerifiedAccounts
    <3>2. CASE i \notin DOMAIN users
      <4>1. users'[i].mail = thread[c].mail
        <5> DEFINE r == [name |-> thread[c].name,
                         password |-> thread[c].password,
                         mail |-> thread[c].mail]
        <5>1. r.mail = thread[c].mail
          OBVIOUS
        <5> HIDE DEF r
        <5>2. users'[i] = r
          BY <2>1, <2>3, <3>2 DEF r
        <5> QED  BY <5>1, <5>2
      <4>2. /\ thread[c].code \in Code
            /\ <<thread[c].mail, thread[c].code>> \in mailed
            /\ <<thread[c].mail, thread[c].code>> \in typed
        BY <1>1, <1>4 DEF Established
      <4> QED  BY <4>1, <4>2
    <3> QED  BY <3>1, <3>2
  <2> QED  BY <2>2, <2>3 DEF AddNewUser
<1>8. Established(c)'
  BY <1>1, <1>2, <1>4, <1>5 DEF Established, Holds, Stored, Replying
<1> QED  BY <1>1, <1>2, <1>3, <1>4, <1>5, <1>6, <1>7, <1>8, MoveOn

\* changePassword: the thread's name and mail have been matched.
LEMMA ChangeInv ==
    ASSUME TypeOK, TypeOK', AccountInv, NEW c \in Program, ChangePassword(c)
    PROVE  AccountInv'
<1> DEFINE t == [thread[c] EXCEPT !.pc = "answer", !.result = "correct"]
<1>1. /\ thread[c] \in Thread /\ thread[c].pc = "change"
      /\ t.pc = "answer" /\ t.kind = thread[c].kind /\ t.name = thread[c].name
      /\ t.mail = thread[c].mail /\ t.code = thread[c].code
      /\ t.result = "correct"
  BY DEF TypeOK, Thread, ChangePassword, At
<1>2. thread' = [thread EXCEPT ![c] = t] /\ thread'[c] = t
  BY DEF TypeOK, ChangePassword, Answer
<1>3. KindOK(t)
  BY <1>1 DEF AccountInv, Session, KindOK
<1> HIDE DEF t
<1>4. Established(c) /\ Session(c) /\ waiting[c] /\ t.kind = "newPass"
  BY <1>1 DEF AccountInv, Session, In, KindOK
<1>5. /\ UNCHANGED <<clientMap, answers, waiting, pageVars, resetCodes, mailed,
                     typed, matched>>
      /\ changed' = changed \cup {<<thread[c].name, thread[c].mail>>}
  BY DEF ChangePassword, clientVars
<1>6. Grows /\ CodesMailed'
  BY <1>5 DEF Grows, CodesMailed, AccountInv
<1>7. ScriptFails \/ VerifiedAccounts'
  <2> SUFFICES ASSUME ~ScriptFails PROVE VerifiedAccounts'
    OBVIOUS
  <2>1. VerifiedAccounts /\ users \in Seq(Row)
    BY DEF AccountInv, TypeOK
  <2>2. CASE users' = users
    BY <1>5, <2>1, <2>2 DEF VerifiedAccounts
  <2>3. CASE users' = [i \in DOMAIN users |->
                          IF users[i].name = thread[c].name
                          THEN [users[i] EXCEPT !.password = thread[c].password]
                          ELSE users[i]]
    <3>1. DOMAIN users' = DOMAIN users
      BY <2>3
    <3>2. ASSUME NEW i \in DOMAIN users
          PROVE  users'[i].mail = users[i].mail
      <4>1. users[i] \in Row
        BY <2>1, <3>2
      <4>2. [users[i] EXCEPT !.password = thread[c].password].mail
                = users[i].mail
        BY <4>1 DEF Row
      <4> QED  BY <2>3, <4>2
    <3> QED  BY <1>5, <2>1, <3>1, <3>2 DEF VerifiedAccounts
  <2> QED  BY <2>2, <2>3 DEF ChangePassword
<1>8. ResetByHolder'
  BY <1>1, <1>4, <1>5 DEF AccountInv, ResetByHolder, Established, Holds
<1>9. Established(c)'
  BY <1>1, <1>2, <1>4, <1>5 DEF Established, Holds, Stored, Replying
<1> QED  BY <1>1, <1>2, <1>3, <1>4, <1>5, <1>6, <1>7, <1>8, <1>9, MoveOn

\* The steps that ask the table or the codes, and open the database.
LEMMA AskInv ==
    ASSUME TypeOK, TypeOK', AccountInv, NEW c \in Program,
           \/ OpenBegins(c) \/ OpenEnds(c)
           \/ DoesUserExist(c) \/ DoesPasswordMatch(c)
           \/ DoesEmailExist(c) \/ DoesEmailMatch(c) \/ IsCodeCorrect(c)
    PROVE  AccountInv'
<1> USE DEF serverVars, clientVars, ghostVars
<1>t. /\ thread[c] \in Thread /\ thread[c].kind \in Kind
      /\ thread[c].mail \in Addr
  BY DEF TypeOK, Thread
<1>s. Session(c) /\ Established(c) /\ CodesMailed
  BY DEF AccountInv
<1>k. ASSUME NEW pc \in Pc
      PROVE  LET t == [thread[c] EXCEPT !.pc = pc]
             IN  t.pc = pc /\ t.kind = thread[c].kind /\ t.name = thread[c].name
  BY <1>t DEF Thread
<1>1. CASE OpenBegins(c)
  <2>1. KindOK([thread[c] EXCEPT !.pc = "opening"])
    BY <1>1, <1>s, <1>k DEF KindOK, Session, OpenBegins, At, Pc
  <2> QED  BY <1>1, <2>1, GotoInv DEF OpenBegins, At, Pc
<1>2. CASE OpenEnds(c)
  <2>1. FirstPc(thread[c].kind) \in {"user", "mail", "code"}
    BY <1>t, FirstPcType
  <2>2. /\ FirstPc(thread[c].kind) = "mail" => thread[c].kind = "mailCode"
        /\ FirstPc(thread[c].kind) = "code" =>
               thread[c].kind \in {"check", "newPass"}
    BY <1>t DEF FirstPc, Kind
  <2>3. KindOK([thread[c] EXCEPT !.pc = FirstPc(thread[c].kind)])
    BY <1>2, <1>s, <1>k, <2>1, <2>2 DEF KindOK, Session, OpenEnds, At, Pc
  <2> QED  BY <1>2, <2>1, <2>3, GotoInv DEF OpenEnds, At, Pc
<1>3. CASE DoesUserExist(c)
  <2>0. thread[c].pc = "user"
    BY <1>3 DEF DoesUserExist, At
  <2>1. CASE thread[c].kind = "login" /\ Goto(c, "password")
    <3>1. KindOK([thread[c] EXCEPT !.pc = "password"])
      BY <1>s, <1>k, <2>0, <2>1 DEF KindOK, Session, Pc
    <3> QED  BY <1>3, <2>0, <2>1, <3>1, GotoInv DEF DoesUserExist, Pc
  <2>2. CASE thread[c].kind = "login" /\ Answer(c, "invalidUser")
    BY <1>3, <2>0, <2>2, AnswerInv DEF DoesUserExist, Result
  <2>3. CASE thread[c].kind = "signup" /\ Answer(c, "userExists")
    BY <1>3, <2>0, <2>3, AnswerInv DEF DoesUserExist, Result
  <2>4. CASE thread[c].kind = "signup" /\ Goto(c, "mail")
    <3>1. KindOK([thread[c] EXCEPT !.pc = "mail"])
      BY <1>s, <1>k, <2>0, <2>4 DEF KindOK, Session, Pc
    <3> QED  BY <1>3, <2>0, <2>4, <3>1, GotoInv DEF DoesUserExist, Pc
  <2> QED  BY <1>3, <2>1, <2>2, <2>3, <2>4 DEF DoesUserExist
<1>4. CASE DoesPasswordMatch(c)
  <2>0. thread[c].pc = "password" /\ thread[c].kind = "login"
    BY <1>4, <1>s DEF DoesPasswordMatch, At, Session, KindOK
  <2>1. CASE Goto(c, "address")
    <3>1. KindOK([thread[c] EXCEPT !.pc = "address"])
      BY <1>s, <1>k, <2>0, <2>1 DEF KindOK, Session, Pc
    <3> QED  BY <1>4, <2>0, <2>1, <3>1, GotoInv DEF DoesPasswordMatch, Pc
  <2>2. CASE Answer(c, "incorrectPass")
    BY <1>4, <2>0, <2>2, AnswerInv DEF DoesPasswordMatch, Result
  <2> QED  BY <1>4, <2>1, <2>2 DEF DoesPasswordMatch
<1>5. CASE DoesEmailExist(c)
  <2>0. thread[c].pc = "mail"
    BY <1>5 DEF DoesEmailExist, At
  <2>1. CASE thread[c].kind = "signup" /\ Answer(c, "emailExists")
    BY <1>5, <2>0, <2>1, AnswerInv DEF DoesEmailExist, Result
  <2>2. CASE thread[c].kind = "signup" /\ Goto(c, "script")
    <3>1. KindOK([thread[c] EXCEPT !.pc = "script"])
      BY <1>s, <1>k, <2>0, <2>2 DEF KindOK, Session, Pc
    <3> QED  BY <1>5, <2>0, <2>2, <3>1, GotoInv DEF DoesEmailExist, Pc
  <2>3. CASE thread[c].kind = "mailCode" /\ Goto(c, "match")
    <3>1. KindOK([thread[c] EXCEPT !.pc = "match"])
      BY <1>s, <1>k, <2>0, <2>3 DEF KindOK, Session, Pc
    <3> QED  BY <1>5, <2>0, <2>3, <3>1, GotoInv DEF DoesEmailExist, Pc
  <2>4. CASE thread[c].kind = "mailCode" /\ Answer(c, "noEmail")
    BY <1>5, <2>0, <2>4, AnswerInv DEF DoesEmailExist, Result
  <2> QED  BY <1>5, <2>1, <2>2, <2>3, <2>4 DEF DoesEmailExist
<1>6. CASE DoesEmailMatch(c)
  <2>0. thread[c].pc = "match" /\ thread[c].kind = "mailCode"
    BY <1>6, <1>s DEF DoesEmailMatch, At, Session, KindOK
  <2>m. matched \subseteq matched'
    BY <1>6 DEF DoesEmailMatch
  <2>1. CASE Answer(c, "invalidUser")
    BY <1>6, <2>0, <2>1, <2>m, AnswerInv DEF DoesEmailMatch, Result
  <2>2. CASE Goto(c, "script") /\ MailOf(users, thread[c].name) = thread[c].mail
    <3>1. KindOK([thread[c] EXCEPT !.pc = "script"])
      BY <1>s, <1>k, <2>0, <2>2 DEF KindOK, Session, Pc
    <3>2. <<thread[c].name, thread[c].mail>> \in matched'
      BY <1>6, <2>2 DEF DoesEmailMatch
    <3> QED  BY <1>6, <2>0, <2>2, <2>m, <3>1, <3>2, GotoInv
             DEF DoesEmailMatch, Pc
  <2> QED  BY <1>6, <2>1, <2>2 DEF DoesEmailMatch
<1>7. CASE IsCodeCorrect(c)
  <2>0. thread[c].pc = "code" /\ thread[c].kind \in {"check", "newPass"}
        /\ waiting[c]
    BY <1>7, <1>s DEF IsCodeCorrect, At, Session, In, KindOK
  <2>1. CASE Answer(c, "incorrectPass")
    BY <1>7, <2>0, <2>1, AnswerInv DEF IsCodeCorrect, Result
  <2>2. CASE thread[c].kind = "newPass" /\ Goto(c, "change")
    <3>1. KindOK([thread[c] EXCEPT !.pc = "change"])
      BY <1>s, <1>k, <2>0, <2>2 DEF KindOK, Session, Pc
    <3> QED  BY <1>7, <2>0, <2>2, <3>1, GotoInv DEF IsCodeCorrect, Pc
  <2>3. CASE /\ thread[c].kind = "check" /\ Goto(c, "insert")
             /\ resetCodes[thread[c].mail] = thread[c].code
    <3>1. KindOK([thread[c] EXCEPT !.pc = "insert"])
      BY <1>s, <1>k, <2>0, <2>3 DEF KindOK, Session, Pc
    <3>2. \/ ScriptFails
          \/ /\ thread[c].code \in Code
             /\ <<thread[c].mail, thread[c].code>> \in mailed
      BY <1>t, <1>s, <2>0, <2>3 DEF Established, Stored, CodesMailed
    <3> QED  BY <1>7, <2>0, <2>3, <3>1, <3>2, GotoInv DEF IsCodeCorrect, Pc
  <2> QED  BY <1>7, <2>0, <2>1, <2>2, <2>3 DEF IsCodeCorrect
<1> QED  BY <1>1, <1>2, <1>3, <1>4, <1>5, <1>6, <1>7

\* What a null error message does to the server, no account notices.
LEMMA PrintsNullInv ==
    ASSUME TypeOK, AccountInv, NEW c \in Program, PrintsNull(c)
    PROVE  AccountInv'
<1>1. UNCHANGED <<users, resetCodes, clientMap, thread, answers, waiting,
                  pageVars, mailed, typed, matched, changed>>
  BY DEF PrintsNull, clientVars, ghostVars
<1>2. ASSUME NEW d \in Program PROVE Local(d)'
  BY <1>1 DEF AccountInv, Local, Session, In, KindOK, Established, Pages,
              Stored, Holds, Replying, pageVars
<1> QED  BY <1>1, <1>2 DEF AccountInv, Local, CodesMailed, VerifiedAccounts,
            ResetByHolder

\* sendMail: there is a code, or the script has failed.
LEMMA ScriptInv ==
    ASSUME TypeOK, TypeOK', AccountInv, NEW c \in Program, RunScript(c)
    PROVE  AccountInv'
<1>1. /\ thread[c] \in Thread /\ thread[c].pc = "script"
      /\ Established(c) /\ Session(c) /\ waiting[c]
      /\ thread[c].kind \in {"signup", "mailCode"}
  BY DEF TypeOK, Thread, RunScript, At, AccountInv, Session, In, KindOK
<1>2. UNCHANGED <<users, resetCodes, clientMap, answers, waiting, pageVars,
                  mailed, typed, matched, changed>>
  BY DEF RunScript, serverVars, ghostVars
<1>3. CASE \E k \in Code :
          thread' = [thread EXCEPT ![c].pc = "store", ![c].code = k]
  <2>1. PICK k \in Code :
            thread' = [thread EXCEPT ![c].pc = "store", ![c].code = k]
    BY <1>3
  <2> DEFINE t == [thread[c] EXCEPT !.pc = "store", !.code = k]
  <2>2. /\ t.pc = "store" /\ t.code = k /\ t.kind = thread[c].kind
        /\ t.name = thread[c].name /\ t.mail = thread[c].mail
        /\ thread' = [thread EXCEPT ![c] = t]
    BY <1>1, <2>1 DEF Thread, TypeOK
  <2> HIDE DEF t
  <2>3. thread'[c] = t
    BY <2>2 DEF TypeOK
  <2>4. KindOK(t)
    BY <1>1, <2>2 DEF KindOK
  <2>5. Established(c)'
    BY <1>1, <1>2, <2>2, <2>3 DEF Established, Holds, Stored, Replying
  <2> QED  BY <1>1, <1>2, <2>2, <2>4, <2>5, MoveOnQuietly
<1>4. CASE ScriptFails /\ Answer(c, "correct")
  <2> DEFINE t == [thread[c] EXCEPT !.pc = "answer", !.result = "correct"]
  <2>2. /\ t.pc = "answer" /\ t.kind = thread[c].kind
        /\ t.name = thread[c].name /\ t.mail = thread[c].mail
        /\ thread' = [thread EXCEPT ![c] = t]
    BY <1>1, <1>4 DEF Thread, TypeOK, Answer
  <2> HIDE DEF t
  <2>3. thread'[c] = t
    BY <2>2 DEF TypeOK
  <2>4. KindOK(t)
    BY <1>1, <2>2 DEF KindOK
  <2>5. Established(c)'
    BY <1>1, <1>2, <1>4, <2>2, <2>3 DEF Established, Holds, Stored, Replying
  <2> QED  BY <1>1, <1>2, <2>2, <2>4, <2>5, MoveOnQuietly
<1> QED  BY <1>3, <1>4 DEF RunScript

\* addClientAddress: the program is logged in from here on.
LEMMA AddressInv ==
    ASSUME TypeOK, TypeOK', AccountInv, NEW c \in Program, AddClientAddress(c)
    PROVE  AccountInv'
<1> DEFINE t == [thread[c] EXCEPT !.pc = "answer", !.result = "correct"]
<1>1. /\ thread[c] \in Thread /\ thread[c].pc = "address"
      /\ t.pc = "answer" /\ t.kind = thread[c].kind /\ t.name = thread[c].name
      /\ t.mail = thread[c].mail /\ t.code = thread[c].code
      /\ t.result = "correct"
  BY DEF TypeOK, Thread, AddClientAddress, At
<1>2. thread' = [thread EXCEPT ![c] = t] /\ thread'[c] = t
  BY DEF TypeOK, AddClientAddress, Answer
<1>3. KindOK(t)
  BY <1>1 DEF AccountInv, Session, KindOK
<1> HIDE DEF t
<1>4. Established(c) /\ Session(c) /\ waiting[c] /\ t.kind = "login"
  BY <1>1 DEF AccountInv, Session, In, KindOK
<1>5. UNCHANGED <<users, answers, waiting, pageVars, resetCodes, mailed,
                  typed, matched, changed>>
  BY DEF AddClientAddress, clientVars, ghostVars
<1>6. Grows /\ CodesMailed' /\ ResetByHolder'
      /\ (ScriptFails \/ VerifiedAccounts')
  BY <1>5 DEF Grows, CodesMailed, ResetByHolder, VerifiedAccounts, AccountInv
<1>8. \A d \in Program \ {c}, n \in Name :
          clientMap'[n] = d => clientMap[n] = d
  BY DEF AddClientAddress, TypeOK
<1>9. Established(c)'
  BY <1>1, <1>2, <1>4, <1>5 DEF Established, Holds, Stored, Replying
<1> QED  BY <1>1, <1>2, <1>3, <1>4, <1>5, <1>6, <1>8, <1>9, MoveOn

\* sendResponse: a good login is answered to a program that is logged in.
LEMMA ResponseInv ==
    ASSUME TypeOK, TypeOK', AccountInv, NEW c \in Program, SendResponse(c)
    PROVE  AccountInv'
<1> DEFINE t == [thread[c] EXCEPT !.pc = "done"]
<1>1. /\ thread[c] \in Thread /\ thread[c].pc = "answer"
      /\ t.pc = "done" /\ t.kind = thread[c].kind /\ t.name = thread[c].name
      /\ t.mail = thread[c].mail /\ t.code = thread[c].code
      /\ t.result = thread[c].result
  BY DEF TypeOK, Thread, SendResponse, At
<1>2. /\ thread' = [thread EXCEPT ![c] = t] /\ thread'[c] = t
      /\ \A d \in Program \ {c} : thread'[d] = thread[d]
  BY DEF TypeOK, SendResponse, Goto
<1> HIDE DEF t
<1>3. UNCHANGED <<users, waiting, pageVars, resetCodes, mailed, typed,
                  matched, changed, clientMap>>
  BY DEF SendResponse, ghostVars, serverVars
<1>4. CodesMailed' /\ ResetByHolder' /\ (ScriptFails \/ VerifiedAccounts')
  BY <1>3 DEF CodesMailed, ResetByHolder, VerifiedAccounts, AccountInv
<1> DEFINE login == thread[c].kind = "login" /\ thread[c].result = "correct"
           to    == IF login THEN clientMap[thread[c].name] ELSE c
<1>5. answers' = IF to \in Program
                 THEN [answers EXCEPT ![to] = Append(@, thread[c].result)]
                 ELSE answers
  BY DEF SendResponse
<1>6. ASSUME NEW d \in Program PROVE Session(d)'
  <2>0. Session(d) /\ Session(c) /\ thread[c].name \in Name
    BY <1>1 DEF AccountInv, Thread
  <2>1. /\ d = c => thread'[d].pc = "done"
        /\ d # c => thread'[d].pc = thread[d].pc
        /\ thread'[d].kind = thread[d].kind /\ thread'[d].name = thread[d].name
        /\ thread'[d].result = thread[d].result
    BY <1>1, <1>2
  <2>2. KindOK(thread'[d])
    BY <2>0, <2>1 DEF KindOK, Session
  <2>3. In(d) => In(d)'
    BY <1>3, <2>1 DEF In, pageVars
  <2>4. answers[d] \in Seq(Result)
    BY DEF TypeOK
  <2>5. CASE answers'[d] = answers[d] /\ (d = to => FALSE)
    <3>1. d = c => In(d)
      <4>1. d = c => login
        BY <2>5
      <4>2. login => In(c)
        BY <1>1, <2>0 DEF Session, In
      <4> QED  BY <4>1, <4>2
    <3>2. \A n \in Name : clientMap'[n] = d => In(d)'
      BY <1>3, <2>0, <2>3 DEF Session
    <3>3. CASE In(d)
      BY <2>0, <2>2, <2>3, <2>5, <3>2, <3>3 DEF Session
    <3>4. CASE ~In(d)
      <4>1. d # c
        BY <3>1, <3>4
      <4>2. ~In(d)'
        BY <1>2, <1>3, <3>4, <4>1 DEF In, pageVars
      <4> QED  BY <1>2, <1>3, <2>0, <2>2, <2>5, <3>2, <3>4, <4>1, <4>2
               DEF Session
    <3> QED  BY <3>3, <3>4
  <2>6. CASE d = to
    <3>1. answers'[d] = Append(answers[d], thread[c].result)
      BY <1>5, <2>6 DEF TypeOK
    <3>2. CASE login
      <4>1. In(d)
        BY <2>0, <2>6, <3>2 DEF Session
      <4>2. \A i \in DOMAIN answers'[d] : answers'[d][i] = "correct"
        <5>1. \A i \in DOMAIN answers[d] : answers[d][i] = "correct"
          BY <2>0, <4>1 DEF Session
        <5>2. thread[c].result = "correct"
          BY <3>2
        <5> QED  BY <2>4, <3>1, <5>1, <5>2
      <4> QED  BY <2>2, <2>3, <4>1, <4>2 DEF Session
    <3>3. CASE ~login
      <4>1. d = c /\ ~In(c)
        BY <2>6, <3>3 DEF In
      <4>2. waiting[c] /\ answers[c] = <<>>
        BY <1>1, <2>0, <4>1 DEF Session
      <4>3. answers'[c] = <<thread'[c].result>>
        BY <2>1, <3>1, <4>1, <4>2
      <4>4. ~In(c)'
        BY <2>1, <3>3, <4>1 DEF In
      <4>5. \A n \in Name : clientMap'[n] # c
        BY <1>3, <2>0, <4>1 DEF Session
      <4> QED  BY <1>3, <2>1, <2>2, <4>1, <4>2, <4>3, <4>4, <4>5 DEF Session
    <3> QED  BY <3>2, <3>3
  <2>7. CASE d # to
    BY <1>5, <2>5, <2>7 DEF TypeOK
  <2> QED  BY <2>6, <2>7
<1>7. ASSUME NEW d \in Program PROVE Established(d)' /\ Pages(d)'
  <2>1. /\ d # c => thread'[d].pc = thread[d].pc
        /\ d = c => thread[d].pc = "answer" /\ thread'[d].pc = "done"
        /\ thread'[d].kind = thread[d].kind /\ thread'[d].name = thread[d].name
        /\ thread'[d].result = thread[d].result
        /\ thread'[d].mail = thread[d].mail /\ thread'[d].code = thread[d].code
    BY <1>1, <1>2
  <2>2. Established(d)'
    <3>1. Established(d)
      BY DEF AccountInv
    <3> QED  BY <1>3, <2>1, <3>1 DEF Established, Holds, Stored, Replying
  <2>3. Pages(d)'
    BY <1>3 DEF AccountInv, Pages, Holds, Stored, pageVars
  <2> QED  BY <2>2, <2>3
<1> QED  BY <1>4, <1>6, <1>7 DEF AccountInv

\* The request threads keep what pages and threads rely on.
LEMMA HandleInv ==
    ASSUME TypeOK, TypeOK', AccountInv, NEW c \in Program, Handle(c)
    PROVE  AccountInv'
BY AskInv, PrintsNullInv, ScriptInv, StoreInv, AddInv, ChangeInv, AddressInv,
   ResponseInv DEF Handle

\* A new request, t, relies on what the page has established.
LEMMA RequestInv ==
    ASSUME TypeOK, TypeOK', AccountInv, NEW c \in Program, NEW t,
           ~waiting[c], page[c] # "menu", t.pc = "open",
           thread' = [thread EXCEPT ![c] = t],
           waiting' = [waiting EXCEPT ![c] = TRUE],
           UNCHANGED <<serverVars, answers, pageVars, mailed, matched,
                       changed>>,
           typed \subseteq typed',
           t.kind = "check" =>
               /\ t.code \in Code => <<t.mail, t.code>> \in typed'
               /\ Stored(t.mail),
           t.kind = "newPass" => Holds(t)
    PROVE  AccountInv'
<1> USE DEF serverVars
<1>1. /\ thread'[c] = t /\ waiting'[c]
      /\ \A d \in Program \ {c} :
             thread'[d] = thread[d] /\ waiting'[d] = waiting[d]
  BY DEF TypeOK
<1>2. /\ Session(c) /\ Pages(c) /\ answers[c] = <<>>
      /\ \A n \in Name : clientMap[n] # c
  BY DEF AccountInv, Session, In
<1>3. Grows /\ CodesMailed' /\ ResetByHolder'
      /\ (ScriptFails \/ VerifiedAccounts')
  BY DEF Grows, CodesMailed, ResetByHolder, VerifiedAccounts, AccountInv
<1>4. Session(c)'
  BY <1>1, <1>2 DEF Session, KindOK, In
<1>5. Established(c)'
  BY <1>1 DEF Established, Holds, Stored, Replying
<1>6. Pages(c)'
  BY <1>2 DEF Pages, Holds, Stored, pageVars
<1> QED  BY <1>1, <1>3, <1>4, <1>5, <1>6, Assemble DEF Local, pageVars

\* What a user does keeps what pages and threads rely on.
LEMMA UseInv ==
    ASSUME TypeOK, TypeOK', AccountInv, NEW c \in Program, Use(c)
    PROVE  AccountInv'
<1>0. Session(c) /\ Pages(c)
  BY DEF AccountInv
<1>1. ASSUME NEW p \in Password, SendLogin(c, p) PROVE AccountInv'
  <2> DEFINE t == [pc |-> "open", kind |-> "login", name |-> Account[c],
                   password |-> p, mail |-> Empty, code |-> Empty,
                   result |-> "correct"]
  <2>1. /\ ~waiting[c] /\ page[c] # "menu"
        /\ thread' = [thread EXCEPT ![c] = t]
        /\ waiting' = [waiting EXCEPT ![c] = TRUE] /\ typed' = typed
        /\ UNCHANGED <<serverVars, answers, pageVars, mailed, matched, changed>>
    BY <1>1 DEF SendLogin, Request
  <2>2. t.pc = "open" /\ t.kind = "login"
    OBVIOUS
  <2> HIDE DEF t
  <2> QED  BY <2>1, <2>2, RequestInv
<1>2. ASSUME NEW p \in Password, SendNewPassword(c, p) PROVE AccountInv'
  <2> DEFINE f == newPassword[c]
             t == [pc |-> "open", kind |-> "newPass", name |-> f.name,
                   password |-> p, mail |-> f.mail, code |-> f.code,
                   result |-> "correct"]
  <2>1. /\ ~waiting[c] /\ thread' = [thread EXCEPT ![c] = t]
        /\ waiting' = [waiting EXCEPT ![c] = TRUE] /\ typed' = typed
        /\ UNCHANGED <<serverVars, answers, pageVars, mailed, matched, changed>>
        /\ page[c] = "newPassword"
    BY <1>2 DEF SendNewPassword, Request
  <2>2. t.pc = "open" /\ t.kind = "newPass" /\ Holds(t)
    BY <1>0, <2>1 DEF Pages, Holds
  <2> HIDE DEF t
  <2> QED  BY <2>1, <2>2, RequestInv
<1>3. ASSUME NEW n \in User, NEW p \in Password, NEW m \in Mail,
             SendSignup(c, n, p, m)
      PROVE  AccountInv'
  <2> DEFINE t == [pc |-> "open", kind |-> "signup", name |-> n,
                   password |-> p, mail |-> m, code |-> Empty,
                   result |-> "correct"]
  <2>1. /\ ~waiting[c] /\ page[c] # "menu"
        /\ thread' = [thread EXCEPT ![c] = t]
        /\ waiting' = [waiting EXCEPT ![c] = TRUE] /\ typed' = typed
        /\ UNCHANGED <<serverVars, answers, pageVars, mailed, matched, changed>>
    BY <1>3 DEF SendSignup, Request
  <2>2. t.pc = "open" /\ t.kind = "signup"
    OBVIOUS
  <2> HIDE DEF t
  <2> QED  BY <2>1, <2>2, RequestInv
<1>4. ASSUME NEW n \in User, NEW m \in Mail, CheckEmail(c, n, m)
      PROVE  AccountInv'
  <2> DEFINE t == [pc |-> "open", kind |-> "mailCode", name |-> n,
                   password |-> Empty, mail |-> m, code |-> Empty,
                   result |-> "correct"]
  <2>1. /\ ~waiting[c] /\ page[c] # "menu"
        /\ thread' = [thread EXCEPT ![c] = t]
        /\ waiting' = [waiting EXCEPT ![c] = TRUE] /\ typed' = typed
        /\ UNCHANGED <<serverVars, answers, pageVars, mailed, matched, changed>>
    BY <1>4 DEF CheckEmail, Request
  <2>2. t.pc = "open" /\ t.kind = "mailCode"
    OBVIOUS
  <2> HIDE DEF t
  <2> QED  BY <2>1, <2>2, RequestInv
<1>5. ASSUME NEW k \in Num, CheckCode(c, k) PROVE AccountInv'
  <2> DEFINE v == verification[c]
             t == [pc |-> "open", kind |-> "check", name |-> v.name,
                   password |-> v.password, mail |-> v.mail, code |-> k,
                   result |-> "correct"]
  <2>1. /\ ~waiting[c] /\ thread' = [thread EXCEPT ![c] = t]
        /\ waiting' = [waiting EXCEPT ![c] = TRUE]
        /\ typed \subseteq typed'
        /\ k \in Code => <<v.mail, k>> \in typed'
        /\ UNCHANGED <<serverVars, answers, pageVars, mailed, matched, changed>>
        /\ page[c] = "verification"
    <3>1. verification[c].mail \in Addr
      BY DEF TypeOK, Verification
    <3> QED  BY <1>5, <3>1 DEF CheckCode, Request
  <2>2. /\ t.pc = "open" /\ t.kind = "check" /\ t.mail = v.mail /\ t.code = k
        /\ Stored(t.mail)
    BY <1>0, <2>1 DEF Pages
  <2> HIDE DEF t
  <2> QED  BY <2>1, <2>2, RequestInv
<1>6. ASSUME NEW p \in Page, Click(c, p) PROVE AccountInv'
  <2>1. /\ UNCHANGED <<serverVars, thread, answers, waiting, verification,
                       newPassword, mailed, typed, matched, changed>>
        /\ page' = [page EXCEPT ![c] = p]
        /\ p \notin {"verification", "newPassword", "menu"}
        /\ page[c] # "menu" /\ ~waiting[c]
    BY <1>6 DEF Click, Show, ghostVars, Links
  <2>2. Grows /\ CodesMailed' /\ ResetByHolder'
        /\ (ScriptFails \/ VerifiedAccounts')
    BY <2>1 DEF Grows, CodesMailed, ResetByHolder, VerifiedAccounts,
                AccountInv, serverVars
  <2>3. page'[c] = p /\ \A d \in Program \ {c} : page'[d] = page[d]
    BY <2>1 DEF TypeOK
  <2>4. Session(c)' /\ Established(c)'
    <3>1. ~In(c) /\ ~In(c)'
      BY <2>1, <2>3 DEF In
    <3> QED  BY <1>0, <2>1, <3>1 DEF Session, KindOK, Established, serverVars
  <2>5. Pages(c)'
    BY <1>0, <2>1, <2>3 DEF Pages, Holds
  <2> QED  BY <2>1, <2>2, <2>3, <2>4, <2>5, Assemble DEF Local, serverVars
<1>7. CASE Restart(c)
  <2>1. /\ UNCHANGED <<users, resetCodes, thread, waiting, mailed, typed,
                       matched, changed>>
        /\ page' = [page EXCEPT ![c] = "first"]
        /\ answers' = [answers EXCEPT ![c] = <<>>]
        /\ verification' = [verification EXCEPT ![c] = NoVerification]
        /\ newPassword' = [newPassword EXCEPT ![c] = NoNewPassword]
        /\ ~waiting[c] /\ thread[c].pc = "done"
        /\ clientMap' = [n \in Name |-> IF clientMap[n] = c
                                        THEN NoProgram ELSE clientMap[n]]
    BY <1>7 DEF Restart, Show, ghostVars
  <2>2. Grows /\ CodesMailed' /\ ResetByHolder'
        /\ (ScriptFails \/ VerifiedAccounts')
    BY <2>1 DEF Grows, CodesMailed, ResetByHolder, VerifiedAccounts,
                AccountInv
  <2>3. /\ page'[c] = "first" /\ answers'[c] = <<>>
        /\ verification'[c] = NoVerification
        /\ \A d \in Program \ {c} :
               /\ page'[d] = page[d] /\ answers'[d] = answers[d]
               /\ verification'[d] = verification[d]
               /\ newPassword'[d] = newPassword[d]
    BY <2>1 DEF TypeOK
  <2>6. /\ \A n \in Name : clientMap'[n] # c
        /\ \A d \in Program \ {c}, n \in Name :
               clientMap'[n] = d => clientMap[n] = d
    BY <2>1, AccountAssumption
  <2>4. Session(c)' /\ Established(c)'
    <3>1. KindOK(thread'[c]) /\ ~In(c)' /\ ~waiting'[c]
      BY <1>0, <2>1, <2>3 DEF Session, In
    <3> QED  BY <2>1, <2>3, <2>6, <3>1 DEF Session, Established
  <2>5. Pages(c)'
    BY <2>3 DEF Pages, NoVerification
  <2> QED  BY <2>1, <2>2, <2>3, <2>4, <2>5, <2>6, Assemble DEF Local
<1> QED  BY <1>1, <1>2, <1>3, <1>4, <1>5, <1>6, <1>7 DEF Use

\* A page that gets its answer relies on what the thread has established.
LEMMA AnsweredInv ==
    ASSUME TypeOK, TypeOK', AccountInv, NEW c \in Program, Answered(c)
    PROVE  AccountInv'
<1>0. /\ Session(c) /\ Established(c) /\ Pages(c)
      /\ thread[c] \in Thread
  BY DEF AccountInv, TypeOK
<1>o. ASSUME NEW kind, Read(c, kind)
      PROVE  /\ thread[c].kind = kind /\ waiting[c] /\ ~waiting'[c]
             /\ answers'[c] = Tail(answers[c]) /\ answers[c] # <<>>
             /\ thread'[c] = IF thread[c].pc = "done" THEN Fresh ELSE thread[c]
             /\ UNCHANGED <<serverVars, mailed, typed, matched, changed>>
             /\ \A d \in Program \ {c} :
                    /\ thread'[d] = thread[d] /\ waiting'[d] = waiting[d]
                    /\ answers'[d] = answers[d]
  BY <1>o DEF Read, TypeOK
<1>r. ASSUME NEW kind, Read(c, kind), ~In(c)
      PROVE  /\ thread[c].pc = "done" /\ Reply(c) = thread[c].result
             /\ answers'[c] = <<>> /\ thread'[c] = Fresh
  <2>1. answers[c] = <<thread[c].result>> /\ thread[c].pc = "done"
    BY <1>0, <1>r, <1>o DEF Session
  <2>2. Head(answers[c]) = thread[c].result /\ Tail(answers[c]) = <<>>
    BY <2>1
  <2> QED  BY <1>r, <1>o, <2>1, <2>2 DEF Reply
<1>a. ASSUME NEW kind, Read(c, kind), Session(c)', Pages(c)',
             \A d \in Program \ {c} :
                 /\ page'[d] = page[d] /\ verification'[d] = verification[d]
                 /\ newPassword'[d] = newPassword[d]
      PROVE  AccountInv'
  <2>1. UNCHANGED <<serverVars, mailed, typed, matched, changed>>
    BY <1>a, <1>o
  <2>2. Grows /\ CodesMailed' /\ ResetByHolder'
        /\ (ScriptFails \/ VerifiedAccounts')
    BY <2>1 DEF Grows, CodesMailed, ResetByHolder, VerifiedAccounts,
                AccountInv, serverVars
  <2>3. Established(c)'
    BY <1>a, <1>o DEF Established
  <2> QED  BY <1>a, <1>o, <2>1, <2>2, <2>3, Assemble DEF Local, serverVars
<1>n. ASSUME NEW kind, Read(c, kind), ~In(c) PROVE Session(c)'
  <2>1. KindOK(thread'[c]) /\ thread'[c].pc = "done" /\ answers'[c] = <<>>
    BY <1>n, <1>r DEF Fresh, KindOK
  <2>2. \A n \in Name : clientMap'[n] # c
    BY <1>0, <1>n, <1>o DEF Session, serverVars
  <2> QED  BY <2>1, <2>2 DEF Session
<1>k. ASSUME NEW kind, Read(c, kind), kind # "login"
      PROVE  ~In(c) /\ Session(c)'
  BY <1>k, <1>n, <1>o DEF In
<1>1. CASE LoginAnswered(c)
  <2>0. Read(c, "login") /\ UNCHANGED <<verification, newPassword, resetCodes,
                                        matched>>
        /\ \/ Reply(c) = "correct" /\ page' = [page EXCEPT ![c] = "menu"]
           \/ Reply(c) # "correct" /\ page' = page
    BY <1>1, <1>o DEF LoginAnswered, Show, serverVars
  <2>1. Pages(c)'
    BY <1>0, <2>0 DEF Pages, Holds, Stored, TypeOK
  <2>2. Session(c)'
    <3>1. CASE ~In(c)
      BY <2>0, <3>1, <1>n
    <3>2. CASE In(c)
      <4>1. answers[c] \in Seq(Result) /\ answers[c] # <<>>
            /\ \A i \in DOMAIN answers[c] : answers[c][i] = "correct"
        BY <1>0, <2>0, <3>2, <1>o DEF Session, TypeOK
      <4>2. Reply(c) = "correct"
        <5>1. 1 \in DOMAIN answers[c] /\ Head(answers[c]) = answers[c][1]
          BY <4>1
        <5> QED  BY <4>1, <5>1 DEF Reply
      <4>3. \A i \in DOMAIN answers'[c] : answers'[c][i] = "correct"
        <5>1. answers'[c] = Tail(answers[c])
          BY <2>0, <1>o
        <5> QED  BY <4>1, <5>1
      <4>4. page'[c] = "menu"
        BY <2>0, <4>2 DEF TypeOK
      <4>5. KindOK(thread'[c]) /\ In(c)'
        BY <1>0, <2>0, <3>2, <4>4, <1>o DEF Session, In, KindOK, Fresh
      <4> QED  BY <4>3, <4>5 DEF Session
    <3> QED  BY <3>1, <3>2
  <2> QED  BY <2>0, <1>a, <2>1, <2>2 DEF TypeOK
<1>2. CASE SignupAnswered(c)
  <2>0. Read(c, "signup") /\ newPassword' = newPassword
        /\ UNCHANGED <<resetCodes, matched>>
    BY <1>2, <1>o DEF SignupAnswered, serverVars
  <2>1. CASE Reply(c) = "correct"
    <3> DEFINE v == [action |-> "signup", name |-> thread[c].name,
                     password |-> thread[c].password, mail |-> thread[c].mail]
    <3>1. /\ page' = [page EXCEPT ![c] = "verification"]
          /\ verification' = [verification EXCEPT ![c] = v]
      BY <1>2, <2>1 DEF SignupAnswered, Show
    <3>2. v.action = "signup" /\ v.mail = thread[c].mail
      OBVIOUS
    <3> HIDE DEF v
    <3>3. page'[c] = "verification" /\ verification'[c] = v
      BY <3>1 DEF TypeOK
    <3>4. Stored(thread[c].mail)
      BY <1>0, <1>k, <1>o, <1>r, <2>0, <2>1 DEF Established, Replying
    <3>5. Pages(c)'
      BY <2>0, <3>2, <3>3, <3>4 DEF Pages, Stored
    <3> QED  BY <1>a, <1>k, <2>0, <3>1, <3>5 DEF TypeOK
  <2>2. CASE Reply(c) # "correct"
    <3>1. UNCHANGED <<page, verification>>
      BY <1>2, <2>2 DEF SignupAnswered
    <3>2. Pages(c)'
      BY <1>0, <2>0, <3>1 DEF Pages, Stored, Holds
    <3> QED  BY <1>a, <1>k, <2>0, <3>1, <3>2
  <2> QED  BY <2>1, <2>2
<1>3. CASE RecoveryAnswered(c)
  <2>0. Read(c, "mailCode") /\ UNCHANGED <<resetCodes, matched>>
    BY <1>3, <1>o DEF RecoveryAnswered, serverVars
  <2>1. CASE Reply(c) \notin {"noEmail", "invalidUser"}
    <3>1. /\ page' = [page EXCEPT ![c] = "verification"]
          /\ verification' = [verification EXCEPT
                 ![c].action = "recovery", ![c].mail = thread[c].mail]
          /\ newPassword' = [newPassword EXCEPT
                 ![c].name = thread[c].name, ![c].mail = thread[c].mail]
      BY <1>3, <2>1 DEF RecoveryAnswered, Show
    <3>2. /\ page'[c] = "verification"
          /\ verification'[c].mail = thread[c].mail
          /\ newPassword'[c].name = thread[c].name
          /\ newPassword'[c].mail = thread[c].mail
      BY <3>1 DEF TypeOK, Verification, NewPassword
    <3>3. Stored(thread[c].mail) /\ Holds(thread[c])
      BY <1>0, <1>k, <1>o, <1>r, <2>0, <2>1 DEF Established, Replying
    <3>4. Pages(c)'
      BY <2>0, <3>2, <3>3 DEF Pages, Stored, Holds
    <3> QED  BY <1>a, <1>k, <2>0, <3>1, <3>4 DEF TypeOK
  <2>2. CASE Reply(c) \in {"noEmail", "invalidUser"}
    <3>1. UNCHANGED <<page, verification, newPassword>>
      BY <1>3, <2>2 DEF RecoveryAnswered
    <3>2. Pages(c)'
      BY <1>0, <2>0, <3>1 DEF Pages, Stored, Holds
    <3> QED  BY <1>a, <1>k, <2>0, <3>1, <3>2
  <2> QED  BY <2>1, <2>2
<1>4. CASE VerificationAnswered(c)
  <2>0. Read(c, "check") /\ UNCHANGED <<resetCodes, matched, verification>>
    BY <1>4, <1>o DEF VerificationAnswered, serverVars
  <2>1. CASE page' = [page EXCEPT ![c] = "login"] /\ newPassword' = newPassword
    <3>1. Pages(c)'
      BY <1>0, <2>0, <2>1 DEF Pages, Holds, TypeOK
    <3> QED  BY <1>a, <1>k, <2>0, <2>1, <3>1 DEF TypeOK
  <2>2. CASE /\ verification[c].action = "recovery"
             /\ page' = [page EXCEPT ![c] = "newPassword"]
             /\ newPassword' = [newPassword EXCEPT ![c].code = thread[c].code]
    <3>1. /\ newPassword'[c].name = newPassword[c].name
          /\ newPassword'[c].mail = newPassword[c].mail
          /\ page'[c] = "newPassword"
      BY <2>2 DEF TypeOK, NewPassword
    <3>2. Pages(c)'
      BY <1>0, <2>0, <2>2, <3>1 DEF Pages, Holds
    <3> QED  BY <1>a, <1>k, <2>0, <2>2, <3>2 DEF TypeOK
  <2>3. CASE UNCHANGED <<page, newPassword>>
    <3>1. Pages(c)'
      BY <1>0, <2>0, <2>3 DEF Pages, Holds, Stored
    <3> QED  BY <1>a, <1>k, <2>0, <2>3, <3>1
  <2> QED  BY <1>4, <2>1, <2>2, <2>3 DEF VerificationAnswered, Show
<1>5. CASE NewPasswordAnswered(c)
  <2>1. Pages(c)'
    BY <1>0, <1>5, <1>o DEF NewPasswordAnswered, Show, Pages, Holds, Stored,
       TypeOK, serverVars
  <2> QED  BY <1>5, <1>a, <1>k, <2>1 DEF NewPasswordAnswered, Show, TypeOK
<1> QED  BY <1>1, <1>2, <1>3, <1>4, <1>5 DEF Answered

\* In the beginning nothing has been asked for.
LEMMA InitInv == Init => AccountInv
<1> SUFFICES ASSUME Init PROVE AccountInv
  OBVIOUS
<1>1. ASSUME NEW c \in Program PROVE Session(c) /\ Established(c) /\ Pages(c)
  <2>1. \A n \in Name : clientMap[n] # c
    BY AccountAssumption DEF Init
  <2> QED  BY <2>1 DEF Init, Session, KindOK, Established, Pages, Fresh,
                       NoVerification
<1>2. CodesMailed /\ ResetByHolder
  BY DEF Init, CodesMailed, ResetByHolder
<1>3. VerifiedAccounts
  BY AccountAssumption DEF Init, VerifiedAccounts
<1> QED  BY <1>1, <1>2, <1>3 DEF AccountInv

\* Every step keeps what programs and threads rely on.
LEMMA StepInv == TypeOK /\ AccountInv /\ [Next]_vars => AccountInv'
<1> SUFFICES ASSUME TypeOK, AccountInv, [Next]_vars PROVE AccountInv'
  OBVIOUS
<1>t. TypeOK'
  BY StepType
<1>1. CASE UNCHANGED vars
  <2>1. UNCHANGED <<users, resetCodes, clientMap, thread, answers, waiting,
                    page, verification, newPassword, mailed, typed, matched,
                    changed>>
    BY <1>1 DEF vars, serverVars, clientVars, ghostVars, pageVars
  <2>2. ASSUME NEW d \in Program PROVE Local(d)'
    BY <2>1 DEF AccountInv, Local, Session, In, KindOK, Established,
                Pages, Stored, Holds, Replying
  <2> QED  BY <2>1, <2>2 DEF AccountInv, Local, CodesMailed,
                             VerifiedAccounts, ResetByHolder
<1>2. CASE Next
  BY <1>t, <1>2, HandleInv, AnsweredInv, UseInv DEF Next
<1> QED  BY <1>1, <1>2

\* A password is changed only for a name whose row held the mail that got the
\* code, whatever statements fail and however requests, answers and recoveries
\* interleave: the fields of the new-password page and the thread of its
\* request are always those of a recovery the server has matched.
THEOREM PasswordResetByHolder == Spec => []ResetByHolder
<1>1. Spec => [](TypeOK /\ AccountInv)
  BY InitType, InitInv, StepType, StepInv, PTL DEF Spec
<1>2. AccountInv => ResetByHolder
  BY DEF AccountInv
<1> QED  BY <1>1, <1>2, PTL

\* As long as the mail script does not fail, an account is added only with a
\* code that was made for its mail and typed for it: an absent code is never
\* compared with an empty field.
THEOREM AccountsVerified ==
    ASSUME ~ScriptFails PROVE Spec => []VerifiedAccounts
<1>1. Spec => [](TypeOK /\ AccountInv)
  BY InitType, InitInv, StepType, StepInv, PTL DEF Spec
<1>2. AccountInv => VerifiedAccounts
  BY DEF AccountInv
<1> QED  BY <1>1, <1>2, PTL

-----------------------------------------------------------------------------
(* What a user was told.  PasswordStands needs that one program asks for a *)
(* name: two that recover one account at a time are told two passwords.    *)

HasRow(T, n) == Last(T, n) # {}
Sure         == User \ missed

\* Who may sign up with a name, and who may recover its password.
New(c, u)  == /\ ~HasRow(Registered, u)
              /\ \E m \in Mail : <<u, m>> \in Identity[c]
Owns(c, u) == \E m \in Mail :
                  /\ <<u, m>> \in Identity[c]
                  /\ HasRow(Registered, u) => m = MailOf(Registered, u)

\* A name is signed up with or recovered by the user of one program, and a
\* program is not used for a recovery after a sign-up.
OneOwner == /\ FreshRecovery
            /\ \A c, d \in Program, u \in User :
                   Owns(c, u) /\ Owns(d, u) => c = d

\* The table has let the request pass.
Passed(t) ==
    \/ /\ t.kind = "signup"
       /\ \/ t.pc \in {"mail", "script", "store"}
          \/ Replying(t) /\ t.result = "correct"
    \/ /\ t.kind = "mailCode"
       /\ \/ t.pc \in {"script", "store"}
          \/ Replying(t) /\ t.result \notin {"noEmail", "invalidUser"}
    \/ t.kind \in {"check", "newPass"}

\* What a request says of its user.
Asker(c) ==
    LET t == thread[c]
    IN  /\ t.kind \in {"signup", "mailCode"} =>
               /\ t.name \in User /\ t.mail \in Mail
               /\ <<t.name, t.mail>> \in Identity[c]
        /\ t.kind = "mailCode" => verification[c].name = Empty
        /\ t.kind = "check" => /\ t.name = verification[c].name
                               /\ t.password = verification[c].password
        /\ t.kind \in {"mailCode", "newPass"} /\ Passed(t) /\ t.name \in User =>
               HasRow(users, t.name)
        /\ t.kind \in {"signup", "check"} /\ Passed(t) /\ t.name \in Sure =>
               New(c, t.name)
        /\ t.kind \in {"mailCode", "newPass"} /\ Passed(t) /\ t.name \in Sure =>
               Owns(c, t.name)

\* What the pages keep of it.
Fields(c) ==
    /\ verification[c].name \in Sure => New(c, verification[c].name)
    /\ verification[c].action = "recovery" => verification[c].name = Empty
    /\ newPassword[c].name \in Sure => Owns(c, newPassword[c].name)
    /\ newPassword[c].name \in User => HasRow(users, newPassword[c].name)

Mine(c) == (waiting[c] => Asker(c)) /\ Fields(c)

\* The table has u's new password and its user will be told.
Due(t, u) == /\ t.kind \in {"check", "newPass"} /\ t.name = u
             /\ Replying(t) /\ t.result = "correct"
Told(c, u) == waiting[c] /\ Due(thread[c], u)

Kept(u) == /\ HasRow(Registered, u) => HasRow(users, u)
           /\ u \in Sure /\ HasRow(Registered, u) =>
                  MailOf(users, u) = MailOf(Registered, u)

Stands(u) ==
    /\ (\A c \in Program : ~Told(c, u)) => chosen[u] = PasswordOf(users, u)
    /\ \A c \in Program : Told(c, u) =>
           PasswordOf(users, u) = thread[c].password

StandsInv == /\ \A c \in Program : Mine(c)
             /\ \A u \in User : Kept(u)
             /\ \A u \in Sure : Stands(u)

\* Of two last rows there is one.
LEMMA OneLast ==
    ASSUME NEW T \in Seq(Row), NEW n, NEW i \in Last(T, n)
    PROVE  Last(T, n) = {i}
BY DEF Last, Named

\* Which gives what a statement finds.
LEMMA Found ==
    ASSUME NEW T \in Seq(Row), NEW n, NEW i \in Last(T, n)
    PROVE  PasswordOf(T, n) = T[i].password /\ MailOf(T, n) = T[i].mail
<1>1. Last(T, n) = {i}
  BY OneLast
<1>2. (CHOOSE j \in {i} : TRUE) = i
  OBVIOUS
<1> HIDE DEF Last
<1> QED  BY <1>1, <1>2 DEF PasswordOf, MailOf

\* A mail is found in a row only.
LEMMA FoundMail ==
    ASSUME NEW T, NEW n, MailOf(T, n) # Empty
    PROVE  HasRow(T, n)
BY DEF MailOf, HasRow

\* A new row is the last of its name.
LEMMA RowAdded ==
    ASSUME NEW T \in Seq(Row), NEW r \in Row
    PROVE  LET U == Append(T, r)
           IN  /\ HasRow(U, r.name)
               /\ PasswordOf(U, r.name) = r.password
               /\ MailOf(U, r.name) = r.mail
<1> DEFINE U == Append(T, r)
<1>1. /\ U \in Seq(Row) /\ DOMAIN U = 1 .. Len(T) + 1 /\ U[Len(T) + 1] = r
      /\ Len(T) \in Nat
  OBVIOUS
<1> HIDE DEF U
<1>2. Len(T) + 1 \in Last(U, r.name)
  BY <1>1 DEF Last, Named
<1>3. PasswordOf(U, r.name) = r.password /\ MailOf(U, r.name) = r.mail
  BY <1>1, <1>2, Found
<1> QED  BY <1>2, <1>3 DEF HasRow, U

\* To other names it is nothing.
LEMMA OtherRowAdded ==
    ASSUME NEW T \in Seq(Row), NEW r \in Row, NEW n, n # r.name
    PROVE  LET U == Append(T, r)
           IN  /\ HasRow(U, n) <=> HasRow(T, n)
               /\ PasswordOf(U, n) = PasswordOf(T, n)
               /\ MailOf(U, n) = MailOf(T, n)
<1> DEFINE U == Append(T, r)
<1>1. /\ U \in Seq(Row) /\ DOMAIN U = 1 .. Len(T) + 1 /\ U[Len(T) + 1] = r
      /\ \A i \in DOMAIN T : U[i] = T[i]
      /\ DOMAIN T = 1 .. Len(T) /\ Len(T) \in Nat
  OBVIOUS
<1> HIDE DEF U
<1>2. Named(U, n) = Named(T, n)
  BY <1>1 DEF Named
<1>3. Last(U, n) = Last(T, n)
  BY <1>2 DEF Last
<1>4. CASE Last(T, n) = {}
  BY <1>3, <1>4 DEF PasswordOf, MailOf, HasRow, U
<1>5. CASE Last(T, n) # {}
  <2>1. PICK i \in Last(T, n) : TRUE
    BY <1>5
  <2>2. U[i] = T[i]
    BY <1>1, <2>1 DEF Last, Named
  <2>3. /\ PasswordOf(U, n) = U[i].password /\ MailOf(U, n) = U[i].mail
        /\ PasswordOf(T, n) = T[i].password /\ MailOf(T, n) = T[i].mail
    BY <1>1, <1>3, <2>1, Found
  <2> QED  BY <1>3, <2>2, <2>3 DEF HasRow, U
<1> QED  BY <1>4, <1>5

\* What changePassword makes of the table.
Changed(T, n, p) == [i \in DOMAIN T |-> IF T[i].name = n
                                        THEN [T[i] EXCEPT !.password = p]
                                        ELSE T[i]]

\* A changed password is found for its name, and nothing else changes.
LEMMA RowChanged ==
    ASSUME NEW T \in Seq(Row), NEW n, NEW p \in Pass, NEW u
    PROVE  /\ HasRow(Changed(T, n, p), u) <=> HasRow(T, u)
           /\ MailOf(Changed(T, n, p), u) = MailOf(T, u)
           /\ u # n => PasswordOf(Changed(T, n, p), u) = PasswordOf(T, u)
           /\ u = n /\ HasRow(T, u) => PasswordOf(Changed(T, n, p), u) = p
<1> DEFINE U == Changed(T, n, p)
<1>0. U = [i \in DOMAIN T |-> IF T[i].name = n
                              THEN [T[i] EXCEPT !.password = p] ELSE T[i]]
  BY DEF Changed
<1> HIDE DEF U
<1>1. U \in Seq(Row) /\ DOMAIN U = DOMAIN T
  BY <1>0, ChangedType
<1>2. ASSUME NEW i \in DOMAIN T
      PROVE  /\ U[i].name = T[i].name /\ U[i].mail = T[i].mail
             /\ T[i].name # n => U[i].password = T[i].password
             /\ T[i].name = n => U[i].password = p
  <2>1. T[i] \in Row
    BY <1>2
  <2>2. /\ [T[i] EXCEPT !.password = p].name = T[i].name
        /\ [T[i] EXCEPT !.password = p].mail = T[i].mail
        /\ [T[i] EXCEPT !.password = p].password = p
    BY <2>1 DEF Row
  <2>3. \/ T[i].name = n /\ U[i] = [T[i] EXCEPT !.password = p]
        \/ T[i].name # n /\ U[i] = T[i]
    BY <1>0, <1>2
  <2> QED  BY <2>2, <2>3
<1>3. Named(U, u) = Named(T, u)
  BY <1>1, <1>2 DEF Named
<1>4. Last(U, u) = Last(T, u)
  BY <1>3 DEF Last
<1>5. CASE Last(T, u) = {}
  BY <1>4, <1>5 DEF PasswordOf, MailOf, HasRow, U
<1>6. CASE Last(T, u) # {}
  <2>1. PICK i \in Last(T, u) : TRUE
    BY <1>6
  <2>2. i \in DOMAIN T /\ T[i].name = u
    BY <2>1 DEF Last, Named
  <2>3. PasswordOf(T, u) = T[i].password /\ MailOf(T, u) = T[i].mail
    BY <2>1, Found
  <2>4. i \in Last(U, u)
    BY <1>4, <2>1
  <2>5. ASSUME NEW V \in Seq(Row), i \in Last(V, u)
        PROVE  PasswordOf(V, u) = V[i].password /\ MailOf(V, u) = V[i].mail
    BY <2>5, Found
  <2>6. PasswordOf(U, u) = U[i].password /\ MailOf(U, u) = U[i].mail
    BY <1>1, <2>4, <2>5
  <2> QED  BY <1>2, <1>4, <2>2, <2>3, <2>6 DEF HasRow, U
<1> QED  BY <1>5, <1>6 DEF U

\* No row is lost and no name is less in doubt.
Onward == /\ missed \subseteq missed'
          /\ \A u \in User : HasRow(users, u) => HasRow(users, u)'

\* What a program knows of its user stays when others move.
LEMMA MineStays ==
    ASSUME Onward, NEW d \in Program, Mine(d),
           thread'[d] = thread[d], waiting'[d] = waiting[d],
           verification'[d] = verification[d],
           newPassword'[d] = newPassword[d]
    PROVE  Mine(d)'
<1>1. Sure' \subseteq Sure
  BY DEF Sure, Onward
<1>2. Fields(d)'
  BY <1>1 DEF Mine, Fields, Onward
<1>3. waiting'[d] => Asker(d)'
  BY <1>1 DEF Mine, Asker, Onward
<1> QED  BY <1>2, <1>3 DEF Mine

\* StandsInv step: the program that moves, the others, the names.
LEMMA StandsStep ==
    ASSUME StandsInv, Onward, NEW c \in Program, Mine(c)',
           \A d \in Program \ {c} :
               /\ thread'[d] = thread[d] /\ waiting'[d] = waiting[d]
               /\ verification'[d] = verification[d]
               /\ newPassword'[d] = newPassword[d],
           \A u \in Sure' : HasRow(Registered, u) =>
               MailOf(users', u) = MailOf(users, u),
           \A u \in Sure' : Stands(u)'
    PROVE  StandsInv'
<1>1. Sure' \subseteq Sure
  BY DEF Sure, Onward
<1>2. ASSUME NEW d \in Program PROVE Mine(d)'
  BY MineStays DEF StandsInv
<1>3. ASSUME NEW u \in User PROVE Kept(u)'
  BY <1>1 DEF StandsInv, Kept, Onward, HasRow
<1> QED  BY <1>2, <1>3 DEF StandsInv

\* A step that tells nobody and changes no password.
LEMMA StandsQuietly ==
    ASSUME StandsInv, NEW u \in Sure', missed \subseteq missed',
           chosen'[u] = chosen[u],
           PasswordOf(users', u) = PasswordOf(users, u),
           \A d \in Program : Told(d, u)' <=> Told(d, u),
           \A d \in Program : Told(d, u) =>
               thread'[d].password = thread[d].password
    PROVE  Stands(u)'
<1>1. Stands(u)
  BY DEF StandsInv, Sure
<1> QED  BY <1>1 DEF Stands

\* The thread of c becomes t, which tells nobody.
LEMMA ThreadStands ==
    ASSUME TypeOK, StandsInv, NEW c \in Program, NEW t,
           thread' = [thread EXCEPT ![c] = t],
           UNCHANGED <<users, chosen, waiting, pageVars>>,
           missed \subseteq missed',
           t.kind = thread[c].kind, t.name = thread[c].name,
           t.password = thread[c].password, t.mail = thread[c].mail,
           waiting[c] => \A u \in User : Due(t, u) <=> Due(thread[c], u),
           waiting[c] /\ Passed(t) /\ ~Passed(thread[c]) =>
               /\ t.kind = "mailCode" => HasRow(users, t.name)
               /\ t.name \in missed' \/
                      IF t.kind = "signup" THEN New(c, t.name)
                                           ELSE Owns(c, t.name)
    PROVE  StandsInv'
<1>1. thread'[c] = t /\ \A d \in Program \ {c} : thread'[d] = thread[d]
  BY DEF TypeOK
<1>2. Onward /\ Sure' \subseteq Sure
  BY DEF Onward, Sure
<1>3. Mine(c)
  BY DEF StandsInv
<1>4. Fields(c)'
  BY <1>2, <1>3 DEF Mine, Fields, Onward, pageVars
<1>5. ASSUME waiting'[c] PROVE Asker(c)'
  <2>1. Asker(c) /\ waiting[c]
    BY <1>3, <1>5 DEF Mine
  <2>2. /\ verification' = verification /\ users' = users
    BY DEF pageVars
  <2>3. ASSUME t.name \in Sure', Passed(t)
        PROVE  /\ t.kind \in {"signup", "check"} => New(c, t.name)
               /\ t.kind \in {"mailCode", "newPass"} => Owns(c, t.name)
    <3>1. t.name \in Sure /\ t.name \notin missed'
      BY <1>2, <2>3 DEF Sure
    <3>2. CASE Passed(thread[c])
      BY <2>1, <3>1, <3>2 DEF Asker
    <3>3. CASE ~Passed(thread[c])
      <4>1. t.kind \notin {"check", "newPass"}
        BY <3>3 DEF Passed
      <4> QED  BY <2>1, <2>3, <3>1, <3>3, <4>1
    <3> QED  BY <3>2, <3>3
  <2>4. ASSUME t.name \in User, Passed(t), t.kind \in {"mailCode", "newPass"}
        PROVE  HasRow(users, t.name)
    <3>1. CASE Passed(thread[c])
      BY <2>1, <2>4, <3>1 DEF Asker
    <3>2. CASE ~Passed(thread[c])
      <4>1. t.kind # "newPass"
        BY <3>2 DEF Passed
      <4> QED  BY <2>1, <2>4, <3>2, <4>1
    <3> QED  BY <3>1, <3>2
  <2> QED  BY <1>1, <2>1, <2>2, <2>3, <2>4 DEF Asker
<1>6. ASSUME NEW u \in Sure' PROVE Stands(u)'
  <2>1. ASSUME NEW d \in Program
        PROVE  /\ Told(d, u)' <=> Told(d, u)
               /\ thread'[d].password = thread[d].password
    <3>1. u \in User
      BY DEF Sure
    <3>2. CASE d = c
      BY <1>1, <3>1, <3>2 DEF Told
    <3>3. CASE d # c
      BY <1>1, <3>3 DEF Told
    <3> QED  BY <3>2, <3>3
  <2> QED  BY <2>1, StandsQuietly
<1> QED  BY <1>1, <1>2, <1>4, <1>5, <1>6, StandsStep DEF Mine, pageVars

\* The thread goes to another place.
LEMMA GotoStands ==
    ASSUME TypeOK, StandsInv, NEW c \in Program, NEW pc \in Pc,
           Goto(c, pc),
           UNCHANGED <<users, chosen, waiting, pageVars>>,
           missed \subseteq missed',
           \/ pc \notin {"answer", "done"} /\ ~Replying(thread[c])
           \/ pc = "done" /\ thread[c].pc = "answer",
           waiting[c] /\ thread[c].kind = "signup" =>
               \/ pc \in {"opening", "user", "done"}
               \/ thread[c].pc \in {"mail", "script", "store"}
               \/ thread[c].name \in missed' \/ New(c, thread[c].name),
           waiting[c] /\ thread[c].kind = "mailCode" =>
               \/ pc \notin {"script", "store"}
               \/ /\ HasRow(users, thread[c].name)
                  /\ thread[c].name \in missed' \/ Owns(c, thread[c].name)
    PROVE  StandsInv'
<1> DEFINE t == [thread[c] EXCEPT !.pc = pc]
<1>1. /\ thread[c] \in Thread
      /\ t.pc = pc /\ t.kind = thread[c].kind /\ t.name = thread[c].name
      /\ t.mail = thread[c].mail /\ t.password = thread[c].password
      /\ t.result = thread[c].result
  BY DEF TypeOK, Thread
<1>2. thread' = [thread EXCEPT ![c] = t]
  BY DEF TypeOK, Goto
<1> HIDE DEF t
<1>3. \A u \in User : Due(t, u) <=> Due(thread[c], u)
  BY <1>1 DEF Due, Replying
<1>4. waiting[c] /\ Passed(t) /\ ~Passed(thread[c]) =>
          /\ t.kind = "mailCode" => HasRow(users, t.name)
          /\ t.name \in missed' \/
                 IF t.kind = "signup" THEN New(c, t.name) ELSE Owns(c, t.name)
  BY <1>1 DEF Passed, Replying
<1> QED  BY <1>1, <1>2, <1>3, <1>4, ThreadStands

\* The thread has its answer, which is no good news for a password.
LEMMA AnswerStands ==
    ASSUME TypeOK, StandsInv, NEW c \in Program, NEW r \in Result,
           Answer(c, r), ~Replying(thread[c]),
           UNCHANGED <<users, chosen, waiting, pageVars>>,
           missed \subseteq missed',
           waiting[c] /\ thread[c].kind = "signup" =>
               r # "correct" \/ thread[c].pc \in {"mail", "script", "store"},
           waiting[c] /\ thread[c].kind = "mailCode" =>
               \/ r \in {"noEmail", "invalidUser"}
               \/ thread[c].pc \in {"script", "store"},
           waiting[c] /\ thread[c].kind \in {"check", "newPass"} =>
               r # "correct"
    PROVE  StandsInv'
<1> DEFINE t == [thread[c] EXCEPT !.pc = "answer", !.result = r]
<1>1. /\ thread[c] \in Thread
      /\ t.pc = "answer" /\ t.kind = thread[c].kind /\ t.name = thread[c].name
      /\ t.mail = thread[c].mail /\ t.password = thread[c].password
      /\ t.result = r
  BY DEF TypeOK, Thread
<1>2. thread' = [thread EXCEPT ![c] = t]
  BY DEF TypeOK, Answer
<1> HIDE DEF t
<1>3. waiting[c] => \A u \in User : Due(t, u) <=> Due(thread[c], u)
  BY <1>1 DEF Due, Replying
<1>4. waiting[c] /\ Passed(t) => Passed(thread[c])
  BY <1>1 DEF Passed, Replying
<1> QED  BY <1>1, <1>2, <1>3, <1>4, ThreadStands

\* A request that may write has one sender per name, and it is waiting.
LEMMA OneTold ==
    ASSUME TypeOK, StandsInv, OneOwner, NEW c \in Program, NEW d \in Program,
           NEW u \in Sure,
           Owns(c, u), Told(d, u)
    PROVE  d = c
<1>1. Asker(d) /\ Passed(thread[d]) /\ thread[d].name = u /\ u \in User
      /\ thread[d].kind \in {"check", "newPass"}
  BY DEF StandsInv, Mine, Told, Due, Passed, Sure
<1>2. Owns(d, u)
  BY <1>1 DEF Asker, New, Owns
<1> QED  BY <1>1, <1>2 DEF OneOwner

\* What addNewUser and changePassword have in common: they write what the page
\* tells its user, and no other request of the name is under way.
LEMMA WriteStands ==
    ASSUME TypeOK, StandsInv, OneOwner, NEW c \in Program, waiting[c],
           thread[c].kind \in {"check", "newPass"}, ~Replying(thread[c]),
           Answer(c, "correct"),
           UNCHANGED <<chosen, waiting, pageVars>>,
           Onward,
           \A u \in Sure' : HasRow(Registered, u) =>
               MailOf(users', u) = MailOf(users, u),
           \A u \in Sure' \ {thread[c].name} :
               PasswordOf(users', u) = PasswordOf(users, u),
           thread[c].name \in Sure' =>
               PasswordOf(users', thread[c].name) = thread[c].password
    PROVE  StandsInv'
<1> DEFINE t == [thread[c] EXCEPT !.pc = "answer", !.result = "correct"]
<1>1. /\ thread[c] \in Thread
      /\ t.pc = "answer" /\ t.kind = thread[c].kind /\ t.name = thread[c].name
      /\ t.mail = thread[c].mail /\ t.password = thread[c].password
      /\ t.result = "correct"
  BY DEF TypeOK, Thread
<1>2. /\ thread' = [thread EXCEPT ![c] = t] /\ thread'[c] = t
      /\ \A d \in Program \ {c} : thread'[d] = thread[d]
  BY DEF TypeOK, Answer
<1> HIDE DEF t
<1>3. Sure' \subseteq Sure
  BY DEF Onward, Sure
<1>4. Mine(c) /\ Asker(c) /\ Fields(c) /\ Passed(thread[c]) /\ Passed(t)
  BY <1>1 DEF StandsInv, Mine, Passed
<1>5. Mine(c)'
  <2>1. Fields(c)'
    BY <1>3, <1>4 DEF Fields, Onward, pageVars
  <2>2. Asker(c)'
    BY <1>1, <1>2, <1>3, <1>4 DEF Asker, Onward, pageVars
  <2> QED  BY <2>1, <2>2 DEF Mine
<1>6. ASSUME NEW u \in Sure' PROVE Stands(u)'
  <2>1. CASE u = thread[c].name
    <3>1. Told(c, u)'
      BY <1>1, <1>2, <2>1 DEF Told, Due, Replying
    <3>2. Owns(c, u)
      BY <1>3, <1>4, <2>1 DEF Asker, New, Owns
    <3>3. ASSUME NEW d \in Program, Told(d, u)' PROVE d = c
      <4>1. d # c => Told(d, u)
        BY <1>2, <3>3 DEF Told
      <4> QED  BY <1>3, <3>2, <4>1, OneTold
    <3>4. PasswordOf(users, u)' = thread'[c].password
      BY <1>1, <1>2, <2>1
    <3> QED  BY <3>1, <3>3, <3>4 DEF Stands
  <2>2. CASE u # thread[c].name
    <3>1. ~Told(c, u) /\ ~Told(c, u)'
      BY <1>1, <1>2, <2>2 DEF Told, Due
    <3>2. \A d \in Program : Told(d, u)' <=> Told(d, u)
      BY <1>2, <3>1 DEF Told
    <3>3. \A d \in Program : Told(d, u) =>
              thread'[d].password = thread[d].password
      BY <1>2, <3>1
    <3> QED  BY <2>2, <3>2, <3>3, StandsQuietly DEF Onward
  <2> QED  BY <2>1, <2>2
<1> QED  BY <1>2, <1>5, <1>6, StandsStep DEF pageVars

\* addNewUser: nobody has the name, unless a statement has failed for it.
LEMMA AddStands ==
    ASSUME TypeOK, AccountInv, StandsInv, OneOwner, NEW c \in Program,
           AddNewUser(c)
    PROVE  StandsInv'
<1>1. /\ thread[c] \in Thread /\ thread[c].pc = "insert"
      /\ thread[c].kind = "check" /\ waiting[c] /\ ~Replying(thread[c])
  BY DEF TypeOK, AddNewUser, At, AccountInv, Session, KindOK, In, Replying
<1>2. /\ Answer(c, "correct") /\ UNCHANGED <<chosen, waiting, pageVars>>
  BY DEF AddNewUser, clientVars
<1>3. PICK ok \in Outcomes(c) :
          /\ users' = IF ok THEN Append(users, [name |-> thread[c].name,
                                             password |-> thread[c].password,
                                             mail |-> thread[c].mail])
                            ELSE users
          /\ Noted(c, ok)
  BY DEF AddNewUser
<1>4. users \in Seq(Row) /\ Asker(c) /\ Passed(thread[c])
  BY <1>1 DEF TypeOK, StandsInv, Mine, Passed
<1>5. missed \subseteq missed'
  BY <1>3 DEF Noted
<1>6. CASE ok
  <2> DEFINE r == [name |-> thread[c].name, password |-> thread[c].password,
                   mail |-> thread[c].mail]
  <2>1. /\ r \in Row /\ r.name = thread[c].name
        /\ r.password = thread[c].password /\ users' = Append(users, r)
    BY <1>1, <1>3, <1>6 DEF Row, Thread
  <2> HIDE DEF r
  <2>2. /\ HasRow(users', r.name)
        /\ PasswordOf(users', r.name) = thread[c].password
    BY <1>4, <2>1, RowAdded
  <2>3. \A u : u # r.name =>
            /\ HasRow(users', u) <=> HasRow(users, u)
            /\ PasswordOf(users', u) = PasswordOf(users, u)
            /\ MailOf(users', u) = MailOf(users, u)
    BY <1>4, <2>1, OtherRowAdded
  <2>4. Onward
    BY <1>5, <2>2, <2>3 DEF Onward
  <2>5. ASSUME NEW u \in Sure', HasRow(Registered, u) PROVE u # r.name
    <3>1. u \in Sure
      BY <1>5, <2>5 DEF Sure
    <3> QED  BY <1>1, <1>4, <2>1, <2>5, <3>1 DEF Asker, New
  <2> QED  BY <1>1, <1>2, <2>1, <2>2, <2>3, <2>4, <2>5, WriteStands
<1>7. CASE ~ok
  <2>1. users' = users /\ thread[c].name \in missed'
    BY <1>3, <1>7 DEF Noted
  <2>2. Onward /\ thread[c].name \notin Sure'
    BY <1>5, <2>1 DEF Onward, Sure
  <2> QED  BY <1>1, <1>2, <2>1, <2>2, WriteStands
<1> QED  BY <1>6, <1>7

\* changePassword: the name is in the table, and stays.
LEMMA ChangeStands ==
    ASSUME TypeOK, AccountInv, StandsInv, OneOwner, NEW c \in Program,
           ChangePassword(c)
    PROVE  StandsInv'
<1>1. /\ thread[c] \in Thread /\ thread[c].pc = "change"
      /\ thread[c].kind = "newPass" /\ waiting[c] /\ ~Replying(thread[c])
  BY DEF TypeOK, ChangePassword, At, AccountInv, Session, KindOK, In, Replying
<1>2. /\ Answer(c, "correct") /\ UNCHANGED <<chosen, waiting, pageVars>>
  BY DEF ChangePassword, clientVars
<1>3. PICK ok \in Outcomes(c) :
          /\ users' = IF ok
                      THEN [i \in DOMAIN users |->
                               IF users[i].name = thread[c].name
                               THEN [users[i] EXCEPT
                                         !.password = thread[c].password]
                               ELSE users[i]]
                      ELSE users
          /\ Noted(c, ok)
  BY DEF ChangePassword
<1>4. /\ users \in Seq(Row) /\ Asker(c) /\ Passed(thread[c])
      /\ thread[c].password \in Pass
  BY <1>1 DEF TypeOK, StandsInv, Mine, Passed, Thread
<1>5. missed \subseteq missed'
  BY <1>3 DEF Noted
<1>6. CASE ok
  <2>1. users' = Changed(users, thread[c].name, thread[c].password)
    BY <1>3, <1>6 DEF Changed
  <2>2. ASSUME NEW u
        PROVE  /\ HasRow(users', u) <=> HasRow(users, u)
               /\ MailOf(users', u) = MailOf(users, u)
               /\ u # thread[c].name =>
                      PasswordOf(users', u) = PasswordOf(users, u)
               /\ u = thread[c].name /\ HasRow(users, u) =>
                      PasswordOf(users', u) = thread[c].password
    BY <1>4, <2>1, RowChanged
  <2>3. Onward
    BY <1>5, <2>2 DEF Onward
  <2>4. thread[c].name \in Sure' =>
            PasswordOf(users', thread[c].name) = thread[c].password
    BY <1>1, <1>4, <2>2 DEF Asker, Sure
  <2> QED  BY <1>1, <1>2, <2>2, <2>3, <2>4, WriteStands
<1>7. CASE ~ok
  <2>1. users' = users /\ thread[c].name \in missed'
    BY <1>3, <1>7 DEF Noted
  <2>2. Onward /\ thread[c].name \notin Sure'
    BY <1>5, <2>1 DEF Onward, Sure
  <2> QED  BY <1>1, <1>2, <2>1, <2>2, WriteStands
<1> QED  BY <1>6, <1>7

\* sendMail and the answers to it, and what asks the table, tell nobody.
LEMMA HandleStands ==
    ASSUME TypeOK, AccountInv, StandsInv, OneOwner, NEW c \in Program,
           Handle(c)
    PROVE  StandsInv'
<1>t. /\ thread[c] \in Thread /\ thread[c].kind \in Kind
      /\ thread[c].name \in Name /\ thread[c].mail \in Addr
      /\ users \in Seq(Row)
  BY DEF TypeOK, Thread
<1>k. KindOK(thread[c])
  BY DEF AccountInv, Session
<1>a. waiting[c] => Asker(c)
  BY DEF StandsInv, Mine
<1>n. ASSUME NEW ok, Noted(c, ok)
      PROVE  missed \subseteq missed' /\ (ok \/ thread[c].name \in missed')
  BY <1>n DEF Noted
<1>1. CASE OpenBegins(c)
  <2>1. /\ Goto(c, "opening") /\ thread[c].pc = "open" /\ missed' = missed
        /\ UNCHANGED <<users, chosen, waiting, pageVars>>
    BY <1>1 DEF OpenBegins, At, clientVars, ghostVars
  <2> QED  BY <2>1, GotoStands DEF Replying, Pc
<1>2. CASE OpenEnds(c)
  <2>1. /\ Goto(c, FirstPc(thread[c].kind)) /\ thread[c].pc = "opening"
        /\ UNCHANGED <<users, chosen, waiting, pageVars>> /\ missed' = missed
    BY <1>2 DEF OpenEnds, At, clientVars, ghostVars
  <2>2. /\ FirstPc(thread[c].kind) \in {"user", "mail", "code"}
        /\ thread[c].kind = "signup" => FirstPc(thread[c].kind) = "user"
    BY <1>t, FirstPcType DEF FirstPc
  <2> QED  BY <2>1, <2>2, GotoStands DEF Replying, Pc
<1>3. CASE DoesUserExist(c)
  <2>1. /\ thread[c].pc = "user"
        /\ UNCHANGED <<users, chosen, waiting, pageVars>>
    BY <1>3 DEF DoesUserExist, At, serverVars, clientVars
  <2>2. CASE thread[c].kind = "login"
    <3>1. /\ missed' = missed
          /\ Goto(c, "password") \/ Answer(c, "invalidUser")
      BY <1>3, <2>2 DEF DoesUserExist
    <3> QED  BY <2>1, <2>2, <3>1, GotoStands, AnswerStands
             DEF Replying, Pc, Result
  <2>3. CASE thread[c].kind = "signup"
    <3>1. PICK ok \in Outcomes(c) :
              /\ IF ok /\ Named(users, thread[c].name) # {}
                 THEN Answer(c, "userExists") ELSE Goto(c, "mail")
              /\ Noted(c, ok)
      BY <1>3, <2>3 DEF DoesUserExist
    <3>2. missed \subseteq missed' /\ (ok \/ thread[c].name \in missed')
      BY <1>n, <3>1
    <3>3. CASE Answer(c, "userExists")
      BY <2>1, <2>3, <3>2, <3>3, AnswerStands DEF Replying, Result
    <3>4. CASE /\ Goto(c, "mail")
               /\ ok => Named(users, thread[c].name) = {}
      <4>1. ASSUME waiting[c], ok PROVE New(c, thread[c].name)
        <5>1. /\ thread[c].name \in User /\ thread[c].mail \in Mail
              /\ <<thread[c].name, thread[c].mail>> \in Identity[c]
          BY <1>a, <2>3, <4>1 DEF Asker
        <5>2. ~HasRow(users, thread[c].name)
          BY <3>4, <4>1 DEF HasRow, Last
        <5> QED  BY <5>1, <5>2 DEF StandsInv, Kept, New
      <4> QED  BY <2>1, <2>3, <3>2, <3>4, <4>1, GotoStands DEF Replying, Pc
    <3> QED  BY <3>1, <3>3, <3>4
  <2> QED  BY <1>3, <2>2, <2>3 DEF DoesUserExist
<1>4. CASE DoesPasswordMatch(c)
  <2>1. /\ thread[c].pc = "password" /\ thread[c].kind = "login"
        /\ UNCHANGED <<users, chosen, waiting, pageVars>> /\ missed' = missed
        /\ Goto(c, "address") \/ Answer(c, "incorrectPass")
    BY <1>4, <1>k DEF DoesPasswordMatch, At, KindOK, serverVars, clientVars,
       ghostVars
  <2> QED  BY <2>1, GotoStands, AnswerStands DEF Replying, Pc, Result
<1>5. CASE DoesEmailExist(c)
  <2>1. /\ thread[c].pc = "mail" /\ missed' = missed
        /\ UNCHANGED <<users, chosen, waiting, pageVars>>
        /\ \/ /\ thread[c].kind = "signup"
              /\ Answer(c, "emailExists") \/ Goto(c, "script")
           \/ /\ thread[c].kind = "mailCode"
              /\ Goto(c, "match") \/ Answer(c, "noEmail")
    BY <1>5 DEF DoesEmailExist, At, serverVars, clientVars, ghostVars
  <2> QED  BY <2>1, GotoStands, AnswerStands DEF Replying, Pc, Result
<1>6. CASE DoesEmailMatch(c)
  <2>1. /\ thread[c].pc = "match" /\ missed' = missed
        /\ thread[c].kind = "mailCode"
        /\ UNCHANGED <<users, chosen, waiting, pageVars>>
        /\ \/ /\ MailOf(users, thread[c].name) = thread[c].mail
              /\ Goto(c, "script")
           \/ Answer(c, "invalidUser")
    BY <1>6, <1>k DEF DoesEmailMatch, At, KindOK, serverVars, clientVars
  <2>2. CASE Answer(c, "invalidUser")
    BY <2>1, <2>2, AnswerStands DEF Replying, Result
  <2>3. CASE /\ MailOf(users, thread[c].name) = thread[c].mail
             /\ Goto(c, "script")
    <3>1. ASSUME waiting[c]
          PROVE  /\ HasRow(users, thread[c].name)
                 /\ thread[c].name \in missed \/ Owns(c, thread[c].name)
      <4>1. /\ thread[c].name \in User /\ thread[c].mail \in Mail
            /\ <<thread[c].name, thread[c].mail>> \in Identity[c]
        BY <1>a, <2>1, <3>1 DEF Asker
      <4>2. HasRow(users, thread[c].name)
        BY <2>3, <4>1, FoundMail, AccountAssumption
      <4> QED  BY <2>3, <4>1, <4>2 DEF StandsInv, Kept, Owns, Sure
    <3> QED  BY <2>1, <2>3, <3>1, GotoStands DEF Replying, Pc
  <2> QED  BY <2>1, <2>2, <2>3
<1>7. CASE PrintsNull(c)
  <2>1. thread' = [thread EXCEPT ![c] = thread[c]]
    BY <1>7 DEF PrintsNull, TypeOK
  <2>2. UNCHANGED <<users, chosen, waiting, pageVars>> /\ missed' = missed
    BY <1>7 DEF PrintsNull, clientVars, ghostVars
  <2> QED  BY <2>1, <2>2, ThreadStands
<1>8. CASE RunScript(c)
  <2>1. /\ thread[c].pc = "script" /\ missed' = missed
        /\ thread[c].kind \in {"signup", "mailCode"}
        /\ UNCHANGED <<users, chosen, waiting, pageVars>>
    BY <1>8, <1>k DEF RunScript, At, KindOK, serverVars, ghostVars
  <2>2. CASE Answer(c, "correct")
    BY <2>1, <2>2, AnswerStands DEF Replying, Result
  <2>3. CASE \E k \in Code :
            thread' = [thread EXCEPT ![c].pc = "store", ![c].code = k]
    <3>1. PICK k \in Code :
              thread' = [thread EXCEPT ![c].pc = "store", ![c].code = k]
      BY <2>3
    <3> DEFINE t == [thread[c] EXCEPT !.pc = "store", !.code = k]
    <3>2. /\ t.pc = "store" /\ t.kind = thread[c].kind
          /\ t.name = thread[c].name /\ t.mail = thread[c].mail
          /\ t.password = thread[c].password
          /\ thread' = [thread EXCEPT ![c] = t]
      BY <1>t, <3>1 DEF Thread, TypeOK
    <3> HIDE DEF t
    <3>3. \A u \in User : Due(t, u) <=> Due(thread[c], u)
      BY <2>1, <3>2 DEF Due, Replying
    <3>4. Passed(t) => Passed(thread[c])
      BY <2>1, <3>2 DEF Passed, Replying
    <3> QED  BY <2>1, <3>2, <3>3, <3>4, ThreadStands
  <2> QED  BY <1>8, <2>2, <2>3 DEF RunScript
<1>9. CASE StoreCode(c)
  <2>1. /\ thread[c].pc = "store" /\ missed' = missed
        /\ thread[c].kind \in {"signup", "mailCode"}
        /\ UNCHANGED <<users, chosen, waiting, pageVars>>
        /\ Answer(c, "correct")
    BY <1>9, <1>k DEF StoreCode, At, KindOK, clientVars
  <2> QED  BY <2>1, AnswerStands DEF Replying, Result
<1>10. CASE IsCodeCorrect(c)
  <2>1. /\ thread[c].pc = "code" /\ missed' = missed
        /\ thread[c].kind \in {"check", "newPass"}
        /\ UNCHANGED <<users, chosen, waiting, pageVars>>
        /\ Goto(c, "insert") \/ Goto(c, "change") \/ Answer(c, "incorrectPass")
    BY <1>10, <1>k DEF IsCodeCorrect, At, KindOK, serverVars, clientVars,
       ghostVars
  <2> QED  BY <2>1, GotoStands, AnswerStands DEF Replying, Pc, Result
<1>11. CASE AddNewUser(c)
  BY <1>11, AddStands
<1>12. CASE ChangePassword(c)
  BY <1>12, ChangeStands
<1>13. CASE AddClientAddress(c)
  <2>1. /\ thread[c].pc = "address" /\ missed' = missed
        /\ thread[c].kind = "login"
        /\ UNCHANGED <<users, chosen, waiting, pageVars>>
        /\ Answer(c, "correct")
    BY <1>13, <1>k DEF AddClientAddress, At, KindOK, clientVars, ghostVars
  <2> QED  BY <2>1, AnswerStands DEF Replying, Result
<1>14. CASE SendResponse(c)
  <2>1. /\ thread[c].pc = "answer" /\ missed' = missed
        /\ UNCHANGED <<users, chosen, waiting, pageVars>>
        /\ Goto(c, "done")
    BY <1>14 DEF SendResponse, At, serverVars, ghostVars
  <2> QED  BY <2>1, GotoStands DEF Replying, Pc
<1> QED  BY <1>1, <1>2, <1>3, <1>4, <1>5, <1>6, <1>7, <1>8, <1>9, <1>10,
            <1>11, <1>12, <1>13, <1>14 DEF Handle

\* A program whose request was no login gets the answer to it.
LEMMA OwnAnswer ==
    ASSUME TypeOK, AccountInv, NEW c \in Program, NEW kind, Read(c, kind),
           kind # "login"
    PROVE  thread[c].pc = "done" /\ Reply(c) = thread[c].result
<1>1. answers[c] = <<thread[c].result>> /\ thread[c].pc = "done"
  BY DEF AccountInv, Session, In, Read
<1> QED  BY <1>1 DEF Reply

\* The pages that get an answer.
LEMMA AnsweredStands ==
    ASSUME TypeOK, AccountInv, StandsInv, OneOwner, NEW c \in Program,
           Answered(c)
    PROVE  StandsInv'
<1>0. Mine(c) /\ Fields(c)
  BY DEF StandsInv, Mine
<1>1. PICK kind \in Kind :
          /\ Read(c, kind)
          /\ kind = "login" => LoginAnswered(c)
          /\ kind = "signup" => SignupAnswered(c)
          /\ kind = "mailCode" => RecoveryAnswered(c)
          /\ kind = "check" => VerificationAnswered(c)
          /\ kind = "newPass" => NewPasswordAnswered(c)
  BY DEF Answered, LoginAnswered, SignupAnswered, RecoveryAnswered,
         VerificationAnswered, NewPasswordAnswered, Kind
<1>2. /\ waiting[c] /\ ~waiting'[c] /\ thread[c].kind = kind /\ Asker(c)
      /\ users' = users /\ missed' = missed
      /\ \A d \in Program \ {c} :
             thread'[d] = thread[d] /\ waiting'[d] = waiting[d]
  BY <1>0, <1>1 DEF Read, TypeOK, Mine, serverVars
<1>3. /\ Onward /\ Sure' = Sure
      /\ \A u \in Sure : PasswordOf(users', u) = PasswordOf(users, u)
  BY <1>2 DEF Onward, Sure
<1>4. \A d \in Program \ {c}, u \in User :
          /\ Told(d, u)' <=> Told(d, u)
          /\ Told(d, u) => thread'[d].password = thread[d].password
  BY <1>2 DEF Told
<1>5. \A u \in User : ~Told(c, u)'
  BY <1>2 DEF Told
<1>6. ASSUME Fields(c)', \A u \in Sure : Stands(u)',
             \A d \in Program \ {c} :
                 /\ verification'[d] = verification[d]
                 /\ newPassword'[d] = newPassword[d]
      PROVE  StandsInv'
  <2>1. Mine(c)'
    BY <1>2, <1>6 DEF Mine
  <2> QED  BY <1>2, <1>3, <1>6, <2>1, StandsStep
<1>7. ASSUME NEW u \in Sure, ~Told(c, u), chosen'[u] = chosen[u]
      PROVE  Stands(u)'
  <2>1. \A d \in Program : /\ Told(d, u)' <=> Told(d, u)
                           /\ Told(d, u) =>
                                  thread'[d].password = thread[d].password
    BY <1>4, <1>5, <1>7 DEF Sure
  <2> QED  BY <1>2, <1>3, <1>7, <2>1, StandsQuietly
<1>8. ASSUME kind \notin {"check", "newPass"}, chosen' = chosen
      PROVE  \A u \in Sure : Stands(u)'
  BY <1>2, <1>7, <1>8 DEF Told, Due
<1>9. CASE kind = "login"
  <2>1. LoginAnswered(c) /\ chosen' = chosen
        /\ UNCHANGED <<verification, newPassword>>
    BY <1>1, <1>9 DEF LoginAnswered
  <2>2. Fields(c)'
    BY <1>0, <1>2, <1>3, <2>1 DEF Fields
  <2> QED  BY <1>6, <1>8, <1>9, <2>1, <2>2
<1>10. CASE kind = "signup"
  <2>1. SignupAnswered(c) /\ chosen' = chosen /\ newPassword' = newPassword
    BY <1>1, <1>10 DEF SignupAnswered
  <2>2. CASE Reply(c) = "correct"
    <3> DEFINE v == [action |-> "signup", name |-> thread[c].name,
                     password |-> thread[c].password, mail |-> thread[c].mail]
    <3>1. /\ verification' = [verification EXCEPT ![c] = v]
          /\ v.action = "signup" /\ v.name = thread[c].name
      BY <2>1, <2>2 DEF SignupAnswered
    <3> HIDE DEF v
    <3>2. /\ verification'[c] = v
          /\ \A d \in Program \ {c} : verification'[d] = verification[d]
      BY <3>1 DEF TypeOK
    <3>3. Passed(thread[c])
      BY <1>1, <1>2, <1>10, <2>2, OwnAnswer DEF Passed, Replying
    <3>4. Fields(c)'
      BY <1>0, <1>2, <1>3, <1>10, <2>1, <3>1, <3>2, <3>3 DEF Fields, Asker
    <3> QED  BY <1>6, <1>8, <1>10, <2>1, <3>2, <3>4
  <2>3. CASE Reply(c) # "correct"
    <3>1. verification' = verification
      BY <2>1, <2>3 DEF SignupAnswered
    <3>2. Fields(c)'
      BY <1>0, <1>2, <1>3, <2>1, <3>1 DEF Fields
    <3> QED  BY <1>6, <1>8, <1>10, <2>1, <3>1, <3>2
  <2> QED  BY <2>2, <2>3
<1>11. CASE kind = "mailCode"
  <2>1. RecoveryAnswered(c) /\ chosen' = chosen
    BY <1>1, <1>11 DEF RecoveryAnswered
  <2>2. CASE Reply(c) \notin {"noEmail", "invalidUser"}
    <3>1. /\ verification' = [verification EXCEPT
                 ![c].action = "recovery", ![c].mail = thread[c].mail]
          /\ newPassword' = [newPassword EXCEPT
                 ![c].name = thread[c].name, ![c].mail = thread[c].mail]
      BY <2>1, <2>2 DEF RecoveryAnswered
    <3>2. /\ verification'[c].name = verification[c].name
          /\ newPassword'[c].name = thread[c].name
          /\ \A d \in Program \ {c} :
                 /\ verification'[d] = verification[d]
                 /\ newPassword'[d] = newPassword[d]
      BY <3>1 DEF TypeOK, Verification, NewPassword
    <3>3. Passed(thread[c])
      BY <1>1, <1>2, <1>11, <2>2, OwnAnswer DEF Passed, Replying
    <3>4. Fields(c)'
      BY <1>0, <1>2, <1>3, <1>11, <3>2, <3>3 DEF Fields, Asker
    <3> QED  BY <1>6, <1>8, <1>11, <2>1, <3>2, <3>4
  <2>3. CASE Reply(c) \in {"noEmail", "invalidUser"}
    <3>1. UNCHANGED <<verification, newPassword>>
      BY <2>1, <2>3 DEF RecoveryAnswered
    <3>2. Fields(c)'
      BY <1>0, <1>2, <1>3, <3>1 DEF Fields
    <3> QED  BY <1>6, <1>8, <1>11, <2>1, <3>1, <3>2
  <2> QED  BY <2>2, <2>3
<1>b. ASSUME kind \in {"check", "newPass"}
      PROVE  /\ Passed(thread[c])
             /\ \A u \in User : Told(c, u) <=>
                    thread[c].name = u /\ Reply(c) = "correct"
  BY <1>b, <1>1, <1>2, OwnAnswer DEF Passed, Told, Due, Replying
<1>c. ASSUME kind \in {"check", "newPass"}, Reply(c) = "correct",
             NEW u \in Sure, u = thread[c].name,
             chosen'[u] = thread[c].password
      PROVE  Stands(u)'
  <2>1. Told(c, u) /\ Owns(c, u) /\ u \in User
    BY <1>b, <1>c, <1>2 DEF Asker, New, Owns, Sure
  <2>2. PasswordOf(users, u) = thread[c].password
    BY <2>1 DEF StandsInv, Stands
  <2>3. \A d \in Program : ~Told(d, u)'
    BY <1>4, <1>5, <2>1, OneTold
  <2> QED  BY <1>2, <1>c, <2>2, <2>3 DEF Stands
<1>12. CASE kind = "check"
  <2>1. VerificationAnswered(c) /\ verification' = verification
    BY <1>1, <1>12 DEF VerificationAnswered
  <2>2. /\ thread[c].name = verification[c].name
        /\ thread[c].password = verification[c].password
    BY <1>2, <1>12 DEF Asker
  <2>3. CASE /\ Reply(c) = "correct" /\ newPassword' = newPassword
             /\ chosen' = [u \in User |-> IF u = verification[c].name
                                          THEN verification[c].password
                                          ELSE chosen[u]]
    <3>1. Fields(c)'
      BY <1>0, <1>2, <1>3, <2>1, <2>3 DEF Fields
    <3>2. ASSUME NEW u \in Sure PROVE Stands(u)'
      <4>1. u \in User
        BY DEF Sure
      <4> QED  BY <1>7, <1>b, <1>c, <1>12, <2>2, <2>3, <4>1
    <3> QED  BY <1>6, <2>1, <2>3, <3>1, <3>2
  <2>4. CASE /\ verification[c].action = "recovery" /\ chosen' = chosen
             /\ newPassword' = [newPassword EXCEPT ![c].code = thread[c].code]
    <3>1. /\ newPassword'[c].name = newPassword[c].name
          /\ \A d \in Program \ {c} : newPassword'[d] = newPassword[d]
      BY <2>4 DEF TypeOK, NewPassword
    <3>2. Fields(c)'
      BY <1>0, <1>2, <1>3, <2>1, <3>1 DEF Fields
    <3>3. ASSUME NEW u \in Sure PROVE Stands(u)'
      <4>1. u \in User /\ thread[c].name = Empty
        BY <1>0, <2>2, <2>4 DEF Fields, Sure
      <4>2. u # thread[c].name
        BY <4>1, AccountAssumption
      <4> QED  BY <1>7, <1>b, <1>12, <2>4, <4>1, <4>2
    <3> QED  BY <1>6, <2>1, <3>1, <3>2, <3>3
  <2>5. CASE Reply(c) # "correct" /\ UNCHANGED <<newPassword, chosen>>
    <3>1. Fields(c)'
      BY <1>0, <1>2, <1>3, <2>1, <2>5 DEF Fields
    <3>2. \A u \in Sure : Stands(u)'
      BY <1>7, <1>b, <1>12, <2>5 DEF Sure
    <3> QED  BY <1>6, <2>1, <2>5, <3>1, <3>2
  <2> QED  BY <2>1, <2>3, <2>4, <2>5 DEF VerificationAnswered
<1>13. CASE kind = "newPass"
  <2>1. NewPasswordAnswered(c) /\ UNCHANGED <<verification, newPassword>>
    BY <1>1, <1>13 DEF NewPasswordAnswered
  <2>2. Fields(c)'
    BY <1>0, <1>2, <1>3, <2>1 DEF Fields
  <2>3. ASSUME NEW u \in Sure PROVE Stands(u)'
    <3>1. u \in User
      BY DEF Sure
    <3>2. CASE Reply(c) = "correct"
      <4>1. chosen'[u] = IF u = thread[c].name THEN thread[c].password
                                               ELSE chosen[u]
        BY <2>1, <3>1, <3>2 DEF NewPasswordAnswered
      <4> QED  BY <1>7, <1>b, <1>c, <1>13, <3>1, <3>2, <4>1
    <3>3. CASE Reply(c) # "correct"
      <4>1. chosen' = chosen
        BY <2>1, <3>3 DEF NewPasswordAnswered
      <4> QED  BY <1>7, <1>b, <1>13, <3>1, <3>3, <4>1
    <3> QED  BY <3>2, <3>3
  <2> QED  BY <1>6, <2>1, <2>2, <2>3
<1> QED  BY <1>9, <1>10, <1>11, <1>12, <1>13 DEF Kind

\* A request starts with what its page knows.
LEMMA RequestStands ==
    ASSUME TypeOK, StandsInv, NEW c \in Program, NEW kind, NEW name,
           NEW password, NEW mail, NEW code,
           Request(c, kind, name, password, mail, code),
           kind \in {"signup", "mailCode"} =>
               name \in User /\ mail \in Mail /\ <<name, mail>> \in Identity[c],
           kind = "mailCode" => verification[c].name = Empty,
           kind = "check" => /\ name = verification[c].name
                             /\ password = verification[c].password,
           kind = "newPass" => name = newPassword[c].name
    PROVE  StandsInv'
<1> DEFINE t == [pc |-> "open", kind |-> kind, name |-> name,
                 password |-> password, mail |-> mail, code |-> code,
                 result |-> "correct"]
<1>1. /\ t.pc = "open" /\ t.kind = kind /\ t.name = name
      /\ t.password = password /\ t.mail = mail
      /\ thread' = [thread EXCEPT ![c] = t]
  BY DEF Request
<1> HIDE DEF t
<1>2. /\ ~waiting[c] /\ thread'[c] = t
      /\ users' = users /\ missed' = missed /\ chosen' = chosen
      /\ verification' = verification /\ newPassword' = newPassword
      /\ \A d \in Program \ {c} :
             thread'[d] = thread[d] /\ waiting'[d] = waiting[d]
  BY <1>1 DEF Request, TypeOK, serverVars, pageVars
<1>3. Onward /\ Sure' = Sure /\ Fields(c)
  BY <1>2 DEF Onward, Sure, StandsInv, Mine
<1>4. Passed(t) <=> kind \in {"check", "newPass"}
  BY <1>1 DEF Passed, Replying
<1>5. Asker(c)'
  BY <1>1, <1>2, <1>3, <1>4 DEF Asker, Fields
<1>6. Fields(c)'
  BY <1>2, <1>3 DEF Fields
<1>7. ASSUME NEW u \in Sure' PROVE Stands(u)'
  <2>1. ~Told(c, u) /\ ~Told(c, u)'
    BY <1>1, <1>2 DEF Told, Due, Replying
  <2>2. \A d \in Program : /\ Told(d, u)' <=> Told(d, u)
                           /\ Told(d, u) =>
                                  thread'[d].password = thread[d].password
    BY <1>2, <2>1 DEF Told
  <2> QED  BY <1>2, <2>2, StandsQuietly
<1> QED  BY <1>2, <1>3, <1>5, <1>6, <1>7, StandsStep DEF Mine

\* What users do tells nobody.
LEMMA UseStands ==
    ASSUME TypeOK, StandsInv, OneOwner, NEW c \in Program, Use(c)
    PROVE  StandsInv'
<1>1. ASSUME NEW p \in Password, SendLogin(c, p) PROVE StandsInv'
  BY <1>1, RequestStands DEF SendLogin
<1>2. ASSUME NEW p \in Password, SendNewPassword(c, p) PROVE StandsInv'
  BY <1>2, RequestStands DEF SendNewPassword
<1>3. ASSUME NEW n \in User, NEW p \in Password, NEW m \in Mail,
             SendSignup(c, n, p, m)
      PROVE  StandsInv'
  BY <1>3, RequestStands DEF SendSignup
<1>4. ASSUME NEW n \in User, NEW m \in Mail, CheckEmail(c, n, m)
      PROVE  StandsInv'
  BY <1>4, RequestStands DEF CheckEmail, OneOwner
<1>5. ASSUME NEW k \in Num, CheckCode(c, k) PROVE StandsInv'
  BY <1>5, RequestStands DEF CheckCode
<1>6. ASSUME UNCHANGED <<users, thread, waiting, chosen, missed>>,
             Fields(c)',
             \A d \in Program \ {c} :
                 /\ verification'[d] = verification[d]
                 /\ newPassword'[d] = newPassword[d],
             ~waiting[c]
      PROVE  StandsInv'
  <2>1. Onward /\ Sure' = Sure /\ Mine(c)'
    BY <1>6 DEF Onward, Sure, Mine
  <2>2. ASSUME NEW u \in Sure' PROVE Stands(u)'
    BY <1>6, StandsQuietly DEF Told
  <2> QED  BY <1>6, <2>1, <2>2, StandsStep
<1>7. ASSUME NEW p \in Page, Click(c, p) PROVE StandsInv'
  <2>1. /\ UNCHANGED <<users, thread, waiting, chosen, missed, verification,
                       newPassword>>
        /\ ~waiting[c]
    BY <1>7 DEF Click, serverVars, ghostVars
  <2>2. Fields(c)'
    BY <2>1 DEF StandsInv, Mine, Fields, Sure
  <2> QED  BY <1>6, <2>1, <2>2
<1>8. CASE Restart(c)
  <2>1. /\ UNCHANGED <<users, thread, waiting, chosen, missed>>
        /\ ~waiting[c]
        /\ verification' = [verification EXCEPT ![c] = NoVerification]
        /\ newPassword' = [newPassword EXCEPT ![c] = NoNewPassword]
    BY <1>8 DEF Restart, ghostVars
  <2>2. /\ verification'[c] = NoVerification /\ newPassword'[c] = NoNewPassword
        /\ \A d \in Program \ {c} :
               /\ verification'[d] = verification[d]
               /\ newPassword'[d] = newPassword[d]
    BY <2>1 DEF TypeOK
  <2>3. NoVerification.name = Empty /\ NoNewPassword.name = Empty
    BY DEF NoVerification, NoNewPassword
  <2>4. Fields(c)'
    BY <2>2, <2>3, AccountAssumption DEF Fields, Sure
  <2> QED  BY <1>6, <2>1, <2>2, <2>4
<1> QED  BY <1>1, <1>2, <1>3, <1>4, <1>5, <1>7, <1>8 DEF Use

\* In the beginning everybody knows the password of the table.
LEMMA InitStands == Init => StandsInv
<1> SUFFICES ASSUME Init PROVE StandsInv
  OBVIOUS
<1>1. ASSUME NEW c \in Program PROVE Mine(c)
  <2>1. /\ NoVerification.name = Empty /\ NoNewPassword.name = Empty
        /\ verification[c] = NoVerification /\ newPassword[c] = NoNewPassword
        /\ ~waiting[c]
    BY DEF Init, NoVerification, NoNewPassword
  <2> QED  BY <2>1, AccountAssumption DEF Mine, Fields, Sure
<1>2. \A u \in User : Kept(u)
  BY DEF Init, Kept
<1>3. ASSUME NEW u \in Sure PROVE Stands(u)
  <2>1. u \in User /\ chosen[u] = PasswordOf(users, u)
    BY DEF Init, Sure
  <2>2. \A c \in Program : ~Told(c, u)
    BY DEF Init, Told
  <2> QED  BY <2>1, <2>2 DEF Stands
<1> QED  BY <1>1, <1>2, <1>3 DEF StandsInv

\* Every step keeps what a user was told.
LEMMA StepStands ==
    OneOwner /\ TypeOK /\ AccountInv /\ StandsInv /\ [Next]_vars => StandsInv'
<1> SUFFICES ASSUME OneOwner, TypeOK, AccountInv, StandsInv, [Next]_vars
             PROVE  StandsInv'
  OBVIOUS
<1>1. CASE UNCHANGED vars
  <2>1. UNCHANGED <<users, thread, waiting, chosen, missed, verification,
                    newPassword>>
    BY <1>1 DEF vars, serverVars, clientVars, ghostVars, pageVars
  <2>2. ASSUME NEW d \in Program PROVE Mine(d)'
    BY <2>1, MineStays DEF Onward, StandsInv
  <2>3. \A u \in User : Kept(u)'
    BY <2>1 DEF Kept, Sure, StandsInv
  <2>4. \A u \in Sure' : Stands(u)'
    BY <2>1, StandsQuietly DEF Told
  <2> QED  BY <2>2, <2>3, <2>4 DEF StandsInv
<1>2. CASE Next
  BY <1>2, HandleStands, AnsweredStands, UseStands DEF Next
<1> QED  BY <1>1, <1>2

\* What a user was last told to be the password is what a login compares with,
\* for every number of users, programs and requests and every interleaving of
\* the request threads, whether or not the mail script fails, provided that a
\* name is used by the user of one program and that no program is used for a
\* recovery after a sign-up.  Without either, two requests of one name may be
\* under way, or the verification page adds the row of the sign-up again.
THEOREM PasswordsStand == OneOwner => (Spec => []PasswordStands)
<1> SUFFICES ASSUME OneOwner PROVE Spec => []PasswordStands
  OBVIOUS
<1>1. Init => TypeOK /\ AccountInv /\ StandsInv
  BY InitType, InitInv, InitStands
<1>2. TypeOK /\ AccountInv /\ StandsInv /\ [Next]_vars
          => (TypeOK /\ AccountInv /\ StandsInv)'
  BY StepType, StepInv, StepStands
<1>3. ASSUME StandsInv PROVE PasswordStands
  <2> SUFFICES ASSUME NEW u \in User, u \notin missed,
                      \A c \in Program : ~(/\ waiting[c]
                                           /\ thread[c].kind \in
                                                  {"check", "newPass"}
                                           /\ thread[c].name = u)
               PROVE  chosen[u] = PasswordOf(users, u)
    BY DEF PasswordStands
  <2>1. \A c \in Program : ~Told(c, u)
    BY DEF Told, Due
  <2> QED  BY <1>3, <2>1 DEF StandsInv, Stands, Sure
<1> QED  BY <1>1, <1>2, <1>3, PTL DEF Spec
=============================================================================
