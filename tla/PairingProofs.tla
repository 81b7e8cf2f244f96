----------------------------- MODULE PairingProofs -----------------------------
(***************************************************************************)
(* What a session that is set up is worth, proved for any number of users  *)
(* and programs: of two programs that are each other's peers one is host,  *)
(* if invitations keep away from the server's test-and-set; and no program *)
(* ends in the middle of it, if each user has one account and one program, *)
(* invites once and hears the server first.                                *)
(*                                                                         *)
(* The first rests on the flag of the server, which lets one thread pass   *)
(* in the whole life of the process: what has been told to whom never      *)
(* exceeds what that thread has told.  The second follows a program from   *)
(* its login on and says what can be in its socket at each page.           *)
(***************************************************************************)
EXTENDS SessionSetupProofs

\* What is assumed of the users for the first: no two invitations are in the
\* test-and-set at once, and nobody invites the account it is logged in with.
Patient == /\ Spaced
           /\ \A c \in Program, v \in User :
                  <<Owner[c], v>> \in Invitations => v # Account(c)

\* And for the second: every user has an account and a program, invites once,
\* and what the server sends arrives, before what the programs send.
Orderly == /\ TestAccount = NoUser
           /\ \A c, d \in Program : Owner[c] = Owner[d] => c = d
           /\ ~Reinvite
           /\ PromptServer
           /\ ~Lossy

-----------------------------------------------------------------------------
(* Queues.                                                                 *)

Has(q, x) == \E i \in 1 .. Len(q) : q[i] = x

IsInfo(x) == x.kind = "info"

\* No address is in a queue that has not been there.
NoNews == \A f \in Sender, c \in Program, x \in Datagram :
              Has(net'[f][c], x) /\ IsInfo(x) => Has(net[f][c], x)

\* What is in a queue made of two is in one of them.
LEMMA HasConcat ==
    ASSUME NEW q \in Seq(Datagram), NEW r \in Seq(Datagram), NEW x,
           Has(q \o r, x)
    PROVE  Has(q, x) \/ Has(r, x)
<1>1. PICK i \in 1 .. Len(q \o r) : (q \o r)[i] = x
    BY DEF Has
<1>2. CASE i <= Len(q)
    <2>1. i \in 1 .. Len(q) /\ q[i] = x
        BY <1>1, <1>2
    <2> QED
        BY <2>1 DEF Has
<1>3. CASE i > Len(q)
    <2>1. i - Len(q) \in 1 .. Len(r) /\ r[i - Len(q)] = x
        BY <1>1, <1>3, SecondPart
    <2> QED
        BY <2>1 DEF Has
<1> QED
    BY <1>1, <1>2, <1>3

\* A queue that one datagram joins holds that one and those it held.
LEMMA HasJoined ==
    ASSUME NEW q \in Seq(Datagram), NEW d \in Datagram
    PROVE  /\ q \o <<d>> # <<>>
           /\ Len(q \o <<d>>) = Len(q) + 1
           /\ \A x : Has(q \o <<d>>, x) => Has(q, x) \/ x = d
<1>1. ASSUME NEW x, Has(q \o <<d>>, x)
      PROVE  Has(q, x) \/ x = d
    <2>1. <<d>> \in Seq(Datagram)
        OBVIOUS
    <2>2. Has(q, x) \/ Has(<<d>>, x)
        BY <1>1, <2>1, HasConcat
    <2> QED
        BY <2>2 DEF Has
<1>2. Len(q \o <<d>>) = Len(q) + 1 /\ Len(q) \in Nat
    OBVIOUS
<1>3. q \o <<d>> # <<>>
    BY <1>2
<1> QED
    BY <1>1, <1>2, <1>3

\* The first of a queue is in it, and the others stay.
LEMMA HasTaken ==
    ASSUME NEW q \in Seq(Datagram), q # <<>>
    PROVE  /\ Head(q) \in Datagram /\ Has(q, Head(q))
           /\ \A x : Has(Tail(q), x) => Has(q, x)
           /\ Len(q) <= 1 => Tail(q) = <<>>
<1>1. Len(q) \in Nat /\ Len(q) >= 1 /\ Head(q) = q[1] /\ 1 \in 1 .. Len(q)
    OBVIOUS
<1>2. ASSUME NEW x, Has(Tail(q), x)
      PROVE  Has(q, x)
    <2>1. PICK i \in 1 .. Len(Tail(q)) : Tail(q)[i] = x
        BY <1>2 DEF Has
    <2>2. i + 1 \in 1 .. Len(q) /\ q[i + 1] = x
        BY <2>1, <1>1
    <2> QED
        BY <2>2 DEF Has
<1>3. Len(q) <= 1 => Tail(q) = <<>>
    BY <1>1
<1>4. Has(q, Head(q)) /\ Head(q) \in Datagram
    BY <1>1 DEF Has
<1> QED
    BY <1>2, <1>3, <1>4

\* An empty queue holds nothing.
LEMMA HasNothing == \A x : ~Has(<<>>, x)
BY DEF Has

-----------------------------------------------------------------------------
(* What the steps do to the queues.                                        *)

\* What a thread of the server sends joins one queue, and no other changes.
LEMMA ServerSends ==
    ASSUME net \in Net, NEW c, NEW d \in Datagram,
           net' = Sent(Server, c, <<d>>)
    PROVE  /\ net' \in Net
           /\ \A g \in Sender, e \in Program :
                  net'[g][e] = IF g = Server /\ e = c /\ Running(c)
                               THEN net[g][e] \o <<d>> ELSE net[g][e]
<1>1. <<d>> \in Seq(Datagram) /\ Server \in Sender
    BY DEF Sender
<1>2. net' \in Net
    BY <1>1, SentType
<1> QED
    BY <1>1, <1>2 DEF Sent, Net

\* A program takes one datagram from one queue.
LEMMA OneTaken ==
    ASSUME net \in Net, NEW f \in Sender, NEW c \in Program,
           net[f][c] # <<>>, net' = Taken(f, c)
    PROVE  \A g \in Sender, e \in Program :
               net'[g][e] = IF g = f /\ e = c
                            THEN Tail(net[f][c]) ELSE net[g][e]
BY DEF Taken, Net

\* The socket of a program is gone, with what was in it.
LEMMA SocketGone ==
    ASSUME net \in Net, NEW c \in Program,
           net' = [g \in Program \cup {Server} |-> [net[g] EXCEPT ![c] = <<>>]]
    PROVE  \A g \in Sender, e \in Program :
               net'[g][e] = IF e = c THEN <<>> ELSE net[g][e]
BY DEF Net, Sender

\* A program that is told an address takes it, and sends its peer datagrams
\* without one.
LEMMA ConnectQueues ==
    ASSUME net \in Net, NEW f \in Sender, NEW c \in Program, Connect(f, c)
    PROVE  LET p == Head(net[f][c]).peer
           IN  /\ Head(net[f][c]) \in Datagram /\ p \in Program \cup {NoProgram}
               /\ \A g \in Sender, e \in Program :
                      ~(g = f /\ e = c) /\ ~(g = c /\ e = p) =>
                          net'[g][e] = net[g][e]
               /\ NoNews
<1> DEFINE p  == Head(net[f][c]).peer
           ds == IF hostFlag[c] /\ Head(net[f][c]).host
                 THEN <<Plain("greeting"), Plain("id"), Plain("files")>>
                 ELSE <<Plain("greeting")>>
           rest == Taken(f, c)
<1>0. net[f][c] # <<>> /\ net[f][c] \in Seq(Datagram) /\ c \in Sender
    BY DEF Connect, Arrives, Net, Sender
<1>1. Head(net[f][c]) \in Datagram /\ p \in Program \cup {NoProgram}
    <2>1. Head(net[f][c]) \in Datagram
        BY <1>0, HasTaken
    <2> QED
        BY <2>1 DEF Datagram
<1>2. rest \in Net
    BY <1>0, TakenType
<1>3. net' = IF p \in Program /\ Running(p)
             THEN [rest EXCEPT ![c][p] = @ \o ds] ELSE rest
    BY DEF Connect
<1>4. ds \in Seq(Datagram) /\ \A x : Has(ds, x) => ~IsInfo(x)
    <2>1. \A k \in {"greeting", "id", "files"} :
              Plain(k) \in Datagram /\ ~IsInfo(Plain(k))
        BY DEF Plain, IsInfo, Datagram
    <2> QED
        BY <2>1 DEF Has
<1>5. \A g \in Sender, e \in Program :
          rest[g][e] = IF g = f /\ e = c THEN Tail(net[f][c]) ELSE net[g][e]
    BY <1>0 DEF Taken, Net
<1> HIDE DEF p, ds, rest
<1>6. \A g \in Sender, e \in Program :
          /\ rest[g][e] \in Seq(Datagram)
          /\ net'[g][e] = rest[g][e]
             \/ (g = c /\ e = p /\ net'[g][e] = rest[g][e] \o ds)
    BY <1>0, <1>2, <1>3 DEF Net
<1>7. \A g \in Sender, e \in Program :
          ~(g = f /\ e = c) /\ ~(g = c /\ e = p) => net'[g][e] = net[g][e]
    BY <1>5, <1>6
<1>8. ASSUME NEW g \in Sender, NEW e \in Program, NEW x \in Datagram,
             Has(net'[g][e], x), IsInfo(x)
      PROVE  Has(net[g][e], x)
    <2>1. Has(rest[g][e], x)
        BY <1>4, <1>6, <1>8, HasConcat
    <2> QED
        BY <1>0, <1>5, <2>1, HasTaken
<1>9. NoNews
    BY <1>8 DEF NoNews
<1> QED
    BY <1>1, <1>7, <1>9 DEF p

-----------------------------------------------------------------------------
(* One host, one member.                                                   *)

Testing == {"invite", "flag", "claim"}
Waiting == {"mine", "theirs", "first"}

\* Threads at these places of enterSession, and what they know of the flag.
FlagInv ==
    /\ \A n, m \in 1 .. Len(handlers) :
           handlers[n].pc \in Testing /\ handlers[m].pc \in Testing => n = m
    /\ \A n, m \in 1 .. Len(handlers) :
           /\ handlers[n].pc \in Waiting \cup {"second"}
           /\ handlers[m].pc \in Waiting \cup {"second"}
           => n = m
    /\ \A n \in 1 .. Len(handlers) :
           /\ handlers[n].pc = "claim" => infoExchangeFlag
           /\ handlers[n].pc \in Waiting \cup {"second"} => ~infoExchangeFlag

\* An address is on its way to c, as host or as member.
Brings(c, b) == \E f \in Sender, x \in Datagram :
                    Has(net[f][c], x) /\ IsInfo(x) /\ x.host = b

\* c has been made host (b) or member (~b), or is about to be.
Told(c, b) ==
    \/ Brings(c, b)
    \/ b /\ peer[c] # NoProgram /\ hostFlag[c]
    \/ ~b /\ ~hostFlag[c]

\* Nobody is told anything before a thread is done with its waiting, nothing
\* but one program that it is host while that thread sends, and in the end
\* at most one program that it is host and another that it is member.
ToldInv ==
    /\ \A c \in Program, b \in BOOLEAN : Told(c, b) =>
           /\ ~infoExchangeFlag
           /\ \A n \in 1 .. Len(handlers) :
                  /\ handlers[n].pc \notin Waiting
                  /\ handlers[n].pc = "second" => b /\ handlers[n].told = c
    /\ \A c, d \in Program, b, e \in BOOLEAN :
           Told(c, b) /\ Told(d, e) => (c = d <=> b = e)

\* Nobody has invited the account it is logged in with.
NoSelf == \A u \in User : <<u, u>> \notin asked

RolesInv == FlagInv /\ ToldInv /\ NoSelf

-----------------------------------------------------------------------------

\* At first no thread runs and nobody is told anything.
LEMMA InitRoles == Init => RolesInv
<1> SUFFICES ASSUME Init
             PROVE  RolesInv
    OBVIOUS
<1>1. FlagInv /\ NoSelf
    BY DEF Init, FlagInv, NoSelf
<1>2. \A c \in Program, b \in BOOLEAN : ~Told(c, b)
    BY HasNothing DEF Init, Told, Brings, Sender
<1> QED
    BY <1>1, <1>2 DEF RolesInv, ToldInv

\* A thread that goes on keeps what is known of the flag if its next place
\* is one it may go to.
LEMMA GotoFlag ==
    ASSUME TypeOK, FlagInv, NEW n \in 1 .. Len(handlers),
           Len(handlers') = Len(handlers),
           \A m \in 1 .. Len(handlers) : m # n => handlers'[m] = handlers[m],
           infoExchangeFlag' = (infoExchangeFlag /\ handlers[n].pc # "claim"),
           handlers'[n].pc \in Testing =>
               handlers[n].pc \in Testing \ {"claim"},
           handlers'[n].pc = "claim" => infoExchangeFlag,
           handlers'[n].pc \in Waiting \cup {"second"} =>
               handlers[n].pc \in Waiting \cup {"second", "claim"}
    PROVE  FlagInv'
<1>1. ASSUME NEW m \in 1 .. Len(handlers), NEW k \in 1 .. Len(handlers),
             handlers'[m].pc \in Testing, handlers'[k].pc \in Testing
      PROVE  m = k
    BY <1>1 DEF FlagInv
<1>2. ASSUME NEW m \in 1 .. Len(handlers), NEW k \in 1 .. Len(handlers),
             handlers'[m].pc \in Waiting \cup {"second"},
             handlers'[k].pc \in Waiting \cup {"second"}
      PROVE  m = k
    BY <1>2 DEF FlagInv
<1>3. ASSUME NEW m \in 1 .. Len(handlers), handlers'[m].pc = "claim"
      PROVE  infoExchangeFlag'
    <2>1. handlers[m].pc \in Testing /\ infoExchangeFlag
        BY <1>3 DEF FlagInv, Testing
    <2>2. handlers[n].pc # "claim"
        BY <1>3, <2>1 DEF FlagInv, Testing
    <2> QED
        BY <2>1, <2>2
<1>4. ASSUME NEW m \in 1 .. Len(handlers),
             handlers'[m].pc \in Waiting \cup {"second"}
      PROVE  ~infoExchangeFlag'
    BY <1>4 DEF FlagInv
<1> QED
    BY <1>1, <1>2, <1>3, <1>4 DEF FlagInv

\* A new thread keeps it if it is no invitation, or no other is being tested.
LEMMA RequestFlag ==
    ASSUME TypeOK, FlagInv, NEW c, NEW pc, NEW v, Request(c, pc, v),
           UNCHANGED infoExchangeFlag,
           pc \notin Waiting \cup {"second", "claim"},
           pc \in Testing =>
               \A n \in 1 .. Len(handlers) : handlers[n].pc \notin Testing
    PROVE  FlagInv'
<1>1. /\ Len(handlers) \in Nat
      /\ Len(handlers') = Len(handlers) + 1
      /\ \A m \in 1 .. Len(handlers) : handlers'[m] = handlers[m]
      /\ handlers'[Len(handlers) + 1].pc = pc
    BY DEF Request, TypeOK
<1>2. \A m \in 1 .. Len(handlers') :
          m \in 1 .. Len(handlers) \/ m = Len(handlers) + 1
    BY <1>1
<1>3. ASSUME NEW m \in 1 .. Len(handlers'), NEW k \in 1 .. Len(handlers'),
             handlers'[m].pc \in Testing, handlers'[k].pc \in Testing
      PROVE  m = k
    BY <1>1, <1>2, <1>3 DEF FlagInv
<1>4. ASSUME NEW m \in 1 .. Len(handlers'),
             handlers'[m].pc \in Waiting \cup {"second", "claim"}
      PROVE  m \in 1 .. Len(handlers) /\ handlers'[m] = handlers[m]
    BY <1>1, <1>2, <1>4
<1> QED
    BY <1>3, <1>4 DEF FlagInv

\* One invitation at a time is tested against the flag, and one passes ever.
LEMMA StepFlag ==
    ASSUME Spaced, TypeOK, FlagInv, [Next]_vars
    PROVE  FlagInv'
<1> USE DEF serverVars, clientVars
<1>1. ASSUME UNCHANGED <<handlers, infoExchangeFlag>>
      PROVE  FlagInv'
    BY <1>1 DEF FlagInv
<1>2. ASSUME NEW n \in 1 .. Len(handlers), Handle(n)
      PROVE  FlagInv'
    <2>0. handlers \in Seq(Handler) /\ handlers[n] \in Handler
              /\ infoExchangeFlag \in BOOLEAN
        BY DEF TypeOK
    <2>g. ASSUME NEW pc \in Pc, Goto(n, pc),
                 infoExchangeFlag' =
                     (infoExchangeFlag /\ handlers[n].pc # "claim"),
                 pc \in Testing => handlers[n].pc \in Testing \ {"claim"},
                 pc = "claim" => infoExchangeFlag,
                 pc \in Waiting \cup {"second"} =>
                     handlers[n].pc \in Waiting \cup {"second", "claim"}
          PROVE  FlagInv'
        <3>1. /\ Len(handlers') = Len(handlers)
              /\ handlers'[n] = [handlers[n] EXCEPT !.pc = pc]
              /\ \A m \in 1 .. Len(handlers) :
                     m # n => handlers'[m] = handlers[m]
            BY <2>0, <2>g, GotoType
        <3>2. handlers'[n].pc = pc
            BY <2>0, <3>1 DEF Handler
        <3> QED
            BY <2>g, <3>1, <3>2, GotoFlag
    <2>1. CASE AddClientAddress(n) \/ SendResponse(n) \/ EnterSession(n)
        BY <2>0, <2>1, <2>g
           DEF AddClientAddress, SendResponse, EnterSession, At, Pc, Testing,
               Waiting
    <2>2. CASE TestFlag(n)
        BY <2>0, <2>2, <2>g DEF TestFlag, At, Pc, Testing, Waiting
    <2>3. CASE ClearFlag(n)
        BY <2>0, <2>3, <2>g DEF ClearFlag, At, Pc, Testing, Waiting
    <2>4. CASE ReadMine(n) \/ TellSecond(n)
        BY <2>0, <2>4, <2>g
           DEF ReadMine, TellSecond, At, Pc, Testing, Waiting
    <2>5. CASE ReadTheirs(n)
        BY <2>0, <2>5, <2>g DEF ReadTheirs, At, Pc, Testing, Waiting
    <2>6. CASE TellFirst(n)
        <3>1. /\ Len(handlers') = Len(handlers)
              /\ handlers'[n].pc = "second"
              /\ \A m \in 1 .. Len(handlers) :
                     m # n => handlers'[m] = handlers[m]
            BY <2>0, <2>6 DEF TellFirst, Handler
        <3>2. handlers[n].pc = "first" /\ infoExchangeFlag' = infoExchangeFlag
            BY <2>6 DEF TellFirst, At
        <3> QED
            BY <2>0, <3>1, <3>2, GotoFlag DEF Testing, Waiting
    <2> QED
        BY <1>2, <2>1, <2>2, <2>3, <2>4, <2>5, <2>6 DEF Handle
<1>3. ASSUME NEW c \in Program, SendLogin(c)
      PROVE  FlagInv'
    BY <1>3, RequestFlag DEF SendLogin, Testing, Waiting
<1>4. ASSUME NEW c \in Program, NEW v \in User, SendInvite(c, v)
      PROVE  FlagInv'
    BY <1>4, RequestFlag DEF SendInvite, Testing, Waiting
<1>5. ASSUME NEW c \in Program, GetFiles(c) \/ Close(c)
      PROVE  FlagInv'
    BY <1>1, <1>5 DEF GetFiles, Close
<1>6. ASSUME NEW f \in Program \cup {Server}, NEW c \in Program,
             Receive(f, c) \/ Lose(f, c)
      PROVE  FlagInv'
    BY <1>1, <1>6 DEF Receive, LoginAnswered, Connect, Misread, Listen, Lose
<1> QED
    BY <1>1, <1>2, <1>3, <1>4, <1>5, <1>6 DEF Next, vars

\* Only an invitation is remembered, and none is of one's own account.
LEMMA StepNoSelf ==
    ASSUME Patient, NoSelf, [Next]_vars
    PROVE  NoSelf'
<1>1. ASSUME UNCHANGED asked
      PROVE  NoSelf'
    BY <1>1 DEF NoSelf
<1>2. ASSUME NEW c \in Program, NEW v \in User, SendInvite(c, v)
      PROVE  NoSelf'
    BY <1>2 DEF SendInvite, NoSelf, Patient
<1> QED
    BY <1>1, <1>2
       DEF Next, vars, Handle, AddClientAddress, SendResponse, EnterSession,
           TestFlag, ClearFlag, ReadMine, ReadTheirs, TellFirst, TellSecond,
           SendLogin, GetFiles, Close, Receive, LoginAnswered, Connect,
           Misread, Listen, Lose

\* Only what is told to a program, and what it takes, changes what it knows.
LEMMA Unsaid ==
    ASSUME NoNews, UNCHANGED <<peer, hostFlag>>,
           NEW c \in Program, NEW b \in BOOLEAN, Told(c, b)'
    PROVE  Told(c, b)
<1>1. Brings(c, b)' => Brings(c, b)
    BY DEF Brings, NoNews
<1> QED
    BY <1>1 DEF Told

\* Nothing new is told while no thread comes to tell it.
LEMMA QuietTold ==
    ASSUME FlagInv, ToldInv, infoExchangeFlag' => infoExchangeFlag,
           \A c \in Program, b \in BOOLEAN : Told(c, b)' => Told(c, b),
           \A n \in 1 .. Len(handlers') :
               /\ handlers'[n].pc \in Waiting =>
                      /\ n \in 1 .. Len(handlers)
                      /\ handlers[n].pc \in Waiting \cup {"claim"}
               /\ handlers'[n].pc = "second" =>
                      n \in 1 .. Len(handlers) /\ handlers'[n] = handlers[n]
    PROVE  ToldInv'
<1>1. ASSUME NEW c \in Program, NEW b \in BOOLEAN, Told(c, b)'
      PROVE  /\ ~infoExchangeFlag'
             /\ \A n \in 1 .. Len(handlers') :
                    /\ handlers'[n].pc \notin Waiting
                    /\ handlers'[n].pc = "second" =>
                           b /\ handlers'[n].told = c
    <2>1. Told(c, b)
        BY <1>1
    <2>2. /\ ~infoExchangeFlag
          /\ \A n \in 1 .. Len(handlers) :
                 /\ handlers[n].pc \notin Waiting
                 /\ handlers[n].pc = "second" => b /\ handlers[n].told = c
        BY <2>1 DEF ToldInv
    <2>3. \A n \in 1 .. Len(handlers) : handlers[n].pc # "claim"
        BY <2>2 DEF FlagInv
    <2> QED
        BY <2>2, <2>3
<1>2. ASSUME NEW c \in Program, NEW d \in Program,
             NEW b \in BOOLEAN, NEW e \in BOOLEAN, Told(c, b)', Told(d, e)'
      PROVE  c = d <=> b = e
    BY <1>2 DEF ToldInv
<1> QED
    BY <1>1, <1>2 DEF ToldInv

\* A thread that does not send an address, goes on as it may.
LEMMA GotoTold ==
    ASSUME TypeOK, FlagInv, ToldInv, NEW n \in 1 .. Len(handlers),
           NEW pc \in Pc, Goto(n, pc), infoExchangeFlag' => infoExchangeFlag,
           NoNews, UNCHANGED <<peer, hostFlag>>,
           pc # "second",
           pc \in Waiting => handlers[n].pc \in Waiting \cup {"claim"}
    PROVE  ToldInv'
<1>0. handlers \in Seq(Handler) /\ handlers[n] \in Handler
    BY DEF TypeOK
<1>1. /\ Len(handlers') = Len(handlers)
      /\ handlers'[n] = [handlers[n] EXCEPT !.pc = pc]
      /\ \A m \in 1 .. Len(handlers) : m # n => handlers'[m] = handlers[m]
    BY <1>0, GotoType
<1>2. handlers'[n].pc = pc
    BY <1>0, <1>1 DEF Handler
<1>3. \A c \in Program, b \in BOOLEAN : Told(c, b)' => Told(c, b)
    BY Unsaid
<1>4. \A m \in 1 .. Len(handlers') :
          /\ handlers'[m].pc \in Waiting =>
                 /\ m \in 1 .. Len(handlers)
                 /\ handlers[m].pc \in Waiting \cup {"claim"}
          /\ handlers'[m].pc = "second" =>
                 m \in 1 .. Len(handlers) /\ handlers'[m] = handlers[m]
    BY <1>1, <1>2
<1> QED
    BY <1>3, <1>4, QuietTold

\* Sending a datagram tells at most its receiver, and only what is in it.
LEMMA Sending ==
    ASSUME TypeOK, NEW c, NEW x \in Datagram, net' = Sent(Server, c, <<x>>),
           UNCHANGED <<peer, hostFlag>>
    PROVE  /\ ~IsInfo(x) => NoNews
           /\ \A d \in Program, b \in BOOLEAN :
                  Told(d, b)' => Told(d, b) \/ (d = c /\ x.host = b)
<1>1. net \in Net
    BY DEF TypeOK, Net, Sender
<1>2. ASSUME NEW g \in Sender, NEW d \in Program, NEW y, Has(net'[g][d], y)
      PROVE  Has(net[g][d], y) \/ (d = c /\ y = x)
    <2>1. net'[g][d] = net[g][d] \/ (d = c /\ net'[g][d] = net[g][d] \o <<x>>)
        BY <1>1, ServerSends
    <2>2. net[g][d] \in Seq(Datagram)
        BY <1>1 DEF Net
    <2> QED
        BY <1>2, <2>1, <2>2, HasJoined
<1>3. ASSUME NEW d \in Program, NEW b \in BOOLEAN, Brings(d, b)'
      PROVE  Brings(d, b) \/ (d = c /\ x.host = b)
    BY <1>2, <1>3 DEF Brings
<1>4. ~IsInfo(x) => NoNews
    BY <1>2 DEF NoNews
<1> QED
    BY <1>3, <1>4 DEF Told

\* The thread that has waited tells the first that it is host.
LEMMA FirstTold ==
    ASSUME TypeOK, NamesOK, FlagInv, ToldInv,
           NEW n \in 1 .. Len(handlers), TellFirst(n)
    PROVE  ToldInv'
<1> DEFINE mine == clientAddresses[handlers[n].current]
           x    == Info(clientAddresses[handlers[n].wanted], TRUE)
<1>0. handlers \in Seq(Handler) /\ handlers[n] \in Handler
    BY DEF TypeOK
<1>1. /\ net' = Sent(Server, mine, <<x>>) /\ UNCHANGED <<peer, hostFlag>>
      /\ infoExchangeFlag' = infoExchangeFlag
      /\ handlers[n].pc = "first"
    BY DEF TellFirst, At, clientVars, serverVars
<1>2. /\ Len(handlers') = Len(handlers)
      /\ handlers'[n].pc = "second" /\ handlers'[n].told = mine
      /\ \A m \in 1 .. Len(handlers) : m # n => handlers'[m] = handlers[m]
    BY <1>0 DEF TellFirst, Handler
<1>3. x \in Datagram /\ x.host = TRUE
    <2>1. handlers[n].wanted \in User
        BY <1>1 DEF NamesOK, Inviting
    <2> QED
        BY <2>1 DEF TypeOK, Info, Datagram
<1>4. \A c \in Program, b \in BOOLEAN : ~Told(c, b)
    BY <1>1 DEF ToldInv, Waiting
<1> HIDE DEF mine, x
<1>5. \A c \in Program, b \in BOOLEAN : Told(c, b)' => c = mine /\ b
    BY <1>1, <1>3, <1>4, Sending
<1>6. /\ ~infoExchangeFlag'
      /\ \A m \in 1 .. Len(handlers) :
             m # n => handlers[m].pc \notin Waiting \cup {"second"}
    BY <1>1 DEF FlagInv, Waiting
<1>7. \A m \in 1 .. Len(handlers') :
          /\ handlers'[m].pc \notin Waiting
          /\ handlers'[m].pc = "second" => handlers'[m].told = mine
    BY <1>2, <1>6 DEF Waiting
<1> QED
    BY <1>5, <1>6, <1>7 DEF ToldInv

\* And then the other that it is member: the two have different accounts.
LEMMA SecondTold ==
    ASSUME TypeOK, NamesOK, ConsentInv, FlagInv, ToldInv, NoSelf,
           NEW n \in 1 .. Len(handlers), TellSecond(n)
    PROVE  ToldInv'
<1> DEFINE theirs == clientAddresses[handlers[n].wanted]
           told   == handlers[n].told
           x      == Info(told, FALSE)
<1>0. handlers \in Seq(Handler) /\ handlers[n] \in Handler
    BY DEF TypeOK
<1>1. /\ net' = Sent(Server, theirs, <<x>>) /\ UNCHANGED <<peer, hostFlag>>
      /\ infoExchangeFlag' = infoExchangeFlag
      /\ handlers[n].pc = "second" /\ Goto(n, "done")
    BY DEF TellSecond, At, clientVars, serverVars
<1>2. /\ Len(handlers') = Len(handlers)
      /\ handlers'[n] = [handlers[n] EXCEPT !.pc = "done"]
      /\ \A m \in 1 .. Len(handlers) : m # n => handlers'[m] = handlers[m]
    BY <1>0, <1>1, GotoType DEF Pc
<1>3. handlers'[n].pc = "done"
    BY <1>0, <1>2 DEF Handler
<1>4. x \in Datagram /\ x.host = FALSE
    BY <1>0 DEF Info, Datagram, Handler
<1>5. \A c \in Program, b \in BOOLEAN : Told(c, b) => c = told /\ b
    BY <1>1 DEF ToldInv
<1>6. told \in Program /\ theirs \in Program => told # theirs
    <2>1. HandlerOK(handlers[n])
        BY DEF ConsentInv, HandlersOK
    <2>2. /\ handlers[n].wanted \in User /\ handlers[n].current \in User
          /\ <<handlers[n].current, handlers[n].wanted>> \in asked
          /\ told # NoProgram => Account(told) = handlers[n].current
        BY <1>0, <1>1, <2>1 DEF HandlerOK, Inviting, Handler
    <2>3. handlers[n].current # handlers[n].wanted
        BY <2>2 DEF NoSelf
    <2>4. theirs # NoProgram => Account(theirs) = handlers[n].wanted
        BY <2>2 DEF ConsentInv, AddressesOwned
    <2> QED
        BY <2>2, <2>3, <2>4, SetupAssumption
<1> HIDE DEF theirs, told, x
<1>7. \A c \in Program, b \in BOOLEAN :
          Told(c, b)' => (c = told /\ b) \/ (c = theirs /\ ~b)
    BY <1>1, <1>4, <1>5, Sending
<1>8. /\ ~infoExchangeFlag'
      /\ \A m \in 1 .. Len(handlers) :
             m # n => handlers[m].pc \notin Waiting \cup {"second"}
    BY <1>1 DEF FlagInv
<1>9. \A m \in 1 .. Len(handlers') :
          handlers'[m].pc \notin Waiting \cup {"second"}
    BY <1>2, <1>3, <1>8 DEF Waiting
<1>10. ASSUME NEW c \in Program, NEW d \in Program,
              NEW b \in BOOLEAN, NEW e \in BOOLEAN, Told(c, b)', Told(d, e)'
       PROVE  c = d <=> b = e
    BY <1>6, <1>7, <1>10
<1> QED
    BY <1>8, <1>9, <1>10 DEF ToldInv

\* Taking datagrams, and dropping them, is no news.
LEMMA TakingIsNoNews ==
    ASSUME TypeOK, NEW f \in Sender, NEW c \in Program,
           \/ net[f][c] # <<>> /\ net' = Taken(f, c)
           \/ net' = [g \in Program \cup {Server} |->
                          [net[g] EXCEPT ![c] = <<>>]]
           \/ UNCHANGED net
    PROVE  NoNews
<1>1. net \in Net
    BY DEF TypeOK, Net, Sender
<1>2. \A g \in Sender, e \in Program : net[g][e] \in Seq(Datagram)
    BY <1>1 DEF Net
<1>3. CASE net[f][c] # <<>> /\ net' = Taken(f, c)
    <2>1. \A g \in Sender, e \in Program :
              net'[g][e] = IF g = f /\ e = c
                           THEN Tail(net[f][c]) ELSE net[g][e]
        BY <1>1, <1>3, OneTaken
    <2>2. \A x : Has(Tail(net[f][c]), x) => Has(net[f][c], x)
        BY <1>2, <1>3, HasTaken
    <2> QED
        BY <2>1, <2>2 DEF NoNews
<1>4. CASE net' = [g \in Program \cup {Server} |->
                       [net[g] EXCEPT ![c] = <<>>]]
    <2>1. \A g \in Sender, e \in Program :
              net'[g][e] = IF e = c THEN <<>> ELSE net[g][e]
        BY <1>1, <1>4, SocketGone
    <2> QED
        BY <2>1, HasNothing DEF NoNews
<1>5. CASE UNCHANGED net
    BY <1>5 DEF NoNews
<1> QED
    BY <1>3, <1>4, <1>5

\* A program that takes its role has been told it: hostFlag is only cleared,
\* and it is cleared only by the one address that is for a member.
LEMMA RoleTaken ==
    ASSUME TypeOK, ToldInv, NEW f \in Sender, NEW c \in Program, Connect(f, c),
           NEW d \in Program, NEW b \in BOOLEAN, Told(d, b)'
    PROVE  Told(d, b)
<1> DEFINE x == Head(net[f][c])
<1>1. net \in Net
    BY DEF TypeOK, Net, Sender
<1>2. NoNews /\ x \in Datagram
    BY <1>1, ConnectQueues
<1>3. \A e \in Program, h \in BOOLEAN : Brings(e, h)' => Brings(e, h)
    BY <1>2 DEF Brings, NoNews
<1>4. Has(net[f][c], x) /\ IsInfo(x)
    <2>1. net[f][c] # <<>> /\ net[f][c] \in Seq(Datagram)
        BY <1>1 DEF Connect, Arrives, Net
    <2> QED
        BY <2>1, HasTaken DEF Connect, IsInfo
<1>5. x.host \in BOOLEAN
    BY <1>2 DEF Datagram
<1>6. Told(c, x.host)
    BY <1>2, <1>4 DEF Told, Brings
<1>7. hostFlag' = [hostFlag EXCEPT ![c] = hostFlag[c] /\ x.host]
      /\ \A e \in Program : e # c => peer'[e] = peer[e]
    BY DEF Connect, TypeOK
<1>8. hostFlag \in [Program -> BOOLEAN]
    BY DEF TypeOK
<1> HIDE DEF x
<1>9. CASE Brings(d, b)'
    BY <1>3, <1>9 DEF Told
<1>10. CASE d # c
    BY <1>3, <1>7, <1>8, <1>10 DEF Told
<1>11. CASE d = c /\ ~Brings(d, b)' /\ b
    <2>1. x.host = TRUE
        BY <1>5, <1>7, <1>8, <1>11 DEF Told
    <2> QED
        BY <1>6, <1>11, <2>1
<1>12. CASE d = c /\ ~Brings(d, b)' /\ ~b
    <2>1. hostFlag[c] = FALSE \/ x.host = FALSE
        BY <1>5, <1>7, <1>8, <1>12 DEF Told
    <2> QED
        BY <1>6, <1>12, <2>1 DEF Told
<1> QED
    BY <1>9, <1>10, <1>11, <1>12

\* No step tells anybody what it may not be told.
LEMMA StepTold ==
    ASSUME TypeOK, NamesOK, ConsentInv, RolesInv, [Next]_vars
    PROVE  ToldInv'
<1> USE DEF RolesInv, serverVars, clientVars
<1>0. handlers \in Seq(Handler)
    BY DEF TypeOK
<1>q. ASSUME UNCHANGED <<handlers, infoExchangeFlag>>,
             \A c \in Program, b \in BOOLEAN : Told(c, b)' => Told(c, b)
      PROVE  ToldInv'
    BY <1>q, QuietTold
<1>k. ASSUME UNCHANGED <<handlers, infoExchangeFlag, peer, hostFlag>>, NoNews
      PROVE  ToldInv'
    BY <1>k, <1>q, Unsaid
<1>n. ASSUME UNCHANGED net
      PROVE  NoNews
    BY <1>n DEF NoNews
<1>1. ASSUME NEW n \in 1 .. Len(handlers), Handle(n)
      PROVE  ToldInv'
    <2>g. ASSUME NEW pc \in Pc, Goto(n, pc), NoNews,
                 infoExchangeFlag' => infoExchangeFlag,
                 UNCHANGED <<peer, hostFlag>>, pc # "second",
                 pc \in Waiting => handlers[n].pc \in Waiting \cup {"claim"}
          PROVE  ToldInv'
        BY <2>g, GotoTold
    <2>1. CASE AddClientAddress(n) \/ EnterSession(n) \/ TestFlag(n)
        BY <1>n, <2>1, <2>g
           DEF AddClientAddress, EnterSession, TestFlag, At, Pc, Waiting
    <2>2. CASE ClearFlag(n) \/ ReadMine(n) \/ ReadTheirs(n)
        BY <1>n, <2>2, <2>g
           DEF ClearFlag, ReadMine, ReadTheirs, At, Pc, Waiting
    <2>3. CASE SendResponse(n)
        <3>1. Plain("token") \in Datagram /\ ~IsInfo(Plain("token"))
            BY PlainType DEF Plain, IsInfo
        <3>2. NoNews
            BY <2>3, <3>1, Sending DEF SendResponse
        <3> QED
            BY <2>3, <2>g, <3>2 DEF SendResponse, Pc, Waiting
    <2> QED
        BY <1>1, <2>1, <2>2, <2>3, FirstTold, SecondTold DEF Handle
<1>2. ASSUME NEW c \in Program, NEW pc, NEW v, Request(c, pc, v),
             pc \notin Waiting \cup {"second"},
             UNCHANGED <<infoExchangeFlag, net, peer, hostFlag>>
      PROVE  ToldInv'
    <2>1. /\ \A m \in 1 .. Len(handlers) : handlers'[m] = handlers[m]
          /\ \A m \in 1 .. Len(handlers') :
                 m \in 1 .. Len(handlers) \/ handlers'[m].pc = pc
        BY <1>0, <1>2 DEF Request
    <2>2. \A d \in Program, b \in BOOLEAN : Told(d, b)' => Told(d, b)
        BY <1>2, <1>n, Unsaid
    <2>3. \A n \in 1 .. Len(handlers') :
              /\ handlers'[n].pc \in Waiting =>
                     /\ n \in 1 .. Len(handlers)
                     /\ handlers[n].pc \in Waiting \cup {"claim"}
              /\ handlers'[n].pc = "second" =>
                     n \in 1 .. Len(handlers) /\ handlers'[n] = handlers[n]
        BY <1>2, <2>1
    <2> QED
        BY <1>2, <2>2, <2>3, QuietTold
<1>3. ASSUME NEW c \in Program,
             SendLogin(c) \/ \E v \in User : SendInvite(c, v)
      PROVE  ToldInv'
    BY <1>2, <1>3 DEF SendLogin, SendInvite, Waiting
<1>4. ASSUME NEW c \in Program, GetFiles(c) \/ Close(c)
      PROVE  ToldInv'
    <2>1. Server \in Sender
        BY DEF Sender
    <2>2. NoNews
        BY <1>4, <2>1, TakingIsNoNews DEF GetFiles, Close
    <2> QED
        BY <1>4, <1>k, <2>2 DEF GetFiles, Close
<1>5. ASSUME NEW f \in Sender, NEW c \in Program, Receive(f, c) \/ Lose(f, c)
      PROVE  ToldInv'
    <2>1. CASE LoginAnswered(f, c) \/ Misread(f, c) \/ Listen(f, c)
               \/ Lose(f, c)
        <3>1. NoNews
            BY <2>1, TakingIsNoNews
               DEF LoginAnswered, Misread, Listen, Lose, Arrives
        <3> QED
            BY <1>k, <2>1, <3>1 DEF LoginAnswered, Misread, Listen, Lose
    <2>2. CASE Connect(f, c)
        <3>1. \A d \in Program, b \in BOOLEAN : Told(d, b)' => Told(d, b)
            BY <2>2, RoleTaken
        <3> QED
            BY <1>q, <2>2, <3>1 DEF Connect
    <2> QED
        BY <1>5, <2>1, <2>2 DEF Receive
<1>6. CASE UNCHANGED vars
    BY <1>6, <1>k, <1>n DEF vars
<1> QED
    BY <1>1, <1>3, <1>4, <1>5, <1>6 DEF Next, Sender

\* No step breaks the invariant.
LEMMA StepRoles ==
    ASSUME Patient, TypeOK, NamesOK, ConsentInv, RolesInv, [Next]_vars
    PROVE  RolesInv'
<1>1. FlagInv'
    BY StepFlag DEF RolesInv, Patient
<1>2. ToldInv'
    BY StepTold
<1>3. NoSelf'
    BY StepNoSelf DEF RolesInv
<1> QED
    BY <1>1, <1>2, <1>3 DEF RolesInv

\* Two programs that are each other's peers were told different things.
LEMMA RolesDiffer ==
    ASSUME TypeOK, ConsentInv, RolesInv
    PROVE  OneHost
<1> SUFFICES ASSUME NEW c \in Program, NEW d \in Program,
                    peer[c] = d, peer[d] = c, hostFlag[c] = hostFlag[d]
             PROVE  FALSE
    BY DEF OneHost
<1>1. hostFlag[c] \in BOOLEAN /\ c # NoProgram /\ d # NoProgram
    BY SetupAssumption DEF TypeOK
<1>2. Told(c, hostFlag[c]) /\ Told(d, hostFlag[d])
    BY <1>1 DEF Told
<1>3. c = d
    BY <1>1, <1>2 DEF RolesInv, ToldInv
<1>4. <<Account(c), Account(c)>> \in asked
    BY <1>1, <1>3 DEF ConsentInv, MutualConsent
<1> QED
    BY <1>4, AccountType DEF RolesInv, NoSelf

\* setClientInfo and hostFlag: of two programs that are connected to each
\* other one is host and one is member, whatever is lost, closed, repeated or
\* overtaken, if no two invitations are tested against the flag at once and
\* nobody invites the own account.
THEOREM PairHasOneHost == Patient => (Spec => []OneHost)
<1> SUFFICES ASSUME Patient
             PROVE  Spec => []OneHost
    OBVIOUS
<1> DEFINE Inv == TypeOK /\ NamesOK /\ ConsentInv /\ RolesInv
<1>1. Init => Inv
    BY InitType, InitConsent, InitRoles
<1>2. Inv /\ [Next]_vars => Inv'
    BY StepType, StepNames, StepConsent, StepRoles
<1>3. Inv => OneHost
    BY RolesDiffer
<1> QED
    BY <1>1, <1>2, <1>3, PTL DEF Spec

-----------------------------------------------------------------------------
(* Nobody crashes.                                                         *)

Early == {"start", "login", "menu"}

LogsIn(n, c) == handlers[n].pc \in {"address", "answer"} /\ handlers[n].by = c

\* The server still has something to say to c, and c may hear it first.
Pending(c) ==
    \/ net[Server][c] # <<>>
    \/ \E n \in 1 .. Len(handlers) :
           handlers[n].pc = "second" /\ handlers[n].wanted = Owner[c]

\* An address of c is on its way to somebody, who will send c datagrams.
Known(c) == \E f \in Sender, d \in Program, x \in Datagram :
                Has(net[f][d], x) /\ IsInfo(x) /\ x.peer = c

\* Until it invites nobody sends it anything but the server.
Newcomer(c) == phase[c] \in Early =>
    /\ \A f \in Program : net[f][c] = <<>>
    /\ \A v \in User : <<Owner[c], v>> \notin asked

Unconnected(c) == phase[c] \in Early \cup {"inviting"} => peer[c] = NoProgram

AtStart(c) == phase[c] = "start" =>
    /\ net[Server][c] = <<>>
    /\ \A n \in 1 .. Len(handlers) : handlers[n].by # c

\* It logs in once, and gets one answer.
AtLogin(c) == phase[c] = "login" =>
    /\ \A x : Has(net[Server][c], x) => x.kind = "token"
    /\ Len(net[Server][c]) <= 1
    /\ \A n \in 1 .. Len(handlers) : LogsIn(n, c) =>
           /\ net[Server][c] = <<>>
           /\ \A m \in 1 .. Len(handlers) : LogsIn(m, c) => m = n
           /\ handlers[n].pc = "answer" => clientAddresses[Owner[c]] = c
    /\ net[Server][c] # <<>> => clientAddresses[Owner[c]] = c

LoggedIn(c) == phase[c] \in {"menu", "inviting"} =>
    /\ \A n \in 1 .. Len(handlers) : ~LogsIn(n, c)
    /\ clientAddresses[Owner[c]] = c

AtMenu(c) == phase[c] = "menu" => net[Server][c] = <<>>

\* While it waits for the answer to its invitation the server sends it nothing
\* but that, and others send it something only when the answer is still ahead.
AtInvitation(c) == phase[c] = "inviting" =>
    /\ \A x : Has(net[Server][c], x) => IsInfo(x)
    /\ \A f \in Program : net[f][c] # <<>> => Pending(c)
    /\ Known(c) => Pending(c)
    /\ \A n \in 1 .. Len(handlers) :
           handlers[n].pc = "second" /\ handlers[n].told = c =>
               net[Server][c] # <<>>

Calm(c) == /\ Newcomer(c) /\ Unconnected(c) /\ AtStart(c) /\ AtLogin(c)
           /\ LoggedIn(c) /\ AtMenu(c) /\ AtInvitation(c)
           /\ phase[c] # "crashed"

CalmInv == \A c \in Program : Calm(c)

-----------------------------------------------------------------------------
(* What a step has to keep for a program that stays where it is.           *)

SameProgram(c) ==
    /\ phase'[c] = phase[c] /\ peer'[c] = peer[c]
    /\ clientAddresses'[Owner[c]] = clientAddresses[Owner[c]]
    /\ \A v \in User : <<Owner[c], v>> \in asked' => <<Owner[c], v>> \in asked

SameThreads(c) ==
    \A n \in 1 .. Len(handlers') : handlers'[n].by = c =>
        /\ n \in 1 .. Len(handlers) /\ handlers[n].by = c
        /\ handlers'[n].pc \in {"address", "answer"} =>
               handlers'[n].pc = handlers[n].pc

SameEarly(c) ==
    phase[c] \in Early => \A f \in Sender : net'[f][c] = net[f][c]

SameInvitation(c) ==
    phase[c] = "inviting" =>
        /\ \A x : Has(net'[Server][c], x) => Has(net[Server][c], x) \/ IsInfo(x)
        /\ net[Server][c] # <<>> => net'[Server][c] # <<>>
        /\ Pending(c) => Pending(c)'
        /\ \A f \in Program :
               net'[f][c] # <<>> => net[f][c] # <<>> \/ Pending(c)'
        /\ Known(c)' => Known(c) \/ Pending(c)'
        /\ \A n \in 1 .. Len(handlers') :
               handlers'[n].pc = "second" /\ handlers'[n].told = c =>
                   \/ net'[Server][c] # <<>>
                   \/ /\ n \in 1 .. Len(handlers)
                      /\ handlers[n].pc = "second" /\ handlers[n].told = c

\* Then the program is as calm as before.
LEMMA StaysCalm ==
    ASSUME NEW c \in Program, Calm(c), SameProgram(c), SameThreads(c),
           SameEarly(c), SameInvitation(c)
    PROVE  Calm(c)'
<1> USE DEF Calm, SameProgram, Early
<1>s. Server \in Sender /\ \A f \in Program : f \in Sender
    BY DEF Sender
<1>t. ASSUME NEW n \in 1 .. Len(handlers'), LogsIn(n, c)'
      PROVE  /\ n \in 1 .. Len(handlers) /\ LogsIn(n, c)
             /\ handlers'[n].pc = handlers[n].pc
    BY <1>t DEF SameThreads, LogsIn
<1>1. Newcomer(c)'
    BY <1>s DEF Newcomer, SameEarly
<1>2. Unconnected(c)'
    BY DEF Unconnected
<1>3. AtStart(c)'
    BY <1>s DEF AtStart, SameThreads, SameEarly
<1>4. AtLogin(c)'
    <2> SUFFICES ASSUME phase'[c] = "login"
                 PROVE  AtLogin(c)'
        BY DEF AtLogin
    <2>1. net'[Server][c] = net[Server][c]
        BY <1>s DEF SameEarly
    <2>2. AtLogin(c)
        OBVIOUS
    <2>3. /\ \A x : Has(net[Server][c], x) => x.kind = "token"
          /\ Len(net[Server][c]) <= 1
          /\ \A n \in 1 .. Len(handlers) : LogsIn(n, c) =>
                 /\ net[Server][c] = <<>>
                 /\ \A m \in 1 .. Len(handlers) : LogsIn(m, c) => m = n
                 /\ handlers[n].pc = "answer" => clientAddresses[Owner[c]] = c
          /\ net[Server][c] # <<>> => clientAddresses[Owner[c]] = c
        BY <2>2 DEF AtLogin
    <2>4. ASSUME NEW n \in 1 .. Len(handlers'), LogsIn(n, c)'
          PROVE  /\ net'[Server][c] = <<>>
                 /\ \A m \in 1 .. Len(handlers') : LogsIn(m, c)' => m = n
                 /\ handlers'[n].pc = "answer" =>
                        clientAddresses'[Owner[c]] = c
        <3>1. n \in 1 .. Len(handlers) /\ LogsIn(n, c)
                  /\ handlers'[n].pc = handlers[n].pc
            BY <2>4, <1>t
        <3>2. ASSUME NEW m \in 1 .. Len(handlers'), LogsIn(m, c)'
              PROVE  m = n
            <4>1. m \in 1 .. Len(handlers) /\ LogsIn(m, c)
                BY <3>2, <1>t
            <4> QED
                BY <2>3, <3>1, <4>1
        <3> QED
            BY <2>1, <2>3, <3>1, <3>2
    <2> QED
        BY <2>1, <2>3, <2>4 DEF AtLogin
<1>5. LoggedIn(c)'
    BY <1>t DEF LoggedIn
<1>6. AtMenu(c)'
    BY <1>s DEF AtMenu, SameEarly
<1>7. AtInvitation(c)'
    BY DEF AtInvitation, SameInvitation
<1> QED
    BY <1>1, <1>2, <1>3, <1>4, <1>5, <1>6, <1>7

\* A program past its invitation is.
LEMMA PastCalm ==
    ASSUME NEW c \in Program, phase'[c] \in {"files", "session", "closed"}
    PROVE  Calm(c)'
BY DEF Calm, Newcomer, Unconnected, AtStart, AtLogin, LoggedIn, AtMenu,
       AtInvitation, Early

\* At first nobody is sent anything.
LEMMA InitCalm == Init => CalmInv
BY DEF Init, CalmInv, Calm, Newcomer, Unconnected, AtStart, AtLogin, LoggedIn,
       AtMenu, AtInvitation, Early, Sender

\* A thread that goes on stays the thread of its request.
LEMMA HandleThread ==
    ASSUME TypeOK, NEW n \in 1 .. Len(handlers), Handle(n)
    PROVE  /\ handlers[n] \in Handler
           /\ Len(handlers') = Len(handlers)
           /\ \A m \in 1 .. Len(handlers) : m # n => handlers'[m] = handlers[m]
           /\ handlers'[n].by = handlers[n].by
           /\ handlers'[n].wanted = handlers[n].wanted
           /\ handlers'[n].pc # "address"
           /\ handlers'[n].pc = "answer" => AddClientAddress(n)
           /\ handlers'[n].pc = "second" => TellFirst(n)
           /\ handlers[n].pc = "second" => TellSecond(n)
<1>0. handlers \in Seq(Handler) /\ handlers[n] \in Handler
    BY DEF TypeOK
<1>g. ASSUME NEW pc \in Pc, Goto(n, pc)
      PROVE  /\ Len(handlers') = Len(handlers)
             /\ \A m \in 1 .. Len(handlers) :
                    m # n => handlers'[m] = handlers[m]
             /\ handlers'[n].by = handlers[n].by
             /\ handlers'[n].wanted = handlers[n].wanted
             /\ handlers'[n].pc = pc
    <2>1. /\ Len(handlers') = Len(handlers)
          /\ handlers'[n] = [handlers[n] EXCEPT !.pc = pc]
          /\ \A m \in 1 .. Len(handlers) : m # n => handlers'[m] = handlers[m]
        BY <1>0, <1>g, GotoType
    <2> QED
        BY <1>0, <2>1 DEF Handler
<1>1. CASE AddClientAddress(n)
    BY <1>0, <1>1, <1>g DEF AddClientAddress, At, Pc
<1>2. CASE SendResponse(n) \/ EnterSession(n) \/ TestFlag(n)
    BY <1>0, <1>2, <1>g DEF SendResponse, EnterSession, TestFlag, At, Pc
<1>3. CASE ClearFlag(n) \/ ReadMine(n) \/ ReadTheirs(n)
    BY <1>0, <1>3, <1>g DEF ClearFlag, ReadMine, ReadTheirs, At, Pc
<1>4. CASE TellFirst(n)
    BY <1>0, <1>4 DEF TellFirst, At, Handler
<1>5. CASE TellSecond(n)
    BY <1>0, <1>5, <1>g DEF TellSecond, At, Pc
<1> QED
    BY <1>1, <1>2, <1>3, <1>4, <1>5 DEF Handle

\* Each user has an account.
LEMMA OwnAccount == ASSUME Orderly, NEW c \in Program
                    PROVE  Account(c) = Owner[c] /\ Owner[c] \in User
BY SetupAssumption DEF Orderly, Account

\* Whoever is asked about or has asked is past the menu.
LEMMA AskedLate ==
    ASSUME Orderly, TypeOK, CalmInv, NEW c \in Program, NEW v \in User,
           <<Account(c), v>> \in asked
    PROVE  phase[c] \notin Early
BY OwnAccount DEF CalmInv, Calm, Newcomer

\* Only who is past the menu is known to anybody, or about to be.
LEMMA KnownLate ==
    ASSUME Orderly, TypeOK, ConsentInv, CalmInv, NEW c \in Program,
           \/ Known(c)
           \/ \E n \in 1 .. Len(handlers) :
                  handlers[n].pc = "second" /\ handlers[n].told = c
    PROVE  phase[c] \notin Early
<1>0. c # NoProgram /\ \A d \in Program : Account(d) \in User
    BY SetupAssumption, AccountType
<1>1. CASE Known(c)
    <2>1. PICK f \in Sender, d \in Program, x \in Datagram :
              Has(net[f][d], x) /\ IsInfo(x) /\ x.peer = c
        BY <1>1 DEF Known
    <2>2. InfoOK(d, x)
        BY <2>1 DEF ConsentInv, InfoIn, Has
    <2>3. <<Account(c), Account(d)>> \in asked
        BY <1>0, <2>1, <2>2 DEF InfoOK, Agreed
    <2> QED
        BY <1>0, <2>3, AskedLate
<1>2. ASSUME NEW n \in 1 .. Len(handlers), handlers[n].pc = "second",
             handlers[n].told = c
      PROVE  phase[c] \notin Early
    <2>1. HandlerOK(handlers[n]) /\ handlers[n].wanted \in User
        BY <1>2 DEF ConsentInv, HandlersOK, NamesOK, HandlerOK, Inviting
    <2>2. <<Account(c), handlers[n].wanted>> \in asked
        BY <1>0, <1>2, <2>1 DEF HandlerOK, Inviting
    <2> QED
        BY <2>1, <2>2, AskedLate
<1> QED
    BY <1>1, <1>2

\* A request changes nothing for the others.
LEMMA RequestSame ==
    ASSUME TypeOK, NEW c, NEW pc, NEW v, Request(c, pc, v), pc # "second",
           UNCHANGED net, NEW d \in Program
    PROVE  /\ SameEarly(d) /\ SameInvitation(d)
           /\ d # c => SameThreads(d)
           /\ \A n \in 1 .. Len(handlers') :
                  \/ n \in 1 .. Len(handlers) /\ handlers'[n] = handlers[n]
                  \/ /\ n = Len(handlers) + 1 /\ handlers'[n].pc = pc
                     /\ handlers'[n].by = c
<1>1. /\ Len(handlers) \in Nat /\ Len(handlers') = Len(handlers) + 1
      /\ \A m \in 1 .. Len(handlers) : handlers'[m] = handlers[m]
      /\ handlers'[Len(handlers) + 1].pc = pc
      /\ handlers'[Len(handlers) + 1].by = c
    BY DEF Request, TypeOK
<1>2. \A n \in 1 .. Len(handlers') :
          \/ n \in 1 .. Len(handlers) /\ handlers'[n] = handlers[n]
          \/ n = Len(handlers) + 1 /\ handlers'[n].pc = pc /\ handlers'[n].by = c
    BY <1>1
<1>3. 1 .. Len(handlers) \subseteq 1 .. Len(handlers')
    BY <1>1
<1>4. Pending(d) => Pending(d)'
    BY <1>1, <1>3 DEF Pending
<1>5. Known(d)' => Known(d)
    BY DEF Known
<1>6. SameInvitation(d)
    BY <1>2, <1>4, <1>5 DEF SameInvitation
<1>7. SameEarly(d) /\ (d # c => SameThreads(d))
    BY <1>2 DEF SameEarly, SameThreads
<1> QED
    BY <1>2, <1>6, <1>7

\* A program logs in once.
LEMMA LoginCalm ==
    ASSUME TypeOK, CalmInv, NEW c \in Program, SendLogin(c)
    PROVE  CalmInv'
<1> USE DEF serverVars
<1>r. Request(c, "address", NoUser) /\ UNCHANGED net
    BY DEF SendLogin
<1>1. ASSUME NEW d \in Program, d # c
      PROVE  Calm(d)'
    <2>1. SameProgram(d)
        BY <1>1 DEF SendLogin, SameProgram, TypeOK
    <2> QED
        BY <1>1, <1>r, <2>1, RequestSame, StaysCalm DEF CalmInv
<1>2. Calm(c)'
    <2>1. /\ phase[c] = "start" /\ phase'[c] = "login"
          /\ UNCHANGED <<net, peer, asked, clientAddresses>>
        BY DEF SendLogin, TypeOK
    <2>2. Calm(c)
        BY DEF CalmInv
    <2>3. /\ net[Server][c] = <<>>
          /\ \A n \in 1 .. Len(handlers) : handlers[n].by # c
          /\ peer[c] = NoProgram
          /\ \A f \in Program : net[f][c] = <<>>
          /\ \A v \in User : <<Owner[c], v>> \notin asked
        BY <2>1, <2>2 DEF Calm, AtStart, Unconnected, Newcomer, Early
    <2>4. \A n \in 1 .. Len(handlers') : LogsIn(n, c)' =>
              n = Len(handlers) + 1 /\ handlers'[n].pc = "address"
        BY <1>r, <2>3, RequestSame DEF LogsIn
    <2>5. AtLogin(c)'
        BY <2>1, <2>3, <2>4, HasNothing DEF AtLogin
    <2>6. Newcomer(c)' /\ Unconnected(c)'
        BY <2>1, <2>3 DEF Newcomer, Unconnected
    <2> QED
        BY <2>1, <2>5, <2>6
           DEF Calm, AtStart, LoggedIn, AtMenu, AtInvitation
<1> QED
    BY <1>1, <1>2 DEF CalmInv

\* A program invites once, and nobody knows it before that.
LEMMA InviteCalm ==
    ASSUME Orderly, TypeOK, ConsentInv, CalmInv, NEW c \in Program,
           NEW v \in User, SendInvite(c, v)
    PROVE  CalmInv'
<1> USE DEF serverVars
<1>r. Request(c, "invite", v) /\ UNCHANGED net
    BY DEF SendInvite
<1>1. ASSUME NEW d \in Program, d # c
      PROVE  Calm(d)'
    <2>1. Owner[d] # Account(c)
        BY <1>1, OwnAccount DEF Orderly
    <2>2. SameProgram(d)
        BY <1>1, <2>1 DEF SendInvite, SameProgram, TypeOK
    <2> QED
        BY <1>1, <1>r, <2>2, RequestSame, StaysCalm DEF CalmInv
<1>2. Calm(c)'
    <2>1. /\ phase[c] = "menu" /\ phase'[c] = "inviting"
          /\ UNCHANGED <<net, peer, clientAddresses>>
        BY DEF SendInvite, TypeOK, Orderly
    <2>2. Calm(c)
        BY DEF CalmInv
    <2>3. /\ net[Server][c] = <<>> /\ peer[c] = NoProgram
          /\ \A f \in Program : net[f][c] = <<>>
          /\ clientAddresses[Owner[c]] = c
          /\ \A n \in 1 .. Len(handlers) : ~LogsIn(n, c)
        BY <2>1, <2>2 DEF Calm, AtMenu, LoggedIn, Unconnected, Newcomer, Early
    <2>4. \A n \in 1 .. Len(handlers') :
              \/ n \in 1 .. Len(handlers) /\ handlers'[n] = handlers[n]
              \/ handlers'[n].pc = "invite"
        BY <1>r, RequestSame
    <2>5. LoggedIn(c)'
        BY <2>1, <2>3, <2>4 DEF LoggedIn, LogsIn
    <2>6. ~Known(c) /\ \A n \in 1 .. Len(handlers) :
              handlers[n].pc = "second" => handlers[n].told # c
        BY <2>1, KnownLate DEF Early
    <2>7. AtInvitation(c)'
        BY <2>1, <2>3, <2>4, <2>6, HasNothing DEF AtInvitation, Known
    <2>8. Unconnected(c)'
        BY <2>1, <2>3 DEF Unconnected
    <2> QED
        BY <2>1, <2>5, <2>7, <2>8
           DEF Calm, Newcomer, AtStart, AtLogin, AtMenu, Early
<1> QED
    BY <1>1, <1>2 DEF CalmInv

\* A thread that sends nothing changes nothing for the programs, except that
\* the address of the one it has logged in gets known.
LEMMA SilentCalm ==
    ASSUME Orderly, TypeOK, CalmInv, ConsentInv, NEW n \in 1 .. Len(handlers),
           \/ AddClientAddress(n) \/ EnterSession(n) \/ TestFlag(n)
           \/ ClearFlag(n) \/ ReadMine(n) \/ ReadTheirs(n)
    PROVE  CalmInv'
<1> USE DEF serverVars, clientVars
<1>0. UNCHANGED <<net, phase, peer, asked>> /\ Handle(n)
    BY DEF Handle, AddClientAddress, EnterSession, TestFlag, ClearFlag,
           ReadMine, ReadTheirs
<1>1. handlers[n].pc \notin {"second", "first"}
    BY DEF AddClientAddress, EnterSession, TestFlag, ClearFlag, ReadMine,
           ReadTheirs, At
<1>2. /\ handlers[n] \in Handler
      /\ Len(handlers') = Len(handlers)
      /\ \A m \in 1 .. Len(handlers) : m # n => handlers'[m] = handlers[m]
      /\ handlers'[n].by = handlers[n].by
      /\ handlers'[n].pc # "address"
      /\ handlers'[n].pc = "answer" => AddClientAddress(n)
      /\ handlers'[n].pc = "second" => TellFirst(n)
    BY <1>0, HandleThread
<1>3. handlers'[n].pc # "second"
    BY <1>1, <1>2 DEF TellFirst, At
<1>4. \A d \in Program : SameEarly(d) /\ SameInvitation(d)
    <2>1. ASSUME NEW d \in Program
          PROVE  /\ Pending(d) => Pending(d)'
                 /\ Known(d)' => Known(d)
                 /\ \A m \in 1 .. Len(handlers') :
                        handlers'[m].pc = "second" =>
                            m \in 1 .. Len(handlers)
                                /\ handlers'[m] = handlers[m]
        BY <1>0, <1>1, <1>2, <1>3 DEF Pending, Known
    <2>2. ASSUME NEW d \in Program
          PROVE  SameInvitation(d)
        BY <1>0, <2>1 DEF SameInvitation
    <2> QED
        BY <1>0, <2>2 DEF SameEarly
<1>5. CASE ~AddClientAddress(n)
    <2>1. UNCHANGED clientAddresses
        BY <1>5 DEF EnterSession, TestFlag, ClearFlag, ReadMine, ReadTheirs
    <2>2. \A d \in Program : SameProgram(d) /\ SameThreads(d)
        BY <1>0, <1>2, <1>5, <2>1 DEF SameProgram, SameThreads
    <2> QED
        BY <1>4, <2>2, StaysCalm DEF CalmInv
<1>6. CASE AddClientAddress(n)
    <2>1. PICK c \in Program :
              /\ handlers[n].pc = "address" /\ handlers[n].by = c
              /\ handlers[n].current = Owner[c]
              /\ clientAddresses' = [clientAddresses EXCEPT ![Owner[c]] = c]
        <3>1. HandlerOK(handlers[n]) /\ handlers[n].by \in Program
            BY <1>2 DEF ConsentInv, HandlersOK, Handler
        <3> QED
            BY <1>6, <3>1, OwnAccount DEF AddClientAddress, At, HandlerOK
    <2>2. clientAddresses'[Owner[c]] = c
        BY <2>1, OwnAccount DEF TypeOK
    <2>3. ASSUME NEW d \in Program, d # c
          PROVE  Calm(d)'
        <3>1. Owner[d] # Owner[c]
            BY <2>1, <2>3 DEF Orderly
        <3>2. SameProgram(d)
            BY <1>0, <2>1, <3>1 DEF SameProgram, TypeOK
        <3>3. SameThreads(d)
            BY <1>2, <2>1, <2>3 DEF SameThreads
        <3> QED
            BY <1>4, <3>2, <3>3, StaysCalm DEF CalmInv
    <2>4. Calm(c)'
        <3>0. Calm(c) /\ LogsIn(n, c)
            BY <2>1 DEF CalmInv, LogsIn
        <3>1. phase[c] \notin {"start", "menu", "inviting", "crashed"}
            BY <2>1, <3>0 DEF Calm, AtStart, LoggedIn, LogsIn
        <3>2. ASSUME NEW m \in 1 .. Len(handlers'), LogsIn(m, c)'
              PROVE  m \in 1 .. Len(handlers) /\ LogsIn(m, c)
            BY <1>2, <3>0, <3>2 DEF LogsIn
        <3>3. AtLogin(c)'
            <4> SUFFICES ASSUME phase[c] = "login"
                         PROVE  AtLogin(c)'
                BY <1>0 DEF AtLogin
            <4>1. /\ \A x : Has(net[Server][c], x) => x.kind = "token"
                  /\ Len(net[Server][c]) <= 1
                  /\ net[Server][c] = <<>>
                  /\ \A m \in 1 .. Len(handlers) : LogsIn(m, c) => m = n
                BY <3>0 DEF Calm, AtLogin
            <4> QED
                BY <1>0, <2>2, <3>2, <4>1 DEF AtLogin
        <3>4. Newcomer(c)' /\ Unconnected(c)'
            BY <1>0, <3>0 DEF Calm, Newcomer, Unconnected
        <3> QED
            BY <1>0, <3>1, <3>3, <3>4
               DEF Calm, AtStart, LoggedIn, AtMenu, AtInvitation
    <2> QED
        BY <2>3, <2>4 DEF CalmInv
<1> QED
    BY <1>5, <1>6

\* What a server thread sends to c is for c alone.
LEMMA SendsTo ==
    ASSUME TypeOK, NEW c, NEW x \in Datagram, net' = Sent(Server, c, <<x>>)
    PROVE  /\ \A f \in Sender, d \in Program :
                  ~(f = Server /\ d = c) => net'[f][d] = net[f][d]
           /\ c \in Program => \/ /\ Running(c)
                                  /\ net'[Server][c] = net[Server][c] \o <<x>>
                                  /\ net'[Server][c] # <<>>
                               \/ /\ ~Running(c)
                                  /\ net'[Server][c] = net[Server][c]
           /\ c \in Program => \A y : Has(net'[Server][c], y) =>
                  Has(net[Server][c], y) \/ y = x
           /\ \A d \in Program : net[Server][d] # <<>> =>
                  net'[Server][d] # <<>>
           /\ \A d \in Program : Known(d)' =>
                  Known(d) \/ (IsInfo(x) /\ x.peer = d)
<1>1. net \in Net /\ Server \in Sender
    BY DEF TypeOK, Net, Sender
<1>2. \A g \in Sender, e \in Program :
          net'[g][e] = IF g = Server /\ e = c /\ Running(c)
                       THEN net[g][e] \o <<x>> ELSE net[g][e]
    BY <1>1, ServerSends
<1>3. \A g \in Sender, e \in Program :
          /\ net[g][e] \in Seq(Datagram)
          /\ net[g][e] \o <<x>> # <<>>
          /\ \A y : Has(net[g][e] \o <<x>>, y) => Has(net[g][e], y) \/ y = x
    <2>1. \A g \in Sender, e \in Program : net[g][e] \in Seq(Datagram)
        BY <1>1 DEF Net
    <2> QED
        BY <2>1, HasJoined
<1>4. ASSUME NEW g \in Sender, NEW e \in Program, NEW y, Has(net'[g][e], y)
      PROVE  Has(net[g][e], y) \/ y = x
    BY <1>2, <1>3, <1>4
<1>5. ASSUME NEW d \in Program, Known(d)'
      PROVE  Known(d) \/ (IsInfo(x) /\ x.peer = d)
    BY <1>4, <1>5 DEF Known
<1>6. \A f \in Sender, d \in Program :
          ~(f = Server /\ d = c) => net'[f][d] = net[f][d]
    BY <1>2
<1>7. c \in Program => \/ /\ Running(c)
                          /\ net'[Server][c] = net[Server][c] \o <<x>>
                          /\ net'[Server][c] # <<>>
                       \/ /\ ~Running(c)
                          /\ net'[Server][c] = net[Server][c]
    BY <1>1, <1>2, <1>3
<1>8. \A d \in Program : net[Server][d] # <<>> => net'[Server][d] # <<>>
    BY <1>1, <1>2, <1>3
<1> QED
    BY <1>1, <1>4, <1>5, <1>6, <1>7, <1>8

\* The answer to a login finds the program at its login, and no other.
LEMMA ResponseCalm ==
    ASSUME Orderly, TypeOK, CalmInv, ConsentInv, NEW n \in 1 .. Len(handlers),
           SendResponse(n)
    PROVE  CalmInv'
<1> USE DEF serverVars, clientVars
<1> DEFINE to == clientAddresses[handlers[n].current]
           x  == Plain("token")
<1>0. /\ UNCHANGED <<clientAddresses, phase, peer, asked>> /\ Handle(n)
      /\ net' = Sent(Server, to, <<x>>) /\ handlers[n].pc = "answer"
    BY DEF Handle, SendResponse, At
<1>1. /\ handlers[n] \in Handler
      /\ Len(handlers') = Len(handlers)
      /\ \A m \in 1 .. Len(handlers) : m # n => handlers'[m] = handlers[m]
      /\ handlers'[n].by = handlers[n].by
      /\ handlers'[n].pc # "address"
      /\ handlers'[n].pc = "answer" => AddClientAddress(n)
      /\ handlers'[n].pc = "second" => TellFirst(n)
    BY <1>0, HandleThread
<1>2. handlers'[n].pc \notin {"address", "answer", "second"}
    BY <1>0, <1>1 DEF AddClientAddress, TellFirst, At
<1>3. /\ x \in Datagram /\ ~IsInfo(x) /\ x.kind = "token"
    BY PlainType DEF Plain, IsInfo
<1>4. PICK c \in Program :
          handlers[n].by = c /\ handlers[n].current = Owner[c]
    <2>1. HandlerOK(handlers[n]) /\ handlers[n].by \in Program
        BY <1>1 DEF ConsentInv, HandlersOK, Handler
    <2> QED
        BY <2>1, OwnAccount DEF HandlerOK
<1>5. to \in Program => to = c
    <2>1. Owner[c] \in User
        BY <1>4, OwnAccount
    <2>2. to \in Program => Account(to) = Owner[c]
        BY <1>4, <2>1, SetupAssumption DEF ConsentInv, AddressesOwned
    <2>3. to \in Program => Owner[to] = Owner[c]
        BY <2>2, OwnAccount
    <2> QED
        BY <1>4, <2>3 DEF Orderly
<1>6. LogsIn(n, c)
    BY <1>0, <1>4 DEF LogsIn
<1> HIDE DEF to, x
<1>7. /\ \A f \in Sender, d \in Program :
             ~(f = Server /\ d = to) => net'[f][d] = net[f][d]
      /\ to \in Program => \/ net'[Server][to] = net[Server][to] \o <<x>>
                           \/ net'[Server][to] = net[Server][to]
      /\ \A d \in Program : net[Server][d] # <<>> => net'[Server][d] # <<>>
      /\ \A d \in Program : Known(d)' => Known(d)
    BY <1>0, <1>3, SendsTo
<1>8. ASSUME NEW d \in Program
      PROVE  Pending(d) => Pending(d)'
    BY <1>0, <1>1, <1>7 DEF Pending
<1>9. \A m \in 1 .. Len(handlers') : handlers'[m].pc = "second" =>
          m \in 1 .. Len(handlers) /\ handlers'[m] = handlers[m]
    BY <1>1, <1>2
<1>10. ASSUME NEW d \in Program, d # c
       PROVE  Calm(d)'
    <2>1. \A f \in Sender : net'[f][d] = net[f][d]
        BY <1>5, <1>7, <1>10
    <2>2. SameProgram(d) /\ SameEarly(d)
        BY <1>0, <2>1 DEF SameProgram, SameEarly
    <2>3. SameThreads(d)
        BY <1>1, <1>4, <1>10 DEF SameThreads
    <2>4. SameInvitation(d)
        <3>1. \A f \in Program : net'[f][d] = net[f][d]
            BY <2>1 DEF Sender
        <3>2. net'[Server][d] = net[Server][d]
            BY <2>1 DEF Sender
        <3> QED
            BY <1>7, <1>8, <1>9, <3>1, <3>2 DEF SameInvitation
    <2> QED
        BY <2>2, <2>3, <2>4, StaysCalm DEF CalmInv
<1>11. Calm(c)'
    <2>0. Calm(c)
        BY <1>4 DEF CalmInv
    <2>1. phase[c] \notin {"start", "menu", "inviting", "crashed"}
        BY <1>6, <2>0 DEF Calm, AtStart, LoggedIn, LogsIn
    <2>2. Newcomer(c)' /\ Unconnected(c)'
        <3>1. \A f \in Program : net'[f][c] = net[f][c]
            BY <1>4, <1>7, ServerAssumption DEF Sender
        <3> QED
            BY <1>0, <2>0, <3>1 DEF Calm, Newcomer, Unconnected
    <2>3. AtLogin(c)'
        <3> SUFFICES ASSUME phase[c] = "login"
                     PROVE  AtLogin(c)'
            BY <1>0 DEF AtLogin
        <3>1. /\ net[Server][c] = <<>>
              /\ \A m \in 1 .. Len(handlers) : LogsIn(m, c) => m = n
              /\ clientAddresses[Owner[c]] = c
            BY <1>0, <1>6, <2>0 DEF Calm, AtLogin
        <3>2. \A m \in 1 .. Len(handlers') : ~LogsIn(m, c)'
            BY <1>1, <1>2, <3>1 DEF LogsIn
        <3> DEFINE q == net[Server][c]
        <3>3. /\ q \in Seq(Datagram) /\ Len(q) = 0 /\ \A y : ~Has(q, y)
              /\ net'[Server][c] = q \o <<x>> \/ net'[Server][c] = q
            <4>1. q \in Seq(Datagram)
                BY DEF TypeOK
            <4> QED
                BY <1>4, <1>5, <1>7, <3>1, <4>1, HasNothing DEF Sender
        <3> HIDE DEF q
        <3> DEFINE r == q \o <<x>>
        <3>4. /\ Len(r) = Len(q) + 1
              /\ \A y : Has(r, y) => Has(q, y) \/ y = x
              /\ net'[Server][c] = r \/ net'[Server][c] = q
            BY <1>3, <3>3, HasJoined
        <3> HIDE DEF r
        <3>k. Len(r) = 1 /\ Len(q) = 0
            BY <3>3, <3>4
        <3>h. \A y : (Has(r, y) => y = x) /\ ~Has(q, y)
            BY <3>3, <3>4
        <3>r. net'[Server][c] = r \/ net'[Server][c] = q
            BY <3>4
        <3> DEFINE t == net'[Server][c]
        <3>l. Len(t) <= 1
            <4>1. t = r \/ t = q
                BY <3>r
            <4> HIDE DEF t
            <4>2. Len(t) = 1 \/ Len(t) = 0
                BY <3>k, <4>1
            <4>3. \A k : k = 1 \/ k = 0 => k <= 1
                OBVIOUS
            <4> QED
                BY <4>2, <4>3
        <3>5. /\ Len(net'[Server][c]) <= 1
              /\ \A y : Has(net'[Server][c], y) => y = x
            BY <3>h, <3>l, <3>r
        <3> QED
            BY <1>0, <1>3, <3>1, <3>2, <3>5 DEF AtLogin
    <2> QED
        BY <1>0, <2>1, <2>2, <2>3
           DEF Calm, AtStart, LoggedIn, AtMenu, AtInvitation
<1> QED
    BY <1>10, <1>11 DEF CalmInv

\* A thread that sends an address sends it to a program past its menu, as the
\* answer to its invitation.
LEMMA AddressCalm ==
    ASSUME Orderly, TypeOK, NamesOK, CalmInv, ConsentInv,
           NEW n \in 1 .. Len(handlers), TellFirst(n) \/ TellSecond(n)
    PROVE  CalmInv'
<1> USE DEF serverVars, clientVars
<1> DEFINE mine   == clientAddresses[handlers[n].current]
           theirs == clientAddresses[handlers[n].wanted]
           told   == handlers[n].told
           to     == IF TellFirst(n) THEN mine ELSE theirs
           x      == IF TellFirst(n) THEN Info(theirs, TRUE)
                                     ELSE Info(told, FALSE)
<1>0. /\ UNCHANGED <<clientAddresses, phase, peer, asked>> /\ Handle(n)
      /\ handlers[n].pc \in {"first", "second"}
      /\ TellFirst(n) => handlers[n].pc = "first"
      /\ ~TellFirst(n) => handlers[n].pc = "second"
      /\ net' = Sent(Server, to, <<x>>)
    BY DEF Handle, TellFirst, TellSecond, At
<1>1. /\ handlers[n] \in Handler
      /\ Len(handlers') = Len(handlers)
      /\ \A m \in 1 .. Len(handlers) : m # n => handlers'[m] = handlers[m]
      /\ handlers'[n].by = handlers[n].by
      /\ handlers'[n].wanted = handlers[n].wanted
      /\ handlers'[n].pc # "address"
      /\ handlers'[n].pc = "answer" => AddClientAddress(n)
      /\ handlers'[n].pc = "second" => TellFirst(n)
    BY <1>0, HandleThread
<1>2. handlers'[n].pc \notin {"address", "answer"}
    BY <1>0, <1>1 DEF AddClientAddress, At
<1>3. TellFirst(n) => handlers'[n].pc = "second" /\ handlers'[n].told = mine
    BY <1>1 DEF TellFirst, Handler, TypeOK
<1>4. /\ handlers[n].wanted \in User /\ handlers[n].current \in User
      /\ <<handlers[n].current, handlers[n].wanted>> \in asked
      /\ <<handlers[n].wanted, handlers[n].current>> \in asked
    <2>1. HandlerOK(handlers[n])
        BY DEF ConsentInv, HandlersOK
    <2> QED
        BY <1>0, <1>1, <2>1 DEF HandlerOK, NamesOK, Inviting, Handler
<1>5. /\ mine \in Program => Account(mine) = handlers[n].current
      /\ theirs \in Program => Account(theirs) = handlers[n].wanted
    BY <1>4, SetupAssumption DEF ConsentInv, AddressesOwned
<1>6. to \in Program => phase[to] \notin Early
    BY <1>4, <1>5, AskedLate
<1>7. x \in Datagram /\ IsInfo(x)
    BY <1>1, <1>4 DEF Info, IsInfo, Datagram, Handler, TypeOK
<1>8. x.peer = IF TellFirst(n) THEN theirs ELSE told
    BY DEF Info
<1>9. \A d \in Program :
          phase[d] = "inviting" => Running(d) /\ clientAddresses[Owner[d]] = d
    BY DEF CalmInv, Calm, LoggedIn, Running
<1> HIDE DEF to, x
<1>10. /\ \A f \in Sender, d \in Program :
              ~(f = Server /\ d = to) => net'[f][d] = net[f][d]
       /\ to \in Program => (Running(to) => net'[Server][to] # <<>>)
       /\ to \in Program => \A y : Has(net'[Server][to], y) =>
              Has(net[Server][to], y) \/ y = x
       /\ \A d \in Program : net[Server][d] # <<>> => net'[Server][d] # <<>>
       /\ \A d \in Program : Known(d)' => Known(d) \/ x.peer = d
    BY <1>0, <1>7, SendsTo
<1> SUFFICES ASSUME NEW d \in Program
             PROVE  Calm(d)'
    BY DEF CalmInv
<1>11. \A f \in Program : net'[f][d] = net[f][d]
    BY <1>10, ServerAssumption DEF Sender
<1>12. SameProgram(d) /\ SameThreads(d)
    BY <1>0, <1>1, <1>2 DEF SameProgram, SameThreads
<1>13. SameEarly(d)
    BY <1>6, <1>10 DEF SameEarly
<1>14. SameInvitation(d)
    <2> SUFFICES ASSUME phase[d] = "inviting"
                 PROVE  SameInvitation(d)
        BY DEF SameInvitation
    <2>0. Running(d) /\ clientAddresses[Owner[d]] = d /\ d # NoProgram
        BY <1>9, SetupAssumption
    <2>1. \A y : Has(net'[Server][d], y) => Has(net[Server][d], y) \/ IsInfo(y)
        BY <1>7, <1>10 DEF Sender
    <2>2. Pending(d) => Pending(d)'
        <3>1. CASE net[Server][d] # <<>>
            BY <1>10, <3>1 DEF Pending
        <3>2. ASSUME NEW m \in 1 .. Len(handlers), m # n,
                     handlers[m].pc = "second", handlers[m].wanted = Owner[d]
              PROVE  Pending(d)'
            BY <1>1, <3>2 DEF Pending
        <3>3. CASE handlers[n].pc = "second" /\ handlers[n].wanted = Owner[d]
            <4>1. to = d
                BY <1>0, <2>0, <3>3 DEF to
            <4> QED
                BY <1>10, <2>0, <4>1 DEF Pending
        <3> QED
            BY <3>1, <3>2, <3>3 DEF Pending
    <2>3. Known(d)' => Known(d) \/ Pending(d)'
        <3> SUFFICES ASSUME x.peer = d
                     PROVE  Pending(d)'
            BY <1>10
        <3>1. CASE TellFirst(n)
            <4>1. handlers'[n].pc = "second" /\ n \in 1 .. Len(handlers')
                BY <1>1, <1>3, <3>1
            <4>2. handlers'[n].wanted = Owner[d]
                BY <1>1, <1>5, <1>8, <3>1, OwnAccount
            <4> QED
                BY <4>1, <4>2 DEF Pending
        <3>2. CASE ~TellFirst(n)
            <4>1. handlers[n].pc = "second" /\ handlers[n].told = d
                BY <1>0, <1>8, <3>2
            <4>2. net[Server][d] # <<>>
                BY <4>1 DEF CalmInv, Calm, AtInvitation
            <4> QED
                BY <1>10, <4>2 DEF Pending
        <3> QED
            BY <3>1, <3>2
    <2>4. ASSUME NEW m \in 1 .. Len(handlers'),
                 handlers'[m].pc = "second", handlers'[m].told = d
          PROVE  \/ net'[Server][d] # <<>>
                 \/ /\ m \in 1 .. Len(handlers)
                    /\ handlers[m].pc = "second" /\ handlers[m].told = d
        <3>1. CASE m # n
            BY <1>1, <2>4, <3>1
        <3>2. CASE m = n
            <4>1. to = d
                BY <1>1, <1>3, <2>4, <3>2 DEF to
            <4> QED
                BY <1>10, <2>0, <4>1
        <3> QED
            BY <3>1, <3>2
    <2> QED
        BY <1>10, <1>11, <2>1, <2>2, <2>3, <2>4 DEF SameInvitation
<1> QED
    BY <1>12, <1>13, <1>14, StaysCalm DEF CalmInv

\* A login is answered by the server, with the token.
LEMMA AnsweredCalm ==
    ASSUME Orderly, TypeOK, CalmInv, NEW f \in Sender, NEW c \in Program,
           LoginAnswered(f, c)
    PROVE  CalmInv'
<1> USE DEF serverVars, clientVars
<1>0. /\ UNCHANGED <<clientAddresses, handlers, peer, asked>>
      /\ net' = Taken(f, c) /\ net[f][c] # <<>> /\ phase[c] = "login"
      /\ \A d \in Program : d # c => phase'[d] = phase[d]
    BY DEF LoginAnswered, Arrives, TypeOK
<1>1. net \in Net /\ net[f][c] \in Seq(Datagram)
    BY DEF TypeOK, Net, Sender
<1>2. Calm(c)
    BY DEF CalmInv
<1>3. f = Server
    BY <1>0, <1>2 DEF Calm, Newcomer, Early, Sender
<1>4. /\ Has(net[f][c], Head(net[f][c]))
      /\ \A x : Has(Tail(net[f][c]), x) => Has(net[f][c], x)
      /\ Len(net[f][c]) <= 1 => Tail(net[f][c]) = <<>>
    BY <1>0, <1>1, HasTaken
<1>5. \A g \in Sender, e \in Program :
          net'[g][e] = IF g = f /\ e = c THEN Tail(net[f][c]) ELSE net[g][e]
    BY <1>0, <1>1, OneTaken
<1>6. /\ Head(net[f][c]).kind = "token" /\ Len(net[f][c]) <= 1
      /\ clientAddresses[Owner[c]] = c
      /\ \A n \in 1 .. Len(handlers) : ~LogsIn(n, c)
    BY <1>0, <1>2, <1>3, <1>4 DEF Calm, AtLogin
<1>7. phase'[c] = "menu"
    BY <1>6 DEF LoginAnswered, TypeOK
<1>8. Calm(c)'
    <2>1. net'[Server][c] = <<>>
        BY <1>3, <1>4, <1>5, <1>6 DEF Sender
    <2>2. Newcomer(c)' /\ Unconnected(c)'
        <3>1. \A g \in Program : net'[g][c] = net[g][c]
            BY <1>3, <1>5, ServerAssumption DEF Sender
        <3> QED
            BY <1>0, <1>2, <3>1 DEF Calm, Newcomer, Unconnected, Early
    <2>3. LoggedIn(c)'
        BY <1>0, <1>6 DEF LoggedIn, LogsIn
    <2> QED
        BY <1>7, <2>1, <2>2, <2>3
           DEF Calm, AtStart, AtLogin, AtMenu, AtInvitation
<1>9. ASSUME NEW d \in Program, d # c
      PROVE  Calm(d)'
    <2>1. \A g \in Sender : net'[g][d] = net[g][d]
        BY <1>5, <1>9
    <2>2. SameProgram(d) /\ SameThreads(d) /\ SameEarly(d)
        BY <1>0, <1>9, <2>1 DEF SameProgram, SameThreads, SameEarly
    <2>3. Known(d)' => Known(d)
        BY <1>4, <1>5 DEF Known
    <2>4. Pending(d) => Pending(d)'
        BY <1>0, <2>1 DEF Pending, Sender
    <2>5. SameInvitation(d)
        <3>1. /\ net'[Server][d] = net[Server][d]
              /\ \A g \in Program : net'[g][d] = net[g][d]
            BY <2>1 DEF Sender
        <3> QED
            BY <1>0, <2>3, <2>4, <3>1 DEF SameInvitation
    <2> QED
        BY <2>2, <2>5, StaysCalm DEF CalmInv
<1> QED
    BY <1>8, <1>9 DEF CalmInv

\* A program that connects is past the invitation; the one it connects to has
\* been told, or will be before it hears of it.
LEMMA ConnectCalm ==
    ASSUME Orderly, TypeOK, ConsentInv, CalmInv,
           NEW f \in Sender, NEW c \in Program, Connect(f, c)
    PROVE  CalmInv'
<1> USE DEF serverVars, clientVars
<1> DEFINE x == Head(net[f][c])
           p == x.peer
<1>0. /\ UNCHANGED <<clientAddresses, handlers, asked>>
      /\ net[f][c] # <<>> /\ IsInfo(x)
      /\ \A d \in Program : d # c => phase'[d] = phase[d] /\ peer'[d] = peer[d]
      /\ phase'[c] \in {"session", "files"}
    BY DEF Connect, Arrives, IsInfo, TypeOK
<1>1. net \in Net /\ net[f][c] \in Seq(Datagram)
    BY DEF TypeOK, Net, Sender
<1>2. /\ x \in Datagram /\ NoNews
      /\ \A g \in Sender, e \in Program :
             ~(g = f /\ e = c) /\ ~(g = c /\ e = p) => net'[g][e] = net[g][e]
    BY <1>1, ConnectQueues
<1>3. p \in Program => Known(p)
    <2>1. Has(net[f][c], x)
        BY <1>0, <1>1, HasTaken
    <2> QED
        BY <1>0, <1>2, <2>1 DEF Known
<1> HIDE DEF x, p
<1>4. Calm(c)'
    BY <1>0, PastCalm
<1>5. ASSUME NEW d \in Program, d # c
      PROVE  Calm(d)'
    <2>1. SameProgram(d) /\ SameThreads(d)
        BY <1>0, <1>5 DEF SameProgram, SameThreads
    <2>2. net'[Server][d] = net[Server][d]
        BY <1>2, <1>5, ServerAssumption DEF Sender
    <2>3. \A g \in Program : net'[g][d] = net[g][d] \/ (g = c /\ d = p)
        BY <1>2, <1>5 DEF Sender
    <2>4. SameEarly(d)
        <3>1. d = p => phase[d] \notin Early
            BY <1>3, KnownLate
        <3> QED
            BY <1>2, <1>5, <3>1 DEF SameEarly
    <2>5. Known(d)' => Known(d)
        BY <1>2 DEF Known, NoNews
    <2>6. Pending(d) => Pending(d)'
        BY <1>0, <2>2 DEF Pending
    <2>7. SameInvitation(d)
        <3> SUFFICES ASSUME phase[d] = "inviting"
                     PROVE  SameInvitation(d)
            BY DEF SameInvitation
        <3>1. d = p => Pending(d)
            BY <1>3 DEF CalmInv, Calm, AtInvitation
        <3> QED
            BY <1>0, <2>2, <2>3, <2>5, <2>6, <3>1 DEF SameInvitation
    <2> QED
        BY <2>1, <2>4, <2>7, StaysCalm DEF CalmInv
<1> QED
    BY <1>4, <1>5 DEF CalmInv

\* Nothing but an address can be misread by a program that waits for one.
LEMMA NothingMisread ==
    ASSUME Orderly, TypeOK, CalmInv, NEW f \in Sender, NEW c \in Program
    PROVE  ~Misread(f, c)
<1> SUFFICES ASSUME Misread(f, c)
             PROVE  FALSE
    OBVIOUS
<1>1. /\ phase[c] = "inviting" /\ Arrives(f, c) /\ net[f][c] # <<>>
      /\ ~IsInfo(Head(net[f][c]))
    BY DEF Misread, Arrives, IsInfo
<1>2. AtInvitation(c)
    BY DEF CalmInv, Calm
<1>3. CASE f = Server
    <2>1. net[f][c] \in Seq(Datagram)
        BY DEF TypeOK, Sender
    <2>2. Has(net[f][c], Head(net[f][c]))
        BY <1>1, <2>1, HasTaken
    <2> QED
        BY <1>1, <1>2, <1>3, <2>2 DEF AtInvitation
<1>4. CASE f # Server
    <2>1. f \in Program
        BY <1>4 DEF Sender
    <2>2. Pending(c)
        BY <1>1, <1>2, <2>1 DEF AtInvitation
    <2>3. ServerIdle
        BY <1>1, <1>4 DEF Arrives, Orderly
    <2> QED
        BY <2>2, <2>3 DEF Pending, ServerIdle, At
<1> QED
    BY <1>3, <1>4

\* The listener runs in programs past their invitation.
LEMMA ListenCalm ==
    ASSUME TypeOK, CalmInv, NEW f \in Sender, NEW c \in Program, Listen(f, c)
    PROVE  CalmInv'
<1> USE DEF serverVars, clientVars
<1>0. /\ UNCHANGED <<clientAddresses, handlers, phase, peer, asked>>
      /\ net' = Taken(f, c) /\ net[f][c] # <<>>
      /\ peer[c] # NoProgram /\ phase[c] \in {"files", "session", "inviting"}
    BY DEF Listen, Arrives
<1>1. net \in Net /\ net[f][c] \in Seq(Datagram)
    BY DEF TypeOK, Net, Sender
<1>2. \A g \in Sender, e \in Program :
          net'[g][e] = IF g = f /\ e = c THEN Tail(net[f][c]) ELSE net[g][e]
    BY <1>0, <1>1, OneTaken
<1>3. Calm(c)'
    <2>1. phase[c] # "inviting"
        BY <1>0 DEF CalmInv, Calm, Unconnected
    <2> QED
        BY <1>0, <2>1, PastCalm
<1>4. NoNews
    BY <1>0, TakingIsNoNews
<1>5. ASSUME NEW d \in Program, d # c
      PROVE  Calm(d)'
    <2>1. \A g \in Sender : net'[g][d] = net[g][d]
        BY <1>2, <1>5
    <2>2. SameProgram(d) /\ SameThreads(d) /\ SameEarly(d)
        BY <1>0, <2>1 DEF SameProgram, SameThreads, SameEarly
    <2>3. Known(d)' => Known(d)
        BY <1>4 DEF Known, NoNews
    <2>4. Pending(d) => Pending(d)'
        BY <1>0, <2>1 DEF Pending, Sender
    <2>5. SameInvitation(d)
        <3>1. /\ net'[Server][d] = net[Server][d]
              /\ \A g \in Program : net'[g][d] = net[g][d]
            BY <2>1 DEF Sender
        <3> QED
            BY <1>0, <2>3, <2>4, <3>1 DEF SameInvitation
    <2> QED
        BY <2>2, <2>5, StaysCalm DEF CalmInv
<1> QED
    BY <1>3, <1>5 DEF CalmInv

\* Nor does it matter that one has its files, or is closed.
LEMMA LeaveCalm ==
    ASSUME TypeOK, CalmInv, NEW c \in Program, GetFiles(c) \/ Close(c)
    PROVE  CalmInv'
<1> USE DEF serverVars, clientVars
<1>0. /\ UNCHANGED <<clientAddresses, handlers, peer, asked>>
      /\ \A d \in Program : d # c => phase'[d] = phase[d]
      /\ phase'[c] \in {"session", "closed"}
    BY DEF GetFiles, Close, TypeOK
<1>1. net \in Net /\ Server \in Sender
    BY DEF TypeOK, Net, Sender
<1>2. \A g \in Sender, e \in Program : e # c => net'[g][e] = net[g][e]
    <2>1. CASE GetFiles(c)
        BY <2>1 DEF GetFiles
    <2>2. CASE Close(c)
        <3>1. net' = [g \in Program \cup {Server} |->
                         [net[g] EXCEPT ![c] = <<>>]]
            BY <2>2 DEF Close
        <3>2. \A g \in Sender, e \in Program :
                  net'[g][e] = IF e = c THEN <<>> ELSE net[g][e]
            BY <1>1, <3>1, SocketGone, ZenonT(60)
        <3> QED
            BY <3>2
    <2> QED
        BY <2>1, <2>2
<1>3. NoNews
    BY <1>1, TakingIsNoNews DEF GetFiles, Close
<1>4. Calm(c)'
    BY <1>0, PastCalm
<1>5. ASSUME NEW d \in Program, d # c
      PROVE  Calm(d)'
    <2>1. \A g \in Sender : net'[g][d] = net[g][d]
        BY <1>2, <1>5
    <2>2. SameProgram(d) /\ SameThreads(d) /\ SameEarly(d)
        BY <1>0, <1>5, <2>1 DEF SameProgram, SameThreads, SameEarly
    <2>3. Known(d)' => Known(d)
        BY <1>3 DEF Known, NoNews
    <2>4. Pending(d) => Pending(d)'
        BY <1>0, <2>1 DEF Pending, Sender
    <2>5. SameInvitation(d)
        <3>1. /\ net'[Server][d] = net[Server][d]
              /\ \A g \in Program : net'[g][d] = net[g][d]
            BY <2>1 DEF Sender
        <3> QED
            BY <1>0, <2>3, <2>4, <3>1 DEF SameInvitation
    <2> QED
        BY <2>2, <2>5, StaysCalm DEF CalmInv
<1> QED
    BY <1>4, <1>5 DEF CalmInv

\* No step breaks the calm.
LEMMA StepCalm ==
    ASSUME Orderly, TypeOK, NamesOK, ConsentInv, CalmInv, [Next]_vars
    PROVE  CalmInv'
<1>1. ASSUME NEW n \in 1 .. Len(handlers), Handle(n)
      PROVE  CalmInv'
    BY <1>1, SilentCalm, ResponseCalm, AddressCalm DEF Handle
<1>2. ASSUME NEW c \in Program,
             \/ SendLogin(c) \/ GetFiles(c) \/ Close(c)
             \/ \E v \in User : SendInvite(c, v)
      PROVE  CalmInv'
    BY <1>2, LoginCalm, InviteCalm, LeaveCalm
<1>3. ASSUME NEW f \in Sender, NEW c \in Program, Receive(f, c)
      PROVE  CalmInv'
    BY <1>3, AnsweredCalm, ConnectCalm, NothingMisread, ListenCalm DEF Receive
<1>4. \A f, c : ~Lose(f, c)
    BY DEF Lose, Orderly
<1>5. CASE UNCHANGED vars
    BY <1>5 DEF vars, serverVars, clientVars, CalmInv, Calm, Newcomer,
         Unconnected, AtStart, AtLogin, LoggedIn, AtMenu, AtInvitation,
         LogsIn, Pending, Known
<1> QED
    BY <1>1, <1>2, <1>3, <1>4, <1>5 DEF Next, Sender

\* int.Parse of ConnectP2P: no program takes anything but an address for the
\* answer to its invitation, if every user has an account and one program,
\* invites once, and the datagrams of the server arrive and arrive first.
THEOREM SetupNeverCrashes == Orderly => (Spec => []NoCrash)
<1> SUFFICES ASSUME Orderly
             PROVE  Spec => []NoCrash
    OBVIOUS
<1> DEFINE Inv == TypeOK /\ NamesOK /\ ConsentInv /\ CalmInv
<1>1. Init => Inv
    BY InitType, InitConsent, InitCalm
<1>2. Inv /\ [Next]_vars => Inv'
    BY StepType, StepNames, StepConsent, StepCalm
<1>3. Inv => NoCrash
    BY DEF CalmInv, Calm, NoCrash
<1> QED
    BY <1>1, <1>2, <1>3, PTL DEF Spec
=============================================================================
