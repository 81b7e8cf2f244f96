-------------------------- MODULE SessionSetupProofs --------------------------
(***************************************************************************)
(* MutualConsent for every number of users, programs and requests, under   *)
(* every interleaving, loss and closing of programs.  The two invitations  *)
(* are compared in different steps and a user may change its mind between  *)
(* them: what is inductive is not that both stand, but that each of them   *)
(* was made.                                                               *)
(***************************************************************************)
EXTENDS SessionSetup, SequenceTheorems, TLAPS

Sender == Program \cup {Server}
Net    == [Sender -> [Program -> Seq(Datagram)]]

Agreed(c, d) == /\ <<Account(c), Account(d)>> \in asked
                /\ <<Account(d), Account(c)>> \in asked

\* A name's address is that of a program that logged in with it.
AddressesOwned == \A u \in User :
    clientAddresses[u] # NoProgram => Account(clientAddresses[u]) = u

InvitesAsked == \A u \in User :
    sessionInvites[u] # NoUser => <<u, sessionInvites[u]>> \in asked

Inviting == {"invite", "flag", "claim", "mine", "theirs", "first", "second"}

\* What a request thread has established by the time it is at its pc.
HandlerOK(h) ==
    /\ h.current = Account(h.by)
    /\ h.pc \in Inviting =>
           h.wanted \in User /\ <<h.current, h.wanted>> \in asked
    /\ h.pc \in {"first", "second"} => <<h.wanted, h.current>> \in asked
    /\ h.pc = "second" /\ h.told # NoProgram => Account(h.told) = h.current

HandlersOK == \A n \in 1 .. Len(handlers) : HandlerOK(handlers[n])

\* An address is only ever sent to a program it may be shown to.
InfoOK(c, d) == d.peer # NoProgram => Agreed(c, d.peer)
InfoIn(N) == \A f \in Sender, c \in Program :
                 \A i \in 1 .. Len(N[f][c]) : InfoOK(c, N[f][c][i])

ConsentInv == /\ AddressesOwned
              /\ InvitesAsked
              /\ HandlersOK
              /\ InfoIn(net)
              /\ MutualConsent

\* The thread of an invitation knows whom it is for: TypeOK is inductive only
\* with this, as the address of that user is looked up.
NamesOK == \A n \in 1 .. Len(handlers) :
               handlers[n].pc \in Inviting => handlers[n].wanted \in User

-----------------------------------------------------------------------------

\* Every program logs in with the name of a user.
LEMMA AccountType == \A c \in Program : Account(c) \in User
BY SetupAssumption DEF Account

\* Datagrams without an address have the form of datagrams.
LEMMA PlainType ==
    ASSUME NEW k \in {"token", "info", "greeting", "id", "files"}
    PROVE  Plain(k) \in Datagram /\ Plain(k).peer = NoProgram
BY DEF Plain, Datagram

\* Sending keeps the network a network.
LEMMA SentType ==
    ASSUME net \in Net, NEW f \in Sender, NEW c, NEW ds \in Seq(Datagram)
    PROVE  Sent(f, c, ds) \in Net
BY DEF Sent, Net

\* Taking the first datagram does, too.
LEMMA TakenType ==
    ASSUME net \in Net, NEW f \in Sender, NEW c \in Program,
           net[f][c] # <<>>
    PROVE  /\ Taken(f, c) \in Net
           /\ Head(net[f][c]) \in Datagram
BY DEF Taken, Net

\* Emptying the socket of a dead program does, too.
LEMMA DroppedType ==
    ASSUME net \in Net, NEW c \in Program
    PROVE  [g \in Sender |-> [net[g] EXCEPT ![c] = <<>>]] \in Net
BY DEF Net

\* A request thread becomes h: it is as well typed as h, and the others stay.
LEMMA HandlersUpdate ==
    ASSUME handlers \in Seq(Handler), NEW n \in 1 .. Len(handlers),
           NEW h \in Handler, handlers' = [handlers EXCEPT ![n] = h]
    PROVE  /\ handlers' \in Seq(Handler)
           /\ Len(handlers') = Len(handlers)
           /\ handlers'[n] = h
           /\ \A m \in 1 .. Len(handlers) : m # n => handlers'[m] = handlers[m]
BY ExceptSeq

\* A request thread moves on to pc.
LEMMA GotoType ==
    ASSUME handlers \in Seq(Handler), NEW n \in 1 .. Len(handlers),
           NEW pc \in Pc, Goto(n, pc)
    PROVE  /\ handlers' \in Seq(Handler)
           /\ Len(handlers') = Len(handlers)
           /\ handlers'[n] = [handlers[n] EXCEPT !.pc = pc]
           /\ \A m \in 1 .. Len(handlers) : m # n => handlers'[m] = handlers[m]
<1> DEFINE h == [handlers[n] EXCEPT !.pc = pc]
<1>1. handlers[n] \in Handler
  OBVIOUS
<1>2. h \in Handler
  BY <1>1 DEF Handler, Pc
<1>3. handlers' = [handlers EXCEPT ![n] = h]
  BY DEF Goto
<1> HIDE DEF h
<1>4. QED
  <2>1. /\ handlers' \in Seq(Handler)
        /\ Len(handlers') = Len(handlers)
        /\ handlers'[n] = h
        /\ \A m \in 1 .. Len(handlers) : m # n => handlers'[m] = handlers[m]
    BY <1>2, <1>3, HandlersUpdate
  <2> QED  BY <2>1 DEF h

\* Behind the first of two queues read in one go comes the second.
LEMMA SecondPart ==
    ASSUME NEW q \in Seq(Datagram), NEW ds \in Seq(Datagram),
           NEW i \in 1 .. Len(q \o ds), i > Len(q)
    PROVE  i - Len(q) \in 1 .. Len(ds) /\ (q \o ds)[i] = ds[i - Len(q)]
OBVIOUS

\* What is sent is fit to be seen by its receiver if its parts are.
LEMMA SentInfo ==
    ASSUME net \in Net, InfoIn(net), NEW f \in Sender, NEW c,
           NEW ds \in Seq(Datagram),
           c \in Program => \A i \in 1 .. Len(ds) : InfoOK(c, ds[i])
    PROVE  InfoIn(Sent(f, c, ds))
<1> SUFFICES ASSUME NEW g \in Sender, NEW e \in Program,
                    NEW i \in 1 .. Len(Sent(f, c, ds)[g][e])
             PROVE  InfoOK(e, Sent(f, c, ds)[g][e][i])
  BY DEF InfoIn
<1>1. CASE c \in Program /\ Running(c) /\ g = f /\ e = c
  <2>1. Sent(f, c, ds)[g][e] = net[f][c] \o ds
    BY <1>1 DEF Sent, Net
  <2>2. net[f][c] \in Seq(Datagram)
    BY <1>1 DEF Net
  <2>3. CASE i <= Len(net[f][c])
    <3>1. Sent(f, c, ds)[g][e][i] = net[f][c][i]
      BY <2>1, <2>2, <2>3
    <3> QED  BY <1>1, <2>2, <2>3, <3>1 DEF InfoIn
  <2>4. CASE i > Len(net[f][c])
    <3>1. /\ i - Len(net[f][c]) \in 1 .. Len(ds)
          /\ Sent(f, c, ds)[g][e][i] = ds[i - Len(net[f][c])]
      BY <2>1, <2>2, <2>4, SecondPart
    <3> QED  BY <1>1, <3>1
  <2> QED  BY <2>1, <2>2, <2>3, <2>4
<1>2. CASE ~(c \in Program /\ Running(c) /\ g = f /\ e = c)
  <2>1. Sent(f, c, ds)[g][e] = net[g][e]
    BY <1>2 DEF Sent, Net
  <2> QED  BY <2>1 DEF InfoIn
<1> QED  BY <1>1, <1>2

\* Taking the first datagram reveals nothing new.
LEMMA TakenInfo ==
    ASSUME net \in Net, InfoIn(net), NEW f \in Sender, NEW c \in Program,
           net[f][c] # <<>>
    PROVE  InfoIn(Taken(f, c)) /\ InfoOK(c, Head(net[f][c]))
<1>1. net[f][c] \in Seq(Datagram) /\ Len(net[f][c]) >= 1
  BY DEF Net
<1>2. InfoOK(c, Head(net[f][c]))
  BY <1>1 DEF InfoIn
<1>3. ASSUME NEW g \in Sender, NEW e \in Program,
             NEW i \in 1 .. Len(Taken(f, c)[g][e])
      PROVE  InfoOK(e, Taken(f, c)[g][e][i])
  <2>1. CASE g = f /\ e = c
    <3>1. Taken(f, c)[g][e] = Tail(net[f][c])
      BY <2>1 DEF Taken, Net
    <3>2. i + 1 \in 1 .. Len(net[f][c]) /\ Tail(net[f][c])[i] = net[f][c][i + 1]
      BY <1>1, <3>1
    <3> QED  BY <2>1, <3>1, <3>2 DEF InfoIn
  <2>2. CASE ~(g = f /\ e = c)
    <3>1. Taken(f, c)[g][e] = net[g][e]
      BY <2>2 DEF Taken, Net
    <3> QED  BY <3>1 DEF InfoIn
  <2> QED  BY <2>1, <2>2
<1> QED  BY <1>2, <1>3 DEF InfoIn

\* Nor does emptying a socket.
LEMMA DroppedInfo ==
    ASSUME net \in Net, InfoIn(net), NEW c \in Program
    PROVE  InfoIn([g \in Sender |-> [net[g] EXCEPT ![c] = <<>>]])
<1> DEFINE N == [g \in Sender |-> [net[g] EXCEPT ![c] = <<>>]]
<1> SUFFICES ASSUME NEW g \in Sender, NEW e \in Program,
                    NEW i \in 1 .. Len(N[g][e])
             PROVE  InfoOK(e, N[g][e][i])
  BY DEF InfoIn
<1>1. N[g][e] = IF e = c THEN <<>> ELSE net[g][e]
  BY DEF Net
<1>2. e # c
  BY <1>1
<1> QED  BY <1>1, <1>2 DEF InfoIn

-----------------------------------------------------------------------------

\* The program starts in a state of the right type.
LEMMA InitType == Init => TypeOK /\ NamesOK
<1> SUFFICES ASSUME Init
             PROVE  TypeOK /\ NamesOK
  OBVIOUS
<1> USE DEF Init
<1>1. /\ clientAddresses \in [User -> Program \cup {NoProgram}]
      /\ sessionInvites \in [User -> User \cup {NoUser}]
      /\ infoExchangeFlag \in BOOLEAN
      /\ handlers \in Seq(Handler)
  OBVIOUS
<1>2. net \in [Program \cup {Server} -> [Program -> Seq(Datagram)]]
  OBVIOUS
<1>3. /\ phase \in [Program -> Phase]
      /\ naming \in [Program -> User \cup {NoUser}]
      /\ hostFlag \in [Program -> BOOLEAN]
  BY DEF Phase
<1>4. /\ peer \in [Program -> Program \cup {NoProgram}]
      /\ filesRecieved \in [Program -> BOOLEAN]
      /\ asked \subseteq User \X User
  OBVIOUS
<1>5. NamesOK
  BY DEF NamesOK
<1> QED  BY <1>1, <1>2, <1>3, <1>4, <1>5 DEF TypeOK

\* No step leaves the types.
LEMMA StepType == TypeOK /\ NamesOK /\ [Next]_vars => TypeOK'
<1> SUFFICES ASSUME TypeOK, NamesOK, [Next]_vars
             PROVE  TypeOK'
  OBVIOUS
<1> USE DEF TypeOK, serverVars, clientVars
<1>n. net \in Net
  BY DEF Net, Sender
<1>1. CASE UNCHANGED vars
  BY <1>1 DEF vars
<1>2. ASSUME NEW n \in 1 .. Len(handlers), Handle(n)
      PROVE  TypeOK'
  <2>0. handlers[n] \in Handler
    OBVIOUS
  <2>h. /\ handlers[n].current \in User
        /\ handlers[n].by \in Program
        /\ handlers[n].wanted \in User \cup {NoUser}
        /\ handlers[n].told \in Program \cup {NoProgram}
    BY <2>0 DEF Handler
  <2>g. ASSUME NEW pc \in Pc, Goto(n, pc)
        PROVE  handlers' \in Seq(Handler)
    BY <2>g, GotoType
  <2>s. ASSUME NEW c, NEW d \in Datagram, net' = Sent(Server, c, <<d>>)
        PROVE  net' \in [Program \cup {Server} -> [Program -> Seq(Datagram)]]
    <3>1. <<d>> \in Seq(Datagram) /\ Server \in Sender
      BY DEF Sender
    <3>2. net' \in Net
      BY <1>n, <2>s, <3>1, SentType
    <3> QED  BY <3>2 DEF Net, Sender
  <2>1. CASE AddClientAddress(n)
    BY <2>1, <2>h, <2>g DEF AddClientAddress, Pc
  <2>2. CASE SendResponse(n)
    BY <2>2, <2>g, <2>s, PlainType DEF SendResponse, Pc
  <2>3. CASE EnterSession(n)
    BY <2>3, <2>h, <2>g DEF EnterSession, Pc
  <2>4. CASE TestFlag(n)
    BY <2>4, <2>g DEF TestFlag, Pc
  <2>5. CASE ClearFlag(n)
    BY <2>5, <2>g DEF ClearFlag, Pc
  <2>6. CASE ReadMine(n)
    BY <2>6, <2>g DEF ReadMine, Pc
  <2>7. CASE ReadTheirs(n)
    BY <2>7, <2>g DEF ReadTheirs, Pc
  <2>8. CASE TellFirst(n)
    <3> DEFINE h == [handlers[n] EXCEPT !.pc = "second",
                        !.told = clientAddresses[handlers[n].current]]
    <3>1. h \in Handler
      BY <2>0, <2>h DEF Handler, Pc
    <3>2. handlers' = [handlers EXCEPT ![n] = h]
      BY <2>8 DEF TellFirst
    <3>3. handlers' \in Seq(Handler)
      <4> HIDE DEF h
      <4> QED  BY <3>1, <3>2, HandlersUpdate
    <3>4. handlers[n].wanted \in User
      BY <2>8 DEF TellFirst, At, NamesOK, Inviting
    <3>5. Info(clientAddresses[handlers[n].wanted], TRUE) \in Datagram
      BY <3>4 DEF Info, Datagram
    <3> QED  BY <2>8, <2>s, <3>3, <3>5 DEF TellFirst
  <2>9. CASE TellSecond(n)
    <3>1. Info(handlers[n].told, FALSE) \in Datagram
      BY <2>h DEF Info, Datagram
    <3> QED  BY <2>9, <2>g, <2>s, <3>1 DEF TellSecond, Pc
  <2> QED  BY <1>2, <2>1, <2>2, <2>3, <2>4, <2>5, <2>6, <2>7, <2>8, <2>9
           DEF Handle
<1>3. ASSUME NEW c \in Program, SendLogin(c)
      PROVE  TypeOK'
  <2>1. Account(c) \in User
    BY AccountType
  <2>2. handlers' \in Seq(Handler)
    BY <1>3, <2>1 DEF SendLogin, Request, Handler, Pc
  <2> QED  BY <1>3, <2>2 DEF SendLogin, Phase
<1>4. ASSUME NEW c \in Program, NEW v \in User, SendInvite(c, v)
      PROVE  TypeOK'
  <2>1. Account(c) \in User
    BY AccountType
  <2>2. handlers' \in Seq(Handler)
    BY <1>4, <2>1 DEF SendInvite, Request, Handler, Pc
  <2> QED  BY <1>4, <2>1, <2>2 DEF SendInvite, Phase
<1>5. ASSUME NEW c \in Program, GetFiles(c)
      PROVE  TypeOK'
  BY <1>5 DEF GetFiles, Phase
<1>6. ASSUME NEW c \in Program, Close(c)
      PROVE  TypeOK'
  <2>1. net' \in Net
    BY <1>n, <1>6, DroppedType DEF Close, Sender
  <2> QED  BY <1>6, <2>1 DEF Close, Phase, Net, Sender
<1>7. ASSUME NEW f \in Sender, NEW c \in Program, Lose(f, c)
      PROVE  TypeOK'
  <2>1. net' \in Net
    BY <1>n, <1>7, TakenType DEF Lose
  <2> QED  BY <1>7, <2>1 DEF Lose, Net, Sender
<1>8. ASSUME NEW f \in Sender, NEW c \in Program, Receive(f, c)
      PROVE  TypeOK'
  <2>0. net[f][c] # <<>>
    BY <1>8 DEF Receive, LoginAnswered, Connect, Misread, Listen, Arrives
  <2>t. Taken(f, c) \in Net /\ Head(net[f][c]) \in Datagram
    BY <1>n, <2>0, TakenType
  <2>1. CASE LoginAnswered(f, c)
    BY <2>1, <2>t DEF LoginAnswered, Phase, Net, Sender
  <2>2. CASE Connect(f, c)
    <3>1. Head(net[f][c]).peer \in Program \cup {NoProgram}
      BY <2>t DEF Datagram
    <3>2. net' \in Net
      <4> DEFINE p  == Head(net[f][c]).peer
                 ds == IF hostFlag[c] /\ Head(net[f][c]).host
                       THEN <<Plain("greeting"), Plain("id"), Plain("files")>>
                       ELSE <<Plain("greeting")>>
      <4>1. ds \in Seq(Datagram)
        BY PlainType
      <4>2. net' = IF p \in Program /\ Running(p)
                   THEN [Taken(f, c) EXCEPT ![c][p] = @ \o ds]
                   ELSE Taken(f, c)
        BY <2>2 DEF Connect
      <4> DEFINE rest == Taken(f, c)
      <4>3. rest \in Net
        BY <2>t
      <4>4. net' = IF p \in Program /\ Running(p)
                   THEN [rest EXCEPT ![c] = [rest[c] EXCEPT ![p] = @ \o ds]]
                   ELSE rest
        BY <4>2
      <4> HIDE DEF p, ds, rest
      <4>5. CASE p \in Program /\ Running(p)
        <5>1. c \in Sender /\ rest[c] \in [Program -> Seq(Datagram)]
          BY <4>3 DEF Net, Sender
        <5>2. rest[c][p] \o ds \in Seq(Datagram)
          BY <4>1, <4>5, <5>1
        <5>3. [rest[c] EXCEPT ![p] = @ \o ds] \in [Program -> Seq(Datagram)]
          BY <4>5, <5>1, <5>2
        <5> QED  BY <4>3, <4>4, <4>5, <5>1, <5>3 DEF Net
      <4>6. CASE ~(p \in Program /\ Running(p))
        BY <4>3, <4>4, <4>6
      <4> QED  BY <4>5, <4>6
    <3> QED  BY <2>2, <3>1, <3>2 DEF Connect, Phase, Net, Sender
  <2>3. CASE Misread(f, c)
    <3>1. net' \in Net
      BY <1>n, <2>3, DroppedType DEF Misread, Sender
    <3> QED  BY <2>3, <3>1 DEF Misread, Phase, Net, Sender
  <2>4. CASE Listen(f, c)
    BY <2>4, <2>t DEF Listen, Net, Sender
  <2> QED  BY <1>8, <2>1, <2>2, <2>3, <2>4 DEF Receive
<1> QED  BY <1>1, <1>2, <1>3, <1>4, <1>5, <1>6, <1>7, <1>8 DEF Next, Sender

\* An invitation keeps the name it was made with.
LEMMA StepNames == TypeOK /\ NamesOK /\ [Next]_vars => NamesOK'
<1> SUFFICES ASSUME TypeOK, NamesOK, [Next]_vars
             PROVE  NamesOK'
  OBVIOUS
<1>h. handlers \in Seq(Handler)
  BY DEF TypeOK
<1>1. ASSUME UNCHANGED handlers
      PROVE  NamesOK'
  BY <1>1 DEF NamesOK
<1>2. ASSUME NEW n \in 1 .. Len(handlers), NEW pc \in Pc, Goto(n, pc),
             pc \in Inviting => handlers[n].pc \in Inviting
      PROVE  NamesOK'
  <2>1. handlers[n] \in Handler
    BY <1>h
  <2>2. handlers'[n].pc = pc /\ handlers'[n].wanted = handlers[n].wanted
    BY <1>h, <1>2, <2>1, GotoType DEF Handler
  <2> QED  BY <1>h, <1>2, <2>2, GotoType DEF NamesOK
<1>3. ASSUME NEW n \in 1 .. Len(handlers), TellFirst(n)
      PROVE  NamesOK'
  <2>1. handlers[n] \in Handler
    BY <1>h
  <2>2. handlers[n].wanted \in User
    BY <1>3 DEF TellFirst, At, NamesOK, Inviting
  <2>3. \A m \in 1 .. Len(handlers) : m # n => handlers'[m] = handlers[m]
    BY <1>3 DEF TellFirst
  <2>4. /\ Len(handlers') = Len(handlers)
        /\ handlers'[n].wanted = handlers[n].wanted
    BY <1>h, <1>3, <2>1 DEF TellFirst, Handler
  <2> QED  BY <2>2, <2>3, <2>4 DEF NamesOK
<1>4. ASSUME NEW c \in Program, NEW pc, NEW v \in User \cup {NoUser},
             Request(c, pc, v), pc \in Inviting => v \in User
      PROVE  NamesOK'
  BY <1>h, <1>4 DEF Request, NamesOK
<1>5. ASSUME NEW n \in 1 .. Len(handlers), Handle(n)
      PROVE  NamesOK'
  BY <1>2, <1>3, <1>5
     DEF Handle, AddClientAddress, SendResponse, EnterSession, TestFlag,
         ClearFlag, ReadMine, ReadTheirs, TellSecond, At, Pc, Inviting
<1>6. ASSUME NEW c \in Program, SendLogin(c) \/ \E v \in User : SendInvite(c, v)
      PROVE  NamesOK'
  BY <1>4, <1>6 DEF SendLogin, SendInvite, Inviting
<1>7. ASSUME NEW c \in Program, GetFiles(c) \/ Close(c)
      PROVE  NamesOK'
  BY <1>1, <1>7 DEF GetFiles, Close
<1>8. ASSUME NEW f \in Program \cup {Server}, NEW c \in Program,
             Receive(f, c) \/ Lose(f, c)
      PROVE  NamesOK'
  BY <1>1, <1>8 DEF Receive, LoginAnswered, Connect, Misread, Listen, Lose
<1> QED  BY <1>1, <1>5, <1>6, <1>7, <1>8 DEF Next, vars

\* Accounts, invitations, threads, datagrams and programs keep their types.
THEOREM SetupTypeCorrect == Spec => []TypeOK
<1> QED  BY InitType, StepType, StepNames, PTL DEF Spec

-----------------------------------------------------------------------------

\* At first nobody has invited anybody and nobody is told anything.
LEMMA InitConsent == Init => ConsentInv
BY DEF Init, ConsentInv, AddressesOwned, InvitesAsked, HandlersOK, InfoIn,
       MutualConsent, Sender

\* A thread that moves on to pc keeps the invariant of the threads if what
\* it has established by then holds of it.
LEMMA GotoConsent ==
    ASSUME TypeOK, HandlersOK, NEW n \in 1 .. Len(handlers), NEW pc \in Pc,
           Goto(n, pc), asked' = asked,
           HandlerOK([handlers[n] EXCEPT !.pc = pc])
    PROVE  HandlersOK'
<1> DEFINE h == [handlers[n] EXCEPT !.pc = pc]
<1>1. /\ Len(handlers') = Len(handlers)
      /\ handlers'[n] = h
      /\ \A m \in 1 .. Len(handlers) : m # n => handlers'[m] = handlers[m]
  BY GotoType DEF TypeOK
<1> HIDE DEF h
<1>2. ASSUME NEW m \in 1 .. Len(handlers')
      PROVE  HandlerOK(handlers[m])'
  <2>1. HandlerOK(handlers'[m])
    BY <1>1 DEF HandlersOK, h
  <2> QED  BY <2>1 DEF HandlerOK
<1> QED  BY <1>2 DEF HandlersOK

\* A request thread at work: the only steps that compare invitations or
\* send addresses.
LEMMA HandleConsent ==
    ASSUME TypeOK, NamesOK, ConsentInv,
           NEW n \in 1 .. Len(handlers), Handle(n)
    PROVE  ConsentInv'
<1> USE DEF ConsentInv, serverVars, clientVars
<1> DEFINE h == handlers[n]
<1>h. h \in Handler /\ HandlerOK(h)
  BY DEF TypeOK, HandlersOK
<1>n. net \in Net /\ Server \in Sender
  BY DEF TypeOK, Net, Sender
<1>s. ASSUME NEW c, NEW d \in Datagram, net' = Sent(Server, c, <<d>>),
             c \in Program => InfoOK(c, d), asked' = asked
      PROVE  InfoIn(net)'
  <2>0. <<d>> \in Seq(Datagram) /\ \A i \in 1 .. Len(<<d>>) : <<d>>[i] = d
    OBVIOUS
  <2>1. InfoIn(net')
    BY <1>n, <1>s, <2>0, SentInfo
  <2> QED  BY <1>s, <2>1 DEF InfoIn, InfoOK, Agreed
<1>k. ASSUME UNCHANGED <<net, asked>>
      PROVE  InfoIn(net)'
  BY <1>k DEF InfoIn, InfoOK, Agreed
<1>m. ASSUME UNCHANGED <<clientVars, asked>>
      PROVE  MutualConsent'
  BY <1>m DEF MutualConsent
<1>g. ASSUME NEW pc \in Pc, Goto(n, pc), asked' = asked,
             pc \in Inviting => h.pc \in Inviting,
             pc \in {"first", "second"} =>
                 <<h.wanted, h.current>> \in asked,
             pc # "second"
      PROVE  HandlersOK'
  <2>1. HandlerOK([h EXCEPT !.pc = pc])
    BY <1>h, <1>g DEF HandlerOK, Handler
  <2> QED  BY <1>g, <2>1, GotoConsent
<1>1. CASE AddClientAddress(n)
  <2>1. AddressesOwned'
    BY <1>h, <1>1 DEF AddClientAddress, AddressesOwned, HandlerOK, Handler,
                      TypeOK
  <2>2. HandlersOK'
    BY <1>g, <1>1 DEF AddClientAddress, Pc, Inviting
  <2> QED  BY <1>1, <1>k, <1>m, <2>1, <2>2 DEF AddClientAddress, InvitesAsked
<1>2. CASE SendResponse(n)
  <2>1. HandlersOK'
    BY <1>g, <1>2 DEF SendResponse, Pc, Inviting
  <2>2. InfoIn(net)'
    BY <1>s, <1>2, PlainType DEF SendResponse, InfoOK
  <2> QED  BY <1>2, <1>m, <2>1, <2>2
           DEF SendResponse, InvitesAsked, AddressesOwned
<1>3. CASE EnterSession(n)
  <2>1. HandlersOK'
    BY <1>g, <1>3 DEF EnterSession, At, Pc, Inviting
  <2>2. InvitesAsked'
    BY <1>h, <1>3 DEF EnterSession, At, InvitesAsked, HandlerOK, Inviting,
                      Handler, TypeOK
  <2> QED  BY <1>3, <1>k, <1>m, <2>1, <2>2 DEF EnterSession, AddressesOwned
<1>4. CASE TestFlag(n) \/ ClearFlag(n) \/ ReadMine(n)
  <2>1. HandlersOK'
    BY <1>g, <1>4 DEF TestFlag, ClearFlag, ReadMine, At, Pc, Inviting
  <2> QED  BY <1>4, <1>k, <1>m, <2>1
           DEF TestFlag, ClearFlag, ReadMine, AddressesOwned, InvitesAsked
<1>5. CASE ReadTheirs(n)
  <2>1. h.wanted \in User /\ h.current \in User
    BY <1>h, <1>5 DEF ReadTheirs, At, NamesOK, Inviting, Handler
  <2>2. sessionInvites[h.wanted] = h.current =>
            <<h.wanted, h.current>> \in asked
    BY <2>1, SetupAssumption DEF InvitesAsked
  <2>3. HandlersOK'
    BY <1>g, <1>5, <2>2 DEF ReadTheirs, At, Pc, Inviting
  <2> QED  BY <1>5, <1>k, <1>m, <2>3
           DEF ReadTheirs, AddressesOwned, InvitesAsked
<1>6. CASE TellFirst(n)
  <2> DEFINE mine   == clientAddresses[h.current]
             theirs == clientAddresses[h.wanted]
  <2>1. /\ h.wanted \in User /\ h.current \in User
        /\ <<h.current, h.wanted>> \in asked
        /\ <<h.wanted, h.current>> \in asked
    BY <1>h, <1>6 DEF TellFirst, At, HandlerOK, Inviting, Handler
  <2>2. /\ mine \in Program \cup {NoProgram}
        /\ theirs \in Program \cup {NoProgram}
        /\ mine # NoProgram => Account(mine) = h.current
        /\ theirs # NoProgram => Account(theirs) = h.wanted
    BY <2>1 DEF TypeOK, AddressesOwned
  <2>3. InfoIn(net)'
    <3>1. Info(theirs, TRUE) \in Datagram
      BY <2>2 DEF Info, Datagram
    <3>2. mine \in Program => InfoOK(mine, Info(theirs, TRUE))
      BY <2>1, <2>2, SetupAssumption DEF Info, InfoOK, Agreed
    <3> QED  BY <1>6, <1>s, <3>1, <3>2 DEF TellFirst
  <2>4. HandlersOK'
    <3> DEFINE k == [h EXCEPT !.pc = "second", !.told = mine]
    <3>1. k \in Handler
      BY <1>h, <2>2 DEF Handler, Pc
    <3>2. HandlerOK(k)
      BY <1>h, <2>1, <2>2 DEF HandlerOK, Handler
    <3>3. handlers' = [handlers EXCEPT ![n] = k]
      BY <1>6 DEF TellFirst
    <3> HIDE DEF k
    <3>4. \A m \in 1 .. Len(handlers') : HandlerOK(handlers'[m])
      BY <3>1, <3>2, <3>3, HandlersUpdate DEF HandlersOK, TypeOK
    <3> QED  BY <1>6, <3>4 DEF HandlersOK, HandlerOK, TellFirst
  <2> QED  BY <1>6, <1>m, <2>3, <2>4
           DEF TellFirst, AddressesOwned, InvitesAsked
<1>7. CASE TellSecond(n)
  <2> DEFINE theirs == clientAddresses[h.wanted]
  <2>1. /\ h.wanted \in User
        /\ <<h.current, h.wanted>> \in asked
        /\ <<h.wanted, h.current>> \in asked
        /\ h.told \in Program \cup {NoProgram}
        /\ h.told # NoProgram => Account(h.told) = h.current
    BY <1>h, <1>7 DEF TellSecond, At, HandlerOK, Inviting, Handler
  <2>2. theirs # NoProgram => Account(theirs) = h.wanted
    BY <2>1 DEF AddressesOwned
  <2>3. InfoIn(net)'
    <3>1. Info(h.told, FALSE) \in Datagram
      BY <2>1 DEF Info, Datagram
    <3>2. theirs \in Program => InfoOK(theirs, Info(h.told, FALSE))
      BY <2>1, <2>2, SetupAssumption DEF Info, InfoOK, Agreed
    <3> QED  BY <1>7, <1>s, <3>1, <3>2 DEF TellSecond
  <2>4. HandlersOK'
    BY <1>g, <1>7 DEF TellSecond, Pc, Inviting
  <2> QED  BY <1>7, <1>m, <2>3, <2>4
           DEF TellSecond, AddressesOwned, InvitesAsked
<1> QED  BY <1>1, <1>2, <1>3, <1>4, <1>5, <1>6, <1>7 DEF Handle

\* A new request brings a new thread, and an invitation is remembered.
LEMMA RequestConsent ==
    ASSUME TypeOK, ConsentInv, NEW c \in Program,
           SendLogin(c) \/ \E v \in User : SendInvite(c, v)
    PROVE  ConsentInv'
<1> USE DEF ConsentInv, serverVars, clientVars
<1>0. asked \subseteq asked' /\ UNCHANGED <<net, peer>>
  BY DEF SendLogin, SendInvite
<1>1. AddressesOwned' /\ InvitesAsked'
  BY <1>0 DEF SendLogin, SendInvite, AddressesOwned, InvitesAsked
<1>2. InfoIn(net)' /\ MutualConsent'
  BY <1>0 DEF InfoIn, InfoOK, Agreed, MutualConsent
<1>3. ASSUME NEW pc, NEW v, Request(c, pc, v),
             pc \in Inviting => v \in User /\ <<Account(c), v>> \in asked',
             pc \notin {"first", "second"}
      PROVE  HandlersOK'
  <2>1. /\ Len(handlers') = Len(handlers) + 1
        /\ \A m \in 1 .. Len(handlers) : handlers'[m] = handlers[m]
        /\ handlers'[Len(handlers) + 1] =
               [pc |-> pc, by |-> c, current |-> Account(c), wanted |-> v,
                told |-> NoProgram]
    BY <1>3 DEF Request, TypeOK
  <2>2. ASSUME NEW m, m = Len(handlers) + 1
        PROVE  HandlerOK(handlers[m])'
    BY <1>3, <2>1, <2>2 DEF HandlerOK
  <2>3. ASSUME NEW m \in 1 .. Len(handlers)
        PROVE  HandlerOK(handlers[m])'
    BY <1>0, <2>1 DEF HandlersOK, HandlerOK
  <2>4. Len(handlers) \in Nat
    BY DEF TypeOK
  <2> QED  BY <2>1, <2>2, <2>3, <2>4 DEF HandlersOK
<1>4. HandlersOK'
  BY <1>3 DEF SendLogin, SendInvite, Inviting
<1> QED  BY <1>1, <1>2, <1>4

\* A program that takes a datagram learns at most what it may.
LEMMA ReceiveConsent ==
    ASSUME TypeOK, ConsentInv, NEW f \in Sender, NEW c \in Program,
           Receive(f, c) \/ Lose(f, c)
    PROVE  ConsentInv'
<1> USE DEF ConsentInv, serverVars, clientVars
<1>n. net \in Net
  BY DEF TypeOK, Net, Sender
<1>0. UNCHANGED <<serverVars, handlers, asked>> /\ net[f][c] # <<>>
  BY DEF Receive, LoginAnswered, Connect, Misread, Listen, Lose, Arrives
<1>1. AddressesOwned' /\ InvitesAsked' /\ HandlersOK'
  BY <1>0 DEF AddressesOwned, InvitesAsked, HandlersOK, HandlerOK
<1>i. ASSUME InfoIn(net')
      PROVE  InfoIn(net)'
  BY <1>0, <1>i DEF InfoIn, InfoOK, Agreed
<1>t. /\ InfoIn(Taken(f, c)) /\ InfoOK(c, Head(net[f][c]))
      /\ Taken(f, c) \in Net /\ Head(net[f][c]) \in Datagram
  BY <1>n, <1>0, TakenInfo, TakenType
<1>2. CASE LoginAnswered(f, c) \/ Listen(f, c) \/ Lose(f, c)
  <2>1. peer' = peer /\ InfoIn(net')
    BY <1>2, <1>t DEF LoginAnswered, Listen, Lose
  <2> QED  BY <1>0, <1>1, <1>i, <2>1 DEF MutualConsent
<1>3. CASE Misread(f, c)
  <2>1. peer' = peer /\ InfoIn(net')
    BY <1>n, <1>3, DroppedInfo DEF Misread, Sender
  <2> QED  BY <1>0, <1>1, <1>i, <2>1 DEF MutualConsent
<1>4. CASE Connect(f, c)
  <2> DEFINE p  == Head(net[f][c]).peer
             ds == IF hostFlag[c] /\ Head(net[f][c]).host
                   THEN <<Plain("greeting"), Plain("id"), Plain("files")>>
                   ELSE <<Plain("greeting")>>
             rest == Taken(f, c)
  <2>1. MutualConsent'
    BY <1>0, <1>4, <1>t DEF Connect, MutualConsent, InfoOK, Agreed, TypeOK
  <2>2. ds \in Seq(Datagram) /\ \A i \in 1 .. Len(ds) : ds[i].peer = NoProgram
    BY PlainType
  <2>3. InfoIn(net')
    <3>1. net' = IF p \in Program /\ Running(p)
                 THEN [rest EXCEPT ![c][p] = @ \o ds]
                 ELSE rest
      BY <1>4 DEF Connect
    <3> HIDE DEF p, ds, rest
    <3>2. CASE ~(p \in Program /\ Running(p))
      BY <1>t, <3>1, <3>2 DEF rest
    <3>3. CASE p \in Program /\ Running(p)
      <4>0. rest \in Net /\ c \in Sender
        BY <1>t DEF rest, Sender
      <4> SUFFICES ASSUME NEW g \in Sender, NEW e \in Program,
                          NEW i \in 1 .. Len(net'[g][e])
                   PROVE  InfoOK(e, net'[g][e][i])
        BY DEF InfoIn
      <4>1. CASE g = c /\ e = p
        <5>1. net'[g][e] = rest[c][p] \o ds /\ rest[c][p] \in Seq(Datagram)
          BY <3>1, <3>3, <4>0, <4>1 DEF Net
        <5>2. CASE i <= Len(rest[c][p])
          <6>1. net'[g][e][i] = rest[c][p][i] /\ i \in 1 .. Len(rest[c][p])
            BY <2>2, <5>1, <5>2
          <6> QED  BY <1>t, <3>3, <4>0, <4>1, <6>1 DEF InfoIn, rest
        <5>3. CASE i > Len(rest[c][p])
          <6>1. /\ i - Len(rest[c][p]) \in 1 .. Len(ds)
                /\ net'[g][e][i] = ds[i - Len(rest[c][p])]
            BY <2>2, <5>1, <5>3, SecondPart
          <6> QED  BY <2>2, <6>1 DEF InfoOK
        <5> QED  BY <5>1, <5>2, <5>3
      <4>2. CASE ~(g = c /\ e = p)
        <5>1. net'[g][e] = rest[g][e]
          BY <3>1, <3>3, <4>0, <4>2 DEF Net
        <5> QED  BY <1>t, <5>1 DEF InfoIn, rest
      <4> QED  BY <4>1, <4>2
    <3> QED  BY <3>2, <3>3
  <2> QED  BY <1>1, <1>i, <2>1, <2>3
<1> QED  BY <1>2, <1>3, <1>4 DEF Receive

\* No step breaks the invariant.
LEMMA StepConsent ==
    TypeOK /\ NamesOK /\ ConsentInv /\ [Next]_vars => ConsentInv'
<1> SUFFICES ASSUME TypeOK, NamesOK, ConsentInv, [Next]_vars
             PROVE  ConsentInv'
  OBVIOUS
<1>1. CASE UNCHANGED vars
  BY <1>1 DEF vars, serverVars, clientVars, ConsentInv, AddressesOwned,
       InvitesAsked, HandlersOK, HandlerOK, InfoIn, InfoOK, Agreed,
       MutualConsent
<1>2. ASSUME NEW c \in Program, GetFiles(c)
      PROVE  ConsentInv'
  BY <1>2 DEF GetFiles, serverVars, ConsentInv, AddressesOwned,
       InvitesAsked, HandlersOK, HandlerOK, InfoIn, InfoOK, Agreed,
       MutualConsent
<1>3. ASSUME NEW c \in Program, Close(c)
      PROVE  ConsentInv'
  <2>1. net \in Net
    BY DEF TypeOK, Net, Sender
  <2>2. InfoIn(net')
    BY <1>3, <2>1, DroppedInfo DEF Close, ConsentInv, Sender
  <2> QED  BY <1>3, <2>2, ZenonT(60) DEF Close, serverVars, ConsentInv, AddressesOwned,
             InvitesAsked, HandlersOK, HandlerOK, InfoIn, InfoOK, Agreed,
             MutualConsent
<1> QED  BY <1>1, <1>2, <1>3, HandleConsent, RequestConsent, ReceiveConsent
         DEF Next, Sender

\* exchangeInfo: a program is told the address of another only if the users
\* of the two have invited each other.
THEOREM ConsentBeforeExchange == Spec => []MutualConsent
<1>1. ConsentInv => MutualConsent
  BY DEF ConsentInv
<1> QED  BY <1>1, InitType, StepType, StepNames, InitConsent, StepConsent, PTL
         DEF Spec
=============================================================================
