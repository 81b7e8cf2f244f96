----------------------------- MODULE SessionSetup -----------------------------
(***************************************************************************)
(* How two programs become the host and the member of a session: they log  *)
(* in at the server, their users invite each other, the server tells each  *)
(* the address of the other (Server.cpp), and the host sends its files.    *)
(*                                                                         *)
(* The server runs one detached thread per request, without a lock.  Every *)
(* access to the flag and to the invitations is a step of its own; that an *)
(* access of a std::map is atomic is an assumption of this model.  Of the  *)
(* addresses, addClientAddress writes two copies in one step, and those an *)
(* exchange tells are read with its first answer.  A program is a UDP      *)
(* socket: whatever is blocked in Receive takes the next datagram, whoever *)
(* has sent it.  All programs run on the server's machine, whose address   *)
(* is compiled into the client, so that ipChecker changes nothing.         *)
(*                                                                         *)
(* A definition named X_Y is X with a plausible mistake in it: nothing     *)
(* uses it, it is there to show that a property notices the mistake.       *)
(***************************************************************************)
EXTENDS Naturals, Sequences

CONSTANTS User,          \* names in the accounts database
          Program,       \* instances of the client: each has its own socket
          NoUser,        \* the empty string an absent map entry reads as
          NoProgram,     \* the zero address an absent map entry reads as
          Owner,         \* [Program -> User]: who sits in front of it
          Invitations,   \* pairs <<u, v>>: u may type the name v
          MaxRequests,   \* bound: logins and invitations of the whole run
          TestAccount,   \* the account Login sends for everybody, or NoUser
          Reinvite,      \* users invite again from within a session
          Spaced,        \* no two invitations within the server's test-and-set
          PromptServer,  \* the server's datagrams outrun those of the programs
          MayClose,      \* users close programs
          Lossy          \* UDP loses datagrams

ASSUME SetupAssumption ==
    /\ NoUser \notin User /\ NoProgram \notin Program
    /\ Owner \in [Program -> User]
    /\ Invitations \subseteq User \X User
    /\ MaxRequests \in Nat
    /\ TestAccount \in User \cup {NoUser}
    /\ {Reinvite, Spaced, PromptServer, MayClose, Lossy} \subseteq BOOLEAN

\* "server" is a sender like the programs are.
Server == "server"
ASSUME ServerAssumption == Server \notin Program

\* The account a program logs in with.
Account(c) == IF TestAccount = NoUser THEN Owner[c] ELSE TestAccount

\* What the first character of a datagram tells apart.  "info" is ip:port:H
\* or ip:port:C: the address of `peer` and whether the receiver is host.
Datagram == [kind : {"token", "info", "greeting", "id", "files"},
             peer : Program \cup {NoProgram}, host : BOOLEAN]

Plain(k) == [kind |-> k, peer |-> NoProgram, host |-> FALSE]
Info(p, h) == [kind |-> "info", peer |-> p, host |-> h]

\* The thread of a request, with its place in AccountHandler / Server.
Pc == {"address", "answer", "invite", "flag", "claim", "mine", "theirs",
       "first", "second", "done"}
Handler == [pc : Pc,
            by : Program, current : User, wanted : User \cup {NoUser},
            told : Program \cup {NoProgram}]

VARIABLES
    clientAddresses,   \* of Server (clientMap always holds the same)
    sessionInvites,    \* of Server
    infoExchangeFlag,  \* of Server
    handlers,          \* the request threads, in the order of the requests
    net,               \* datagrams under way, per sender and receiver
    phase,             \* per program: where its UI thread is
    naming,            \* per program: the name typed into StartSession
    hostFlag,          \* of P2PCommunicator
    peer,              \* the endpoint of P2PCommunicator
    filesRecieved,     \* of P2PCommunicator
    asked              \* ghost: who has ever invited whom

serverVars == <<clientAddresses, sessionInvites, infoExchangeFlag>>
clientVars == <<phase, naming, hostFlag, peer, filesRecieved>>
vars == <<serverVars, handlers, net, clientVars, asked>>

Phase == {"start", "login", "menu", "inviting", "files", "session",
          "crashed", "closed"}

TypeOK ==
    /\ clientAddresses \in [User -> Program \cup {NoProgram}]
    /\ sessionInvites \in [User -> User \cup {NoUser}]
    /\ infoExchangeFlag \in BOOLEAN
    /\ handlers \in Seq(Handler)
    /\ net \in [Program \cup {Server} -> [Program -> Seq(Datagram)]]
    /\ phase \in [Program -> Phase]
    /\ naming \in [Program -> User \cup {NoUser}]
    /\ hostFlag \in [Program -> BOOLEAN]
    /\ peer \in [Program -> Program \cup {NoProgram}]
    /\ filesRecieved \in [Program -> BOOLEAN]
    /\ asked \subseteq User \X User

Init ==
    /\ clientAddresses = [u \in User |-> NoProgram]
    /\ sessionInvites = [u \in User |-> NoUser]
    /\ infoExchangeFlag = TRUE
    /\ handlers = <<>>
    /\ net = [f \in Program \cup {Server} |-> [c \in Program |-> <<>>]]
    /\ phase = [c \in Program |-> "start"]
    /\ naming = [c \in Program |-> NoUser]
    /\ hostFlag = [c \in Program |-> TRUE]
    /\ peer = [c \in Program |-> NoProgram]
    /\ filesRecieved = [c \in Program |-> FALSE]
    /\ asked = {}

Running(c) == phase[c] \notin {"crashed", "closed"}

\* The datagrams ds go from f to c; nobody reads those to a dead socket.
Sent(f, c, ds) ==
    IF c \in Program /\ Running(c)
    THEN [net EXCEPT ![f][c] = @ \o ds]
    ELSE net

-----------------------------------------------------------------------------
(* Requests.  The program then blocks in Receive.                          *)

Request(c, pc, wanted) ==
    /\ Len(handlers) < MaxRequests
    /\ handlers' = Append(handlers,
           [pc |-> pc, by |-> c, current |-> Account(c), wanted |-> wanted,
            told |-> NoProgram])

\* Login.done.  The password is taken to be right.
SendLogin(c) ==
    /\ phase[c] = "start"
    /\ Request(c, "address", NoUser)
    /\ phase' = [phase EXCEPT ![c] = "login"]
    /\ UNCHANGED <<serverVars, net, naming, hostFlag, peer, filesRecieved,
                   asked>>

\* StartSession.done; its page can be opened again during a session.
SendInvite(c, v) ==
    /\ phase[c] = "menu" \/ (Reinvite /\ phase[c] = "session")
    /\ <<Owner[c], v>> \in Invitations
    /\ Spaced => \A n \in 1 .. Len(handlers) :
                     handlers[n].pc \notin {"invite", "flag", "claim"}
    /\ Request(c, "invite", v)
    /\ phase' = [phase EXCEPT ![c] = "inviting"]
    /\ naming' = [naming EXCEPT ![c] = v]
    /\ asked' = asked \cup {<<Account(c), v>>}
    /\ UNCHANGED <<serverVars, net, hostFlag, peer, filesRecieved>>

-----------------------------------------------------------------------------
(* The threads of the server.                                              *)

Goto(n, pc) == handlers' = [handlers EXCEPT ![n].pc = pc]
At(n, pc)   == handlers[n].pc = pc

\* analyzeUser: Server.addClientAddress ...  The same address goes into
\* clientAddresses, which is what is told, and into clientMap, which is where
\* an exchange sends to.  The two writes are one step: a thread between them
\* is seen only by an exchange that names the account being logged in, and
\* differs from one before or after both in which of two programs of one
\* account it tells or tells about.
AddClientAddress(n) ==
    /\ At(n, "address")
    /\ clientAddresses' = [clientAddresses EXCEPT ![handlers[n].current] =
                               handlers[n].by]
    /\ Goto(n, "answer")
    /\ UNCHANGED <<sessionInvites, infoExchangeFlag, net, clientVars, asked>>

\* ... and then the answer, to the address the name has by now.
SendResponse(n) ==
    /\ At(n, "answer")
    /\ net' = Sent(Server, clientAddresses[handlers[n].current],
                   <<Plain("token")>>)
    /\ Goto(n, "done")
    /\ UNCHANGED <<serverVars, clientVars, asked>>

EnterSession_OnlyFirst(n) ==
    /\ At(n, "invite")
    /\ sessionInvites' = [sessionInvites EXCEPT ![handlers[n].current] =
                              IF infoExchangeFlag THEN handlers[n].wanted
                                                  ELSE @]
    /\ Goto(n, "flag")
    /\ UNCHANGED <<clientAddresses, infoExchangeFlag, net, clientVars, asked>>

EnterSession_Token(n) ==
    /\ At(n, "invite")
    /\ sessionInvites' = [sessionInvites EXCEPT ![handlers[n].current] =
                              handlers[n].by]
    /\ Goto(n, "flag")
    /\ UNCHANGED <<clientAddresses, infoExchangeFlag, net, clientVars, asked>>

EnterSession_Acknowledged(n) ==
    /\ At(n, "invite")
    /\ sessionInvites' = [sessionInvites EXCEPT ![handlers[n].current] =
                              handlers[n].wanted]
    /\ net' = Sent(Server, handlers[n].by, <<Plain("id")>>)
    /\ Goto(n, "flag")
    /\ UNCHANGED <<clientAddresses, infoExchangeFlag, clientVars, asked>>

\* enterSession: the invitation is recorded,
EnterSession(n) ==
    /\ At(n, "invite")
    /\ sessionInvites' = [sessionInvites EXCEPT ![handlers[n].current] =
                              handlers[n].wanted]
    /\ Goto(n, "flag")
    /\ UNCHANGED <<clientAddresses, infoExchangeFlag, net, clientVars, asked>>

\* the flag is tested,
TestFlag(n) ==
    /\ At(n, "flag")
    /\ Goto(n, IF infoExchangeFlag THEN "claim" ELSE "done")
    /\ UNCHANGED <<serverVars, net, clientVars, asked>>

ClearFlag_Never(n) ==
    /\ At(n, "claim")
    /\ Goto(n, "mine")
    /\ UNCHANGED <<serverVars, net, clientVars, asked>>

\* and cleared: nothing ever sets it again.
ClearFlag(n) ==
    /\ At(n, "claim")
    /\ infoExchangeFlag' = FALSE
    /\ Goto(n, "mine")
    /\ UNCHANGED <<clientAddresses, sessionInvites, net, clientVars, asked>>

\* exchangeInfo spins until both invitations are there, reading one ...
ReadMine(n) ==
    /\ At(n, "mine")
    /\ sessionInvites[handlers[n].current] = handlers[n].wanted
    /\ Goto(n, "theirs")
    /\ UNCHANGED <<serverVars, net, clientVars, asked>>

ReadTheirs_Unchecked(n) ==
    /\ At(n, "theirs")
    /\ Goto(n, "first")
    /\ UNCHANGED <<serverVars, net, clientVars, asked>>

\* ... and then the other.
ReadTheirs(n) ==
    /\ At(n, "theirs")
    /\ Goto(n, IF sessionInvites[handlers[n].wanted] = handlers[n].current
               THEN "first" ELSE "mine")
    /\ UNCHANGED <<serverVars, net, clientVars, asked>>

\* The addresses are read; the one whose thread this is becomes host ...
\* The reads and the first send are one step, the second send is another: in
\* between a login may replace the address of the other one, not what was
\* told about this one.
TellFirst(n) ==
    /\ At(n, "first")
    /\ LET h == handlers[n]
       IN  /\ net' = Sent(Server, clientAddresses[h.current],
                          <<Info(clientAddresses[h.wanted], TRUE)>>)
           /\ handlers' = [handlers EXCEPT ![n].pc = "second",
                               ![n].told = clientAddresses[h.current]]
    /\ UNCHANGED <<serverVars, clientVars, asked>>

\* ... and the other one member.
TellSecond(n) ==
    /\ At(n, "second")
    /\ net' = Sent(Server, clientAddresses[handlers[n].wanted],
                   <<Info(handlers[n].told, FALSE)>>)
    /\ Goto(n, "done")
    /\ UNCHANGED <<serverVars, clientVars, asked>>

Handle(n) == \/ AddClientAddress(n)
             \/ SendResponse(n)
             \/ EnterSession(n)
             \/ TestFlag(n)
             \/ ClearFlag(n)
             \/ ReadMine(n)
             \/ ReadTheirs(n)
             \/ TellFirst(n)
             \/ TellSecond(n)

-----------------------------------------------------------------------------
(* The programs.                                                           *)

ServerIdle == /\ \A n \in 1 .. Len(handlers) : ~At(n, "second")
              /\ \A c \in Program : net[Server][c] = <<>>

\* The next datagram from f can reach c.
Arrives(f, c) == /\ net[f][c] # <<>>
                 /\ (PromptServer /\ f # Server) => ServerIdle

Taken(f, c) == [net EXCEPT ![f][c] = Tail(@)]

\* sendLogin returns.  An address begins with the digit that stands for a
\* wrong password, the datagrams of a peer with nothing Login knows.  Receive
\* also writes the sender into the endpoint requests go to, so that the next
\* login after a peer's datagram goes to that peer and not to the server;
\* here it goes to the server.  It takes two programs of one account: a peer
\* is told the address of an account that has invited.
LoginAnswered(f, c) ==
    /\ phase[c] = "login"
    /\ Arrives(f, c)
    /\ phase' = [phase EXCEPT ![c] =
                     IF Head(net[f][c]).kind = "token" THEN "menu" ELSE "start"]
    /\ net' = Taken(f, c)
    /\ UNCHANGED <<serverVars, handlers, naming, hostFlag, peer,
                   filesRecieved, asked>>

\* sendInvite returns an address: ConnectP2P, startSesstion (the listener
\* thread is running from here on, the greetings are sent), DelieverMemberInfo
\* and the IDE page, where the host sends its files and the member waits for
\* them.  hostFlag is only ever cleared.  The files go to the first of epList
\* and the greetings to the address just told: one and the same until a host
\* is connected a second time, when the code would send the files to its
\* first peer; here they go to the latest.
Connect(f, c) ==
    /\ phase[c] = "inviting"
    /\ Arrives(f, c)
    /\ Head(net[f][c]).kind = "info"
    /\ LET d    == Head(net[f][c])
           host == hostFlag[c] /\ d.host
           rest == Taken(f, c)
       IN  /\ hostFlag' = [hostFlag EXCEPT ![c] = host]
           /\ peer' = [peer EXCEPT ![c] = d.peer]
           /\ phase' = [phase EXCEPT ![c] = IF host THEN "session" ELSE "files"]
           /\ net' = IF d.peer \in Program /\ Running(d.peer)
                     THEN [rest EXCEPT ![c][d.peer] = @ \o
                             IF host THEN <<Plain("greeting"), Plain("id"),
                                            Plain("files")>>
                                     ELSE <<Plain("greeting")>>]
                     ELSE rest
    /\ UNCHANGED <<serverVars, handlers, naming, filesRecieved, asked>>

\* sendInvite returns anything else: ConnectP2P looks for a port in it and
\* int.Parse throws.
Misread(f, c) ==
    /\ phase[c] = "inviting"
    /\ Arrives(f, c)
    /\ Head(net[f][c]).kind # "info"
    /\ phase' = [phase EXCEPT ![c] = "crashed"]
    /\ net' = [g \in Program \cup {Server} |-> [net[g] EXCEPT ![c] = <<>>]]
    /\ UNCHANGED <<serverVars, handlers, naming, hostFlag, peer,
                   filesRecieved, asked>>

\* P2PListener, which also runs while the UI thread is in sendInvite again.
\* Of an "id" only fields nothing reads remain.
Listen(f, c) ==
    /\ peer[c] # NoProgram
    /\ phase[c] \in {"files", "session", "inviting"}
    /\ Arrives(f, c)
    /\ filesRecieved' = [filesRecieved EXCEPT ![c] =
                             @ \/ Head(net[f][c]).kind = "files"]
    /\ net' = Taken(f, c)
    /\ UNCHANGED <<serverVars, handlers, phase, naming, hostFlag, peer, asked>>

\* getFiles ends its busy wait.
GetFiles(c) ==
    /\ phase[c] = "files"
    /\ filesRecieved[c]
    /\ phase' = [phase EXCEPT ![c] = "session"]
    /\ UNCHANGED <<serverVars, handlers, net, naming, hostFlag, peer,
                   filesRecieved, asked>>

Close(c) ==
    /\ MayClose
    /\ Running(c)
    /\ phase' = [phase EXCEPT ![c] = "closed"]
    /\ net' = [g \in Program \cup {Server} |-> [net[g] EXCEPT ![c] = <<>>]]
    /\ UNCHANGED <<serverVars, handlers, naming, hostFlag, peer,
                   filesRecieved, asked>>

Lose(f, c) ==
    /\ Lossy
    /\ net[f][c] # <<>>
    /\ net' = Taken(f, c)
    /\ UNCHANGED <<serverVars, handlers, clientVars, asked>>

-----------------------------------------------------------------------------

Receive(f, c) == LoginAnswered(f, c) \/ Connect(f, c) \/ Misread(f, c)
                 \/ Listen(f, c)

Next ==
    \/ \E n \in 1 .. Len(handlers) : Handle(n)
    \/ \E c \in Program : \/ SendLogin(c)
                          \/ \E v \in User : SendInvite(c, v)
                          \/ GetFiles(c)
                          \/ Close(c)
    \/ \E f \in Program \cup {Server}, c \in Program : Receive(f, c) \/ Lose(f, c)

Spec == Init /\ [][Next]_vars

\* Threads are scheduled and datagrams arrive; users owe nothing.
Fairness ==
    /\ \A n \in 1 .. MaxRequests : WF_vars(n <= Len(handlers) /\ Handle(n))
    /\ \A c \in Program :
           /\ WF_vars(GetFiles(c))
           /\ \A f \in Program \cup {Server} : WF_vars(Receive(f, c))

FairSpec == Spec /\ Fairness

-----------------------------------------------------------------------------
(* What makes a session a session.                                         *)

\* A program learns the address of another only if the accounts of the two
\* have invited each other, whatever is lost, closed, repeated or overtaken
\* in between: the test of exchangeInfo.
MutualConsent ==
    \A c \in Program :
        peer[c] # NoProgram =>
            /\ <<Account(c), Account(peer[c])>> \in asked
            /\ <<Account(peer[c]), Account(c)>> \in asked

\* Of two programs that are each other's peers one is host, one is member:
\* two hosts never apply each other's files, two members wait for ever.
OneHost ==
    \A c, d \in Program :
        peer[c] = d /\ peer[d] = c => hostFlag[c] # hostFlag[d]

\* No answer of the server and no datagram of a peer ends a program.
NoCrash == \A c \in Program : phase[c] # "crashed"

\* Two users who wait for the answer to an invitation of each other both get
\* into the session.
PairsUp ==
    \A c, d \in Program :
        (/\ c # d
         /\ phase[c] = "inviting" /\ phase[d] = "inviting"
         /\ naming[c] = Owner[d] /\ naming[d] = Owner[c])
        ~> (phase[c] = "session" /\ phase[d] = "session")
=============================================================================
