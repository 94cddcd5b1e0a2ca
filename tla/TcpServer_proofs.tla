--------------------------- MODULE TcpServer_proofs ---------------------------
(***************************************************************************)
(* The server thread of services/tcp/tag_tcp_server.c, for any number of   *)
(* clients and any bytes: the sockets, which two threads close without a   *)
(* lock, do not leak a handle; and each client gets the answers to its own *)
(* lines, however its bytes are split and whoever came before it.          *)
(***************************************************************************)
EXTENDS TcpServer, FiniteSetTheorems, TLAPS

NoClient == \A h \in Handle : open[h] \notin Clients
NoListener == \A h \in Handle : open[h] # Listener

SocketTypes ==
    /\ open \in [Handle -> Clients \cup {Closed, Listener, Unbound}]
    /\ client_sock \in [handle : Handle \cup {Invalid}, valid : BOOLEAN]
    /\ server_sock \in [handle : Handle \cup {Invalid}, valid : BOOLEAN]
    /\ stop_flag \in BOOLEAN

\* Whoever forgets a client's socket has closed it: an open client is behind
\* the client socket, which is valid except while accept is returning it.
ClientHeld ==
    /\ \A h \in Handle : open[h] \in Clients =>
            client_sock.handle = h /\ (client_sock.valid \/ t_pc = "accepted")
    /\ t_pc \in {"none", "listen", "accept", "accepted"} => ~client_sock.valid
    /\ t_pc \in {"none", "listen", "accept", "close_client_done",
                 "close_server", "close_server_handle", "exited"} => NoClient

\* From when stop sees a client's socket until it has forgotten it, the thread
\* takes no other client: the socket that is closed is the one that was seen.
StopHolds ==
    /\ main_pc \notin {"start", "running", "done"} => stop_flag
    /\ main_pc \in {"close_client", "client_closed"} =>
            /\ t_pc \notin {"none", "listen", "accept", "accepted"}
            /\ t_pc = "pick" => client_sock.valid
    /\ main_pc = "client_closed" => NoClient

\* The same of the listening socket, which is opened once.
ListenerHeld ==
    /\ \A h \in Handle : open[h] = Listener =>
            server_sock.handle = h /\ server_sock.valid
    /\ t_pc \in {"none", "listen"} => ~server_sock.valid
    /\ main_pc \in {"close_server", "server_closed"} =>
            t_pc \notin {"none", "listen"}
    /\ main_pc = "server_closed" => NoListener
    /\ t_pc = "exited" => NoListener

\* stop returns when the thread has ended, or has never begun.
Ended == /\ main_pc = "start" => t_pc = "none"
         /\ main_pc = "done" => t_pc \in {"none", "exited"}

SocketInv == SocketTypes /\ ClientHeld /\ StopHolds /\ ListenerHeld /\ Ended
-----------------------------------------------------------------------------
LEMMA Kinds ==
    /\ Invalid \notin Handle
    /\ Closed \notin Clients /\ Listener \notin Clients /\ Unbound \notin Clients
    /\ Closed # Listener /\ Unbound # Listener
    /\ NoSocket \in [handle : Handle \cup {Invalid}, valid : BOOLEAN]
    /\ NoSocket.handle = Invalid /\ ~NoSocket.valid
  BY SizeAssumption DEF Invalid, Handle, Closed, Clients, Listener, Unbound,
     NoSocket

\* Neither thread touches a socket in these steps.
Quiet == \/ ListenFails \/ TestStop \/ Pick \/ AcceptFails \/ SendBanner
         \/ (\E c \in Clients : Recv(c) \/ Reply(c)) \/ RecvEnds \/ TakeByte
         \/ BufferDone \/ Handled \/ SendFails
         \/ CloseClientTest \/ CloseServerTest
Outside == (\E c \in Clients : Client(c)) \/ UNCHANGED vars
MainMoves == (\E ok \in BOOLEAN : Start(ok)) \/ Stop \/ StopClient \/ StopServer
             \/ Join

\* How the thread gets where its sockets matter.
LEMMA QuietMoves ==
    ASSUME Quiet
    PROVE  /\ UNCHANGED <<main, socks, open>>
           /\ t_pc' \notin {"none", "listen", "accepted", "close_client_done"}
           /\ t_pc \notin {"none", "accepted", "exited"}
           /\ t_pc' = "accept" => t_pc = "pick" /\ ~client_sock.valid
           /\ t_pc' = "pick" => ~stop_flag
           /\ t_pc' = "close_server" => t_pc = "close_client" /\ ~client_sock.valid
           /\ t_pc' = "close_server_handle" => t_pc = "close_server"
           /\ t_pc' = "exited" => \/ t_pc = "listen"
                                  \/ t_pc = "close_server" /\ ~server_sock.valid
<1>1. CASE ListenFails \/ TestStop \/ Pick \/ AcceptFails
  BY <1>1 DEF ListenFails, TestStop, Pick, AcceptFails
<1>2. CASE SendBanner \/ (\E c \in Clients : Recv(c) \/ Reply(c)) \/ RecvEnds
  BY <1>2 DEF SendBanner, Recv, Reply, RecvEnds
<1>3. CASE TakeByte \/ BufferDone \/ Handled \/ SendFails
  BY <1>3 DEF TakeByte, BufferDone, Handled, SendFails
<1>4. CASE CloseClientTest
  BY <1>4 DEF CloseClientTest, CloseTest, AfterClient
<1>5. CASE CloseServerTest
  BY <1>5 DEF CloseServerTest, CloseTest
<1> QED
  BY <1>1, <1>2, <1>3, <1>4, <1>5 DEF Quiet

LEMMA OutsideMoves ==
    ASSUME Outside
    PROVE  UNCHANGED <<main, socks, t_pc, open>>
  BY DEF Outside, Client, Connect, Send, Leave, vars, thread

\* How main gets where the sockets matter.
LEMMA MainMovesOn ==
    ASSUME MainMoves
    PROVE  /\ UNCHANGED <<socks, open>>
           /\ t_pc' = t_pc \/ (t_pc' = "listen" /\ main_pc = "start"
                                    /\ main_pc' = "running")
           /\ main_pc' \notin {"start", "client_closed", "server_closed"}
           /\ main_pc' = "close_client" =>
                main_pc = "stop_client" /\ client_sock.valid
           /\ main_pc' = "close_server" =>
                main_pc = "stop_server" /\ server_sock.valid
           /\ main_pc' = "done" => main_pc = "start" \/ t_pc = "exited"
           /\ main_pc' \in {"running", "done"} \/ stop_flag'
              \/ (main_pc \notin {"start", "running", "done"}
                    /\ stop_flag' = stop_flag)
<1>1. CASE \E ok \in BOOLEAN : Start(ok)
  BY <1>1 DEF Start
<1>2. CASE Stop \/ StopClient \/ StopServer \/ Join
  BY <1>2 DEF Stop, StopClient, SeesClient, StopServer, Join, thread
<1> QED
  BY <1>1, <1>2 DEF MainMoves

\* Every step is one of those, or one of nine that touch a socket.
LEMMA Steps ==
    ASSUME [Next]_vars
    PROVE  \/ Quiet \/ Outside \/ MainMoves
           \/ BindFails \/ Listen \/ (\E c \in Clients : Accept(c)) \/ Accepted
           \/ CloseClient \/ CloseClientDone \/ CloseServer
           \/ StopCloseClient \/ StopClientDone
           \/ StopCloseServer \/ StopServerDone
  BY DEF Next, Thread, Stopping, Quiet, Outside, MainMoves

\* closesocket closes the one handle it is given.
LEMMA Closing ==
    ASSUME SocketTypes, NEW h \in Handle \cup {Invalid}, CloseHandle(h)
    PROVE  /\ open' \in [Handle -> Clients \cup {Closed, Listener, Unbound}]
           /\ \A g \in Handle : open[g]' = IF g = h THEN Closed ELSE open[g]
  BY Kinds DEF SocketTypes, CloseHandle

\* Handles keep naming what they can name.
LEMMA TypesStep ==
    ASSUME SocketTypes, [Next]_vars
    PROVE  SocketTypes'
<1> USE DEF SocketTypes
<1>1. CASE Quiet \/ Outside
  BY <1>1, QuietMoves, OutsideMoves DEF main, socks
<1>2. CASE MainMoves
  <2>1. stop_flag' \in BOOLEAN
    BY <1>2 DEF MainMoves, Start, Stop, StopClient, StopServer, Join
  <2> QED BY <1>2, <2>1, MainMovesOn DEF socks
<1>3. CASE BindFails \/ Listen \/ (\E c \in Clients : Accept(c))
  <2>1. ASSUME NEW h \in Handle,
               NEW object \in Clients \cup {Listener, Unbound}, Allot(object, h)
        PROVE  open' \in [Handle -> Clients \cup {Closed, Listener, Unbound}]
    BY <2>1 DEF Allot
  <2>2. CASE BindFails \/ Listen
    <3>1. PICK h \in Handle, object \in {Listener, Unbound}, ok \in BOOLEAN :
              Allot(object, h) /\ server_sock' = [handle |-> h, valid |-> ok]
      BY <2>2 DEF BindFails, Listen
    <3>2. UNCHANGED <<main, client_sock>>
      BY <2>2 DEF BindFails, Listen
    <3> QED BY <2>1, <3>1, <3>2 DEF main
  <2>3. ASSUME NEW c \in Clients, Accept(c) PROVE SocketTypes'
    BY <2>1, <2>3 DEF Accept, main
  <2> QED BY <1>3, <2>2, <2>3
<1>4. CASE Accepted
  BY <1>4 DEF Accepted, main
<1>5. CASE CloseClientDone \/ StopClientDone \/ StopServerDone
  BY <1>5, Kinds DEF CloseClientDone, StopClientDone, StopServerDone, main
<1>6. CASE CloseClient \/ CloseServer \/ StopCloseClient \/ StopCloseServer
  <2>1. PICK h \in Handle \cup {Invalid} : CloseHandle(h)
    BY <1>6 DEF CloseClient, CloseServer, StopCloseClient, StopCloseServer
  <2>2. open' \in [Handle -> Clients \cup {Closed, Listener, Unbound}]
    BY <2>1, Closing
  <2> QED BY <1>6, <2>2, Kinds DEF CloseClient, CloseServer, StopCloseClient,
             StopCloseServer, main, socks
<1> QED
  BY <1>1, <1>2, <1>3, <1>4, <1>5, <1>6, Steps

\* No step forgets the socket of a client that is still open.
LEMMA ClientStep ==
    ASSUME SocketTypes, ClientHeld, StopHolds, Ended, [Next]_vars
    PROVE  ClientHeld'
<1> USE DEF ClientHeld, NoClient
<1>1. CASE Quiet
  BY <1>1, QuietMoves DEF socks
<1>2. CASE Outside
  BY <1>2, OutsideMoves DEF socks
<1>3. CASE MainMoves
  BY <1>3, MainMovesOn DEF socks, Ended
<1>4. CASE BindFails \/ Listen
  BY <1>4, Kinds DEF BindFails, Listen, Allot, SocketTypes
<1>5. ASSUME NEW c \in Clients, Accept(c) PROVE ClientHeld'
  BY <1>5, Kinds DEF Accept, Allot, SocketTypes
<1>6. CASE Accepted
  BY <1>6 DEF Accepted, SocketTypes
<1>7. CASE CloseClient
  <2>1. \A g \in Handle : open[g]' =
            IF g = client_sock.handle THEN Closed ELSE open[g]
    BY <1>7, Closing DEF CloseClient, SocketTypes
  <2> QED BY <1>7, <2>1, Kinds DEF CloseClient, socks
<1>8. CASE CloseServer
  <2>1. \A g \in Handle : open[g]' =
            IF g = server_sock.handle THEN Closed ELSE open[g]
    BY <1>8, Closing DEF CloseServer, SocketTypes
  <2> QED BY <1>8, <2>1, Kinds DEF CloseServer
<1>9. CASE CloseClientDone
  BY <1>9, Kinds DEF CloseClientDone, AfterClient
<1>10. CASE StopClientDone
  BY <1>10, Kinds DEF StopClientDone, StopHolds, thread
<1>11. CASE StopCloseClient
  <2>1. \A g \in Handle : open[g]' =
            IF g = client_sock.handle THEN Closed ELSE open[g]
    BY <1>11, Closing DEF StopCloseClient, SocketTypes
  <2> QED BY <1>11, <2>1, Kinds DEF StopCloseClient, socks, thread
<1>12. CASE StopCloseServer
  <2>1. \A g \in Handle : open[g]' =
            IF g = server_sock.handle THEN Closed ELSE open[g]
    BY <1>12, Closing DEF StopCloseServer, SocketTypes
  <2> QED BY <1>12, <2>1, Kinds DEF StopCloseServer, socks, thread
<1>13. CASE StopServerDone
  BY <1>13 DEF StopServerDone, thread
<1> QED
  BY <1>1, <1>2, <1>3, <1>4, <1>5, <1>6, <1>7, <1>8, <1>9, <1>10, <1>11, <1>12,
     <1>13, Steps

\* No step lets the thread take a client while stop closes the one it has seen.
LEMMA StopStep ==
    ASSUME SocketTypes, ClientHeld, StopHolds, ListenerHeld, Ended, [Next]_vars
    PROVE  StopHolds'
<1> USE DEF StopHolds
<1>1. CASE Quiet
  BY <1>1, QuietMoves DEF socks, main, NoClient
<1>2. CASE Outside
  BY <1>2, OutsideMoves DEF socks, main, NoClient
<1>3. CASE MainMoves
  <2>1. client_sock.valid => t_pc \notin {"none", "listen", "accept", "accepted"}
    BY DEF ClientHeld
  <2>2. (main_pc \notin {"start", "running", "done"} => stop_flag)'
    BY <1>3, MainMovesOn
  <2>3. (main_pc \in {"close_client", "client_closed"} =>
            /\ t_pc \notin {"none", "listen", "accept", "accepted"}
            /\ t_pc = "pick" => client_sock.valid)'
    BY <1>3, <2>1, MainMovesOn DEF socks
  <2> QED BY <1>3, <2>2, <2>3, MainMovesOn
<1>4. CASE BindFails \/ Listen
  BY <1>4 DEF BindFails, Listen, main
<1>5. ASSUME NEW c \in Clients, Accept(c) PROVE StopHolds'
  BY <1>5 DEF Accept, main
<1>6. CASE Accepted
  BY <1>6 DEF Accepted, main
<1>7. CASE CloseClient \/ CloseClientDone \/ CloseServer
  <2>1. NoClient => NoClient'
    <3>1. CASE CloseClient \/ CloseServer
      <4>1. PICK h \in Handle \cup {Invalid} : CloseHandle(h)
        BY <3>1 DEF CloseClient, CloseServer, SocketTypes
      <4> QED BY <4>1, Closing, Kinds DEF NoClient
    <3>2. CASE CloseClientDone
      BY <3>2 DEF CloseClientDone, NoClient
    <3> QED BY <1>7, <3>1, <3>2
  <2> QED BY <1>7, <2>1 DEF CloseClient, CloseClientDone, CloseServer, AfterClient, main, socks
<1>8. CASE StopCloseClient
  <2>1. NoClient'
    <3>1. \A g \in Handle : open[g]' =
              IF g = client_sock.handle THEN Closed ELSE open[g]
      BY <1>8, Closing DEF StopCloseClient, SocketTypes
    <3> QED BY <3>1, Kinds DEF ClientHeld, NoClient
  <2> QED BY <1>8, <2>1 DEF StopCloseClient, socks, thread
<1>9. CASE StopClientDone \/ StopCloseServer \/ StopServerDone
  BY <1>9 DEF StopClientDone, StopCloseServer, StopServerDone, thread, socks
<1> QED
  BY <1>1, <1>2, <1>3, <1>4, <1>5, <1>6, <1>7, <1>8, <1>9, Steps

\* No step forgets the listening socket while it is open.
LEMMA ListenerStep ==
    ASSUME SocketTypes, ClientHeld, ListenerHeld, Ended, [Next]_vars
    PROVE  ListenerHeld'
<1> USE DEF ListenerHeld, NoListener
<1>1. CASE Quiet
  BY <1>1, QuietMoves DEF socks, main
<1>2. CASE Outside
  BY <1>2, OutsideMoves DEF socks, main
<1>3. CASE MainMoves
  BY <1>3, MainMovesOn DEF socks, Ended
<1>4. CASE BindFails
  BY <1>4, Kinds DEF BindFails, Allot, SocketTypes, main
<1>5. CASE Listen
  BY <1>5, Kinds DEF Listen, Allot, SocketTypes, main
<1>6. ASSUME NEW c \in Clients, Accept(c) PROVE ListenerHeld'
  BY <1>6, Kinds DEF Accept, Allot, SocketTypes, main
<1>7. CASE Accepted \/ CloseClientDone \/ StopClientDone
  BY <1>7 DEF Accepted, CloseClientDone, AfterClient, StopClientDone, main, thread
<1>8. CASE CloseClient \/ StopCloseClient
  <2>1. PICK h \in Handle \cup {Invalid} : CloseHandle(h)
    BY <1>8 DEF CloseClient, StopCloseClient, SocketTypes
  <2>2. \A g \in Handle : open[g]' = Listener => open[g] = Listener
    BY <2>1, Closing, Kinds
  <2> QED BY <1>8, <2>2 DEF CloseClient, StopCloseClient, socks, main, thread
<1>9. CASE CloseServer
  <2>1. NoListener'
    <3>1. \A g \in Handle : open[g]' =
              IF g = server_sock.handle THEN Closed ELSE open[g]
      BY <1>9, Closing DEF CloseServer, SocketTypes
    <3> QED BY <3>1, Kinds
  <2> QED BY <1>9, <2>1 DEF CloseServer, main
<1>10. CASE StopCloseServer
  <2>1. NoListener'
    <3>1. \A g \in Handle : open[g]' =
              IF g = server_sock.handle THEN Closed ELSE open[g]
      BY <1>10, Closing DEF StopCloseServer, SocketTypes
    <3> QED BY <3>1, Kinds
  <2> QED BY <1>10, <2>1 DEF StopCloseServer, socks, thread
<1>11. CASE StopServerDone
  BY <1>11, Kinds DEF StopServerDone, thread
<1> QED
  BY <1>1, <1>2, <1>3, <1>4, <1>5, <1>6, <1>7, <1>8, <1>9, <1>10, <1>11, Steps

\* The thread lives while main has not started it or not joined it.
LEMMA EndedStep ==
    ASSUME Ended, [Next]_vars
    PROVE  Ended'
<1> USE DEF Ended
<1>1. CASE Quiet
  BY <1>1, QuietMoves DEF main
<1>2. CASE Outside
  BY <1>2, OutsideMoves DEF main
<1>3. CASE MainMoves
  BY <1>3, MainMovesOn
<1>4. CASE BindFails \/ Listen \/ (\E c \in Clients : Accept(c)) \/ Accepted
             \/ CloseClient \/ CloseClientDone \/ CloseServer
  BY <1>4 DEF BindFails, Listen, Accept, Accepted, CloseClient, CloseClientDone,
     CloseServer, main
<1>5. CASE StopCloseClient \/ StopClientDone \/ StopCloseServer \/ StopServerDone
  BY <1>5 DEF StopCloseClient, StopClientDone, StopCloseServer, StopServerDone
<1> QED
  BY <1>1, <1>2, <1>3, <1>4, <1>5, Steps

\* Two threads, one lock-free pair of sockets: what is open is held, for any
\* number of clients.
THEOREM SocketsCorrect == Spec => []SocketInv
<1>1. Init => SocketInv
  BY Kinds DEF Init, SocketInv, SocketTypes, ClientHeld, StopHolds, ListenerHeld,
     Ended, NoClient, NoListener
<1>2. SocketInv /\ [Next]_vars => SocketInv'
  BY TypesStep, ClientStep, StopStep, ListenerStep, EndedStep DEF SocketInv
<1> QED
  BY <1>1, <1>2, PTL DEF Spec

\* Never is more than one client's handle open, and when tag_tcp_server_stop has
\* returned there is none, nor a listening one.
THEOREM NoHandleIsLost == Spec => []NothingLeaks
<1>1. SocketInv => NothingLeaks
  <2> SUFFICES ASSUME SocketInv PROVE NothingLeaks
    OBVIOUS
  <2> DEFINE taken == {h \in Handle : open[h] \in Clients}
  <2>1. taken \subseteq {client_sock.handle}
    BY DEF SocketInv, ClientHeld
  <2>2. Cardinality(taken) <= 1
    <3>1. /\ IsFiniteSet({client_sock.handle})
          /\ Cardinality({client_sock.handle}) = 1
      BY FS_Singleton
    <3> HIDE DEF taken
    <3> QED BY <2>1, <3>1, FS_Subset
  <2>3. ASSUME main_pc = "done", NEW h \in Handle
        PROVE  open[h] \in {Closed, Unbound}
    <3>1. t_pc \in {"none", "exited"}
      BY <2>3 DEF SocketInv, Ended
    <3>2. open[h] \notin Clients
      BY <3>1 DEF SocketInv, ClientHeld, NoClient
    <3>3. open[h] # Listener
      BY <3>1 DEF SocketInv, ListenerHeld, NoListener
    <3> QED BY <3>2, <3>3 DEF SocketInv, SocketTypes
  <2> QED BY <2>2, <2>3 DEF NothingLeaks
<1> QED
  BY <1>1, SocketsCorrect, PTL
-----------------------------------------------------------------------------
(* What the answers rest on: where each client's bytes are. *)

AnswerTypes ==
    /\ said \in [Clients -> Seq(Byte)] /\ stream \in [Clients -> Seq(Byte)]
    /\ told \in [Clients -> Seq(Seq(Byte))]
    /\ buf \in Seq(Byte) /\ line \in Seq(Byte)
    /\ peer \in [Clients -> {"none", "up", "closed", "reset"}]
    /\ backlog \in SUBSET Clients

\* A client that the thread has accepted and not yet closed.
Taken(c) == \E h \in Handle : open[h] = c

\* A client is accepted once, and nothing of it has been touched before.
Untouched(c) == told[c] = <<>> /\ stream[c] = said[c]
Waiting ==
    \A c \in Clients :
        /\ peer[c] = "none" => c \notin backlog /\ said[c] = <<>>
        /\ peer[c] = "none" \/ c \in backlog => Untouched(c) /\ ~Taken(c)

\* How many of its bytes the thread has taken; the others are in the buffer or
\* not received, in their order.
Pos(c) == Len(said[c]) - Len(stream[c]) - Len(buf)
Unread(c) ==
    /\ Pos(c) >= 0
    /\ \A k \in 1 .. Len(buf) : buf[k] = said[c][Pos(c) + k]
    /\ \A k \in 1 .. Len(stream[c]) :
          stream[c][k] = said[c][Pos(c) + Len(buf) + k]

\* The first n bytes: their lines have been answered, the rest is in line_buf.
AnsweredTo(c, n) ==
    /\ Len(told[c]) = Cardinality(UpTo(said[c], n))
    /\ line = LineOf(Cardinality(Chars(said[c], n + 1)))

\* What the thread has done for the client that it is busy with.
Progress(c) ==
    /\ t_pc \in {"accepted", "banner"} => Untouched(c)
    /\ t_pc \in {"recv", "bytes", "test", "pick"} =>
            Unread(c) /\ AnsweredTo(c, Pos(c))
    /\ t_pc \in {"request", "reply"} =>
            /\ Unread(c) /\ Pos(c) >= 1 /\ said[c][Pos(c)] = "newline"
            /\ AnsweredTo(c, Pos(c) - 1)
Busy == \A c \in Clients : Taken(c) => Progress(c)

\* Bytes are kept from one client to the next nowhere.
Buffered == t_pc \notin {"bytes", "request", "reply"} => buf = <<>>

\* The answers so far, whatever has become of the client.
RightFor(bytes, answers) ==
    /\ Len(answers) <= Cardinality(Newlines(bytes))
    /\ \A i \in Newlines(bytes) :
          Cardinality(UpTo(bytes, i)) <= Len(answers) =>
              answers[Cardinality(UpTo(bytes, i))]
                  = LineOf(Cardinality(Chars(bytes, i)))
AnswersRight == \A c \in Clients : RightFor(said[c], told[c])

AnswerInv == AnswerTypes /\ Waiting /\ Busy /\ Buffered /\ AnswersRight
-----------------------------------------------------------------------------
(* Counting newlines and characters. *)

\* What is counted is finite.
LEMMA Counts ==
    ASSUME NEW s \in Seq(Byte), NEW n \in Int
    PROVE  /\ IsFiniteSet(Newlines(s)) /\ Cardinality(Newlines(s)) \in Nat
           /\ IsFiniteSet(UpTo(s, n)) /\ Cardinality(UpTo(s, n)) \in Nat
           /\ IsFiniteSet(Chars(s, n)) /\ Cardinality(Chars(s, n)) \in Nat
           /\ Newlines(s) \in SUBSET (1 .. Len(s))
           /\ Cardinality(UpTo(s, n)) <= Cardinality(Newlines(s))
<1>1. Newlines(s) \in SUBSET (1 .. Len(s)) /\ UpTo(s, n) \in SUBSET Newlines(s)
  BY DEF Newlines, UpTo
<1>2. Chars(s, n) \in SUBSET (1 .. n - 1)
  BY DEF Chars
<1>3. IsFiniteSet(1 .. Len(s)) /\ IsFiniteSet(1 .. n - 1)
  BY FS_Interval
<1>4. IsFiniteSet(Newlines(s)) /\ IsFiniteSet(Chars(s, n))
  BY <1>1, <1>2, <1>3, FS_Subset
<1>5. /\ IsFiniteSet(UpTo(s, n))
      /\ Cardinality(UpTo(s, n)) <= Cardinality(Newlines(s))
  BY <1>1, <1>4, FS_Subset
<1> QED
  BY <1>1, <1>4, <1>5, FS_CardinalityType

\* A later newline has a higher number.
LEMMA Numbered ==
    ASSUME NEW s \in Seq(Byte), NEW n \in Int, NEW i \in Newlines(s)
    PROVE  /\ i <= n => Cardinality(UpTo(s, i)) <= Cardinality(UpTo(s, n))
           /\ n < i => Cardinality(UpTo(s, n)) < Cardinality(UpTo(s, i))
<1>1. i \in Int
  BY Counts DEF Newlines
<1>2. ASSUME i <= n
      PROVE  Cardinality(UpTo(s, i)) <= Cardinality(UpTo(s, n))
  <2>1. UpTo(s, i) \in SUBSET UpTo(s, n)
    BY <1>1, <1>2 DEF UpTo, Newlines
  <2> QED BY <2>1, Counts, FS_Subset
<1>3. ASSUME n < i
      PROVE  Cardinality(UpTo(s, n)) < Cardinality(UpTo(s, i))
  <2>1. UpTo(s, n) \in SUBSET UpTo(s, i) /\ i \in UpTo(s, i) /\ i \notin UpTo(s, n)
    BY <1>1, <1>3 DEF UpTo, Newlines
  <2>2. /\ Cardinality(UpTo(s, n)) <= Cardinality(UpTo(s, i))
        /\ Cardinality(UpTo(s, n)) # Cardinality(UpTo(s, i))
    BY <1>1, <2>1, Counts, FS_Subset
  <2> QED BY <1>1, <2>2, Counts
<1> QED
  BY <1>2, <1>3

\* One byte further.
LEMMA OneByte ==
    ASSUME NEW s \in Seq(Byte), NEW n \in 1 .. Len(s)
    PROVE  /\ s[n] = "newline" =>
                /\ Cardinality(UpTo(s, n)) = Cardinality(UpTo(s, n - 1)) + 1
                /\ Chars(s, n + 1) = {}
           /\ s[n] # "newline" => UpTo(s, n) = UpTo(s, n - 1)
           /\ s[n] = "char" =>
                Cardinality(Chars(s, n + 1)) = Cardinality(Chars(s, n)) + 1
           /\ s[n] = "return" => Chars(s, n + 1) = Chars(s, n)
<1>1. ASSUME s[n] = "newline"
      PROVE  /\ Cardinality(UpTo(s, n)) = Cardinality(UpTo(s, n - 1)) + 1
             /\ Chars(s, n + 1) = {}
  <2>1. UpTo(s, n) = UpTo(s, n - 1) \cup {n} /\ n \notin UpTo(s, n - 1)
    BY <1>1 DEF UpTo, Newlines
  <2>2. Chars(s, n + 1) = {}
    BY <1>1 DEF Chars
  <2>3. n - 1 \in Int
    OBVIOUS
  <2>4. IsFiniteSet(UpTo(s, n - 1))
    BY <2>3, Counts
  <2>5. Cardinality(UpTo(s, n)) = Cardinality(UpTo(s, n - 1)) + 1
    BY <2>1, <2>4, FS_AddElement
  <2> QED BY <2>2, <2>5
<1>2. s[n] # "newline" => UpTo(s, n) = UpTo(s, n - 1)
  BY DEF UpTo, Newlines
<1>3. ASSUME s[n] = "char"
      PROVE  Cardinality(Chars(s, n + 1)) = Cardinality(Chars(s, n)) + 1
  <2>1. Chars(s, n + 1) = Chars(s, n) \cup {n} /\ n \notin Chars(s, n)
    BY <1>3 DEF Chars
  <2> QED BY <2>1, Counts, FS_AddElement
<1>4. s[n] = "return" => Chars(s, n + 1) = Chars(s, n)
  BY DEF Chars
<1> QED
  BY <1>1, <1>2, <1>3, <1>4

\* A byte more in the stream leaves the lines before it alone.
LEMMA OneMoreByte ==
    ASSUME NEW s \in Seq(Byte), NEW b \in Byte
    PROVE  /\ \A i \in Int : i <= Len(s) => UpTo(Append(s, b), i) = UpTo(s, i)
           /\ \A i \in Int : i <= Len(s) + 1 => Chars(Append(s, b), i) = Chars(s, i)
           /\ Newlines(Append(s, b)) = IF b = "newline"
                                       THEN Newlines(s) \cup {Len(s) + 1}
                                       ELSE Newlines(s)
<1> DEFINE t == Append(s, b)
<1>1. /\ t \in Seq(Byte) /\ Len(t) = Len(s) + 1 /\ t[Len(s) + 1] = b
      /\ \A k \in 1 .. Len(s) : t[k] = s[k]
      /\ DOMAIN t = 1 .. Len(s) + 1 /\ DOMAIN s = 1 .. Len(s) /\ Len(s) \in Nat
  OBVIOUS
<1> HIDE DEF t
<1>2. Newlines(t) = IF b = "newline" THEN Newlines(s) \cup {Len(s) + 1}
                                     ELSE Newlines(s)
  BY <1>1 DEF Newlines
<1>3. ASSUME NEW i \in Int, i <= Len(s) PROVE UpTo(t, i) = UpTo(s, i)
  BY <1>1, <1>2, <1>3 DEF UpTo, Newlines
<1>4. ASSUME NEW i \in Int, i <= Len(s) + 1 PROVE Chars(t, i) = Chars(s, i)
  BY <1>1, <1>4 DEF Chars
<1> QED
  BY <1>2, <1>3, <1>4 DEF t

\* line_buf takes a character more, or is full.
LEMMA OneMoreChar ==
    ASSUME NEW n \in Nat
    PROVE  /\ LineOf(n) \in Seq(Byte) /\ LineOf(0) = <<>>
           /\ LineOf(n + 1) = IF Fits(LineOf(n)) THEN Append(LineOf(n), "char")
                                                 ELSE LineOf(n)
<1> DEFINE len(m) == IF m < LineSize THEN m ELSE LineSize - 1
<1>1. /\ len(n) \in Nat /\ len(n + 1) \in Nat /\ len(0) = 0
      /\ len(n + 1) = IF len(n) + 1 < LineSize THEN len(n) + 1 ELSE len(n)
  BY SizeAssumption
<1>2. \A m : LineOf(m) = [k \in 1 .. len(m) |-> "char"]
  BY DEF LineOf
<1> HIDE DEF len
<1>3. /\ LineOf(n) \in Seq(Byte) /\ Len(LineOf(n)) = len(n)
      /\ LineOf(n + 1) \in Seq(Byte) /\ Len(LineOf(n + 1)) = len(n + 1)
  BY <1>1, <1>2 DEF Byte
<1>4. LineOf(0) = <<>>
  BY <1>1, <1>2
<1>5. CASE len(n) + 1 < LineSize
  <2>1. Fits(LineOf(n))
    BY <1>3, <1>5 DEF Fits
  <2>2. LineOf(n + 1) = Append(LineOf(n), "char")
    BY <1>1, <1>2, <1>3, <1>5
  <2> QED BY <1>3, <1>4, <2>1, <2>2
<1>6. CASE ~(len(n) + 1 < LineSize)
  BY <1>1, <1>2, <1>3, <1>4, <1>6 DEF Fits
<1> QED
  BY <1>5, <1>6
-----------------------------------------------------------------------------
(* The steps, by what they do to the bytes and the answers. *)

\* They leave all of it where it is.
Idle == \/ ListenFails \/ TestStop \/ Pick \/ RecvEnds \/ BufferDone \/ Handled
        \/ CloseServerTest \/ Accepted
        \/ MainMoves \/ StopClientDone \/ StopServerDone \/ UNCHANGED vars
\* They forget the line, or the buffer.
Forgets == SendBanner \/ SendFails \/ CloseClientTest \/ CloseClientDone
\* They make or close a handle.
Makes == BindFails \/ Listen
Closes == CloseClient \/ CloseServer \/ StopCloseClient \/ StopCloseServer

LEMMA ByteSteps ==
    ASSUME [Next]_vars
    PROVE  \/ Idle \/ Forgets \/ Makes \/ Closes \/ AcceptFails \/ TakeByte
           \/ \E c \in Clients :
                 \/ Accept(c) \/ Recv(c) \/ Reply(c) \/ Connect(c)
                 \/ \E b \in Byte : Send(c, b)
                 \/ \E how \in {"closed", "reset"} : Leave(c, how)
  BY DEF Next, Thread, Stopping, Client, Idle, Forgets, Makes, Closes, MainMoves

LEMMA IdleMoves ==
    ASSUME Idle, Ended
    PROVE  /\ UNCHANGED <<open, backlog, peer, stream, said, told, buf, line>>
           /\ \/ t_pc' = t_pc
              \/ t_pc = "test" /\ t_pc' \in {"pick", "close_client"}
              \/ t_pc = "pick" /\ t_pc' \in {"recv", "accept"}
              \/ t_pc = "bytes" /\ t_pc' = "test" /\ buf = <<>>
              \/ t_pc = "recv" /\ t_pc' = "close_client"
              \/ t_pc = "request" /\ t_pc' = "reply"
              \/ t_pc = "accepted" /\ t_pc' = "banner"
              \/ t_pc \notin {"bytes", "request", "reply"}
                 /\ t_pc' \in {"listen", "exited", "close_server_handle"}
<1> USE DEF net, thread
<1>1. CASE ListenFails \/ TestStop \/ Pick \/ RecvEnds
  BY <1>1 DEF ListenFails, TestStop, Pick, RecvEnds
<1>2. CASE BufferDone \/ Handled \/ Accepted
  BY <1>2 DEF BufferDone, Handled, Accepted
<1>3. CASE CloseServerTest
  BY <1>3 DEF CloseServerTest, CloseTest
<1>4. ASSUME NEW ok \in BOOLEAN, Start(ok)
      PROVE  /\ UNCHANGED <<open, backlog, peer, stream, said, told, buf, line>>
             /\ t_pc' = t_pc \/ (t_pc = "none" /\ t_pc' = "listen")
  BY <1>4 DEF Start, Ended
<1>5. CASE Stop \/ StopClient \/ StopServer \/ Join
  BY <1>5 DEF Stop, StopClient, StopServer, Join
<1>6. CASE StopClientDone \/ StopServerDone \/ UNCHANGED vars
  BY <1>6 DEF StopClientDone, StopServerDone, vars
<1> QED
  BY <1>1, <1>2, <1>3, <1>4, <1>5, <1>6 DEF Idle, MainMoves

LEMMA ForgetsMoves ==
    ASSUME Forgets
    PROVE  /\ UNCHANGED <<open, backlog, peer, stream, said, told>>
           /\ line' = <<>> \/ line' = line
           /\ buf' = buf \/ buf' = <<>>
           /\ t_pc \notin {"bytes", "request"}
           /\ t_pc' \notin {"accepted", "banner", "bytes", "request", "reply", "pick"}
           /\ t_pc = "reply" => buf' = <<>>
           /\ t_pc' = "recv" => t_pc = "banner" /\ line' = <<>> /\ buf' = buf
           /\ t_pc' = "test" => \/ t_pc = "close_client_done"
                                \/ t_pc = "close_client" /\ ~client_sock.valid
<1> USE DEF net, AfterClient
<1>1. CASE SendBanner \/ SendFails
  BY <1>1 DEF SendBanner, SendFails
<1>2. CASE CloseClientTest \/ CloseClientDone
  BY <1>2 DEF CloseClientTest, CloseTest, CloseClientDone
<1> QED BY <1>1, <1>2 DEF Forgets

\* No bytes are touched by closing a handle; a client it was not is not taken.
LEMMA ClosesMoves ==
    ASSUME SocketTypes, Closes
    PROVE  /\ UNCHANGED <<stream, said, told, buf, line>>
           /\ t_pc' = t_pc
              \/ (t_pc \in {"close_client_handle", "close_server_handle"}
                  /\ t_pc' \in {"close_client_done", "exited"})
           /\ \A c \in Clients : Taken(c)' => Taken(c)
           /\ \/ UNCHANGED <<peer, backlog>>
              \/ /\ backlog' = {}
                 /\ peer' = [c \in Clients |->
                                IF c \in backlog THEN "reset" ELSE peer[c]]
<1>1. PICK h \in Handle \cup {Invalid} : CloseHandle(h)
  BY DEF Closes, CloseClient, CloseServer, StopCloseClient, StopCloseServer,
     SocketTypes
<1>2. \A c \in Clients : Taken(c)' => Taken(c)
  BY <1>1, Closing, Kinds DEF Taken
<1>3. /\ UNCHANGED <<told, buf, line>>
      /\ t_pc' = t_pc
         \/ (t_pc \in {"close_client_handle", "close_server_handle"}
             /\ t_pc' \in {"close_client_done", "exited"})
  BY DEF Closes, CloseClient, CloseServer, StopCloseClient, StopCloseServer, thread
<1> QED
  BY <1>1, <1>2, <1>3 DEF CloseHandle

LEMMA MakesMoves ==
    ASSUME SocketTypes, Makes
    PROVE  /\ UNCHANGED <<backlog, peer, stream, said, told, buf, line>>
           /\ t_pc = "listen" /\ t_pc' \in {"test", "exited"}
           /\ \A c \in Clients : Taken(c)' => Taken(c)
<1>1. PICK h \in Handle, object \in {Listener, Unbound} : Allot(object, h)
  BY DEF Makes, BindFails, Listen
<1>2. \A c \in Clients : Taken(c)' => Taken(c)
  BY <1>1, Kinds DEF Allot, Taken, SocketTypes
<1> QED
  BY <1>2 DEF Makes, BindFails, Listen, net

\* The thread is busy with one client only: the one behind the client socket.
LEMMA OneTaken ==
    ASSUME SocketTypes, ClientHeld, NEW c \in Clients, NEW d \in Clients
    PROVE  /\ Usable(c) => Taken(c)
           /\ Usable(c) /\ Taken(d) => c = d
           /\ Taken(c) => t_pc \notin {"none", "listen", "accept",
                                       "close_client_done", "exited"}
           /\ Taken(c) => client_sock.valid \/ t_pc = "accepted"
<1>1. Usable(c) => client_sock.handle \in Handle /\ open[client_sock.handle] = c
  BY DEF Usable, Connected, SocketTypes
<1> QED
  BY <1>1 DEF Taken, ClientHeld, NoClient
-----------------------------------------------------------------------------
\* Bytes stay bytes, and lines stay lines.
LEMMA AnswerTypesStep ==
    ASSUME SocketTypes, Ended, AnswerTypes, [Next]_vars
    PROVE  AnswerTypes'
<1> USE DEF AnswerTypes
<1>1. CASE Idle
  BY <1>1, IdleMoves
<1>2. CASE Forgets
  <2>1. <<>> \in Seq(Byte)
    OBVIOUS
  <2> QED BY <1>2, <2>1, ForgetsMoves
<1>3. CASE Makes
  BY <1>3, MakesMoves
<1>4. CASE Closes
  BY <1>4, ClosesMoves
<1>5. CASE AcceptFails
  BY <1>5 DEF AcceptFails
<1>6. CASE TakeByte
  <2>1. "char" \in Byte /\ Tail(buf) \in Seq(Byte)
    BY <1>6 DEF TakeByte, Byte
  <2> QED BY <1>6, <2>1 DEF TakeByte, net
<1>7. ASSUME NEW c \in Clients, Accept(c) PROVE AnswerTypes'
  BY <1>7 DEF Accept
<1>8. ASSUME NEW c \in Clients, Recv(c) PROVE AnswerTypes'
  <2>1. PICK n \in 1 .. Len(stream[c]) :
            /\ buf' = SubSeq(stream[c], 1, n)
            /\ stream' = [stream EXCEPT ![c] = SubSeq(@, n + 1, Len(@))]
    BY <1>8 DEF Recv
  <2>2. /\ SubSeq(stream[c], 1, n) \in Seq(Byte)
        /\ SubSeq(stream[c], n + 1, Len(stream[c])) \in Seq(Byte)
    BY <2>1
  <2> QED BY <1>8, <2>1, <2>2 DEF Recv
<1>9. ASSUME NEW c \in Clients, Reply(c) PROVE AnswerTypes'
  BY <1>9 DEF Reply, net
<1>10. ASSUME NEW c \in Clients, Connect(c) PROVE AnswerTypes'
  BY <1>10 DEF Connect, thread
<1>11. ASSUME NEW c \in Clients, NEW b \in Byte, Send(c, b) PROVE AnswerTypes'
  <2>1. Append(said[c], b) \in Seq(Byte) /\ Append(stream[c], b) \in Seq(Byte)
    OBVIOUS
  <2>2. UNCHANGED <<told, buf, line, backlog, peer>>
    BY <1>11 DEF Send, thread
  <2>3. said' \in [Clients -> Seq(Byte)] /\ stream' \in [Clients -> Seq(Byte)]
    BY <1>11, <2>1 DEF Send
  <2> QED BY <2>2, <2>3
<1>12. ASSUME NEW c \in Clients, NEW how \in {"closed", "reset"}, Leave(c, how)
       PROVE  AnswerTypes'
  BY <1>12 DEF Leave, thread
<1> QED
  BY <1>1, <1>2, <1>3, <1>4, <1>5, <1>6, <1>7, <1>8, <1>9, <1>10, <1>11, <1>12,
     ByteSteps

\* Nobody reads or answers a client before it is accepted.
LEMMA WaitingStep ==
    ASSUME SocketTypes, ClientHeld, Ended, AnswerTypes, Waiting, [Next]_vars
    PROVE  Waiting'
<1> USE DEF Waiting, Untouched
<1>1. CASE Idle
  BY <1>1, IdleMoves DEF Taken
<1>2. CASE Forgets
  BY <1>2, ForgetsMoves DEF Taken
<1>3. CASE Makes
  BY <1>3, MakesMoves
<1>4. CASE Closes
  BY <1>4, ClosesMoves DEF AnswerTypes
<1>5. CASE AcceptFails
  BY <1>5 DEF AcceptFails, Taken
<1>6. CASE TakeByte
  BY <1>6 DEF TakeByte, net, Taken
<1>7. ASSUME NEW c \in Clients, Accept(c) PROVE Waiting'
  <2>1. \A d \in Clients : Taken(d)' => Taken(d) \/ d = c
    BY <1>7 DEF Accept, Allot, Taken, SocketTypes
  <2> QED BY <1>7, <2>1 DEF Accept
<1>8. ASSUME NEW c \in Clients, Recv(c) \/ Reply(c) PROVE Waiting'
  <2>1. Taken(c) /\ Usable(c)
    BY <1>8, OneTaken DEF Recv, Reply
  <2>2. /\ UNCHANGED <<open, backlog, peer, said>>
        /\ \A d \in Clients \ {c} : told'[d] = told[d] /\ stream'[d] = stream[d]
    BY <1>8 DEF Recv, Reply, net, AnswerTypes
  <2> QED BY <2>1, <2>2 DEF Taken
<1>9. ASSUME NEW c \in Clients, Connect(c) PROVE Waiting'
  BY <1>9 DEF Connect, Taken, AnswerTypes
<1>10. ASSUME NEW c \in Clients, NEW b \in Byte, Send(c, b) PROVE Waiting'
  BY <1>10 DEF Send, Taken, AnswerTypes
<1>11. ASSUME NEW c \in Clients, NEW how \in {"closed", "reset"}, Leave(c, how)
       PROVE  Waiting'
  BY <1>11 DEF Leave, Taken, AnswerTypes
<1> QED
  BY <1>1, <1>2, <1>3, <1>4, <1>5, <1>6, <1>7, <1>8, <1>9, <1>10, <1>11, ByteSteps

\* The buffer is empty whenever the thread turns to another client.
LEMMA BufferedStep ==
    ASSUME SocketTypes, Ended, Buffered, [Next]_vars
    PROVE  Buffered'
<1> USE DEF Buffered
<1>1. CASE Idle
  BY <1>1, IdleMoves
<1>2. CASE Forgets
  BY <1>2, ForgetsMoves
<1>3. CASE Makes \/ Closes
  BY <1>3, MakesMoves, ClosesMoves
<1>4. CASE AcceptFails \/ TakeByte
  BY <1>4 DEF AcceptFails, TakeByte
<1>5. ASSUME NEW c \in Clients, Accept(c) \/ Recv(c) \/ Reply(c) PROVE Buffered'
  BY <1>5 DEF Accept, Recv, Reply
<1>6. ASSUME NEW c \in Clients,
             \/ Connect(c) \/ \E b \in Byte : Send(c, b)
             \/ \E how \in {"closed", "reset"} : Leave(c, how)
      PROVE  Buffered'
  BY <1>6 DEF Connect, Send, Leave, thread
<1> QED
  BY <1>1, <1>2, <1>3, <1>4, <1>5, <1>6, ByteSteps
-----------------------------------------------------------------------------
(* Progress with one client. *)

\* Lengths are numbers.
LEMMA Lengths ==
    ASSUME AnswerTypes, NEW c \in Clients
    PROVE  /\ said[c] \in Seq(Byte) /\ stream[c] \in Seq(Byte) /\ buf \in Seq(Byte)
           /\ told[c] \in Seq(Seq(Byte)) /\ line \in Seq(Byte)
           /\ Len(said[c]) \in Nat /\ Len(stream[c]) \in Nat /\ Len(buf) \in Nat
           /\ Len(told[c]) \in Nat /\ Pos(c) \in Int
           /\ Pos(c) + Len(buf) + Len(stream[c]) = Len(said[c])
<1>1. /\ said[c] \in Seq(Byte) /\ stream[c] \in Seq(Byte) /\ buf \in Seq(Byte)
      /\ told[c] \in Seq(Seq(Byte)) /\ line \in Seq(Byte)
  BY DEF AnswerTypes
<1>2. /\ Len(said[c]) \in Nat /\ Len(stream[c]) \in Nat /\ Len(buf) \in Nat
      /\ Len(told[c]) \in Nat
  BY <1>1
<1> QED
  BY <1>1, <1>2 DEF Pos

\* What a step that moves none of its bytes may do.
LEMMA SameProgress ==
    ASSUME NEW c \in Clients, Progress(c),
           said'[c] = said[c], told'[c] = told[c], stream'[c] = stream[c],
           buf' = buf, line' = line,
           t_pc' \in {"accepted", "banner"} => t_pc \in {"accepted", "banner"},
           t_pc' \in {"recv", "bytes", "test", "pick"} =>
               t_pc \in {"recv", "bytes", "test", "pick"},
           t_pc' \in {"request", "reply"} => t_pc \in {"request", "reply"}
    PROVE  Progress(c)'
<1>1. /\ Untouched(c)' = Untouched(c) /\ Unread(c)' = Unread(c)
      /\ Pos(c)' = Pos(c) /\ said[c]' = said[c]
      /\ \A n : AnsweredTo(c, n)' = AnsweredTo(c, n)
  BY DEF Untouched, Unread, Pos, AnsweredTo
<1> QED
  BY <1>1 DEF Progress

\* A client sends one more byte.
LEMMA SendProgress ==
    ASSUME AnswerTypes, NEW c \in Clients, NEW b \in Byte, Send(c, b), Progress(c)
    PROVE  Progress(c)'
<1>1. /\ said'[c] = Append(said[c], b) /\ stream'[c] = Append(stream[c], b)
      /\ told'[c] = told[c] /\ buf' = buf /\ line' = line /\ t_pc' = t_pc
  BY DEF Send, thread, AnswerTypes
<1>2. /\ said[c] \in Seq(Byte) /\ stream[c] \in Seq(Byte)
      /\ Len(said[c]) \in Nat /\ Len(stream[c]) \in Nat /\ Len(buf) \in Nat
      /\ Pos(c) \in Int /\ Pos(c) + Len(buf) + Len(stream[c]) = Len(said[c])
  BY Lengths
<1>3. /\ Len(said'[c]) = Len(said[c]) + 1 /\ said'[c][Len(said[c]) + 1] = b
      /\ \A k \in 1 .. Len(said[c]) : said'[c][k] = said[c][k]
      /\ Len(stream'[c]) = Len(stream[c]) + 1
      /\ stream'[c][Len(stream[c]) + 1] = b
      /\ \A k \in 1 .. Len(stream[c]) : stream'[c][k] = stream[c][k]
  BY <1>1, <1>2
<1>4. Pos(c)' = Pos(c) /\ Pos(c) <= Len(said[c])
  <2>1. ASSUME NEW x \in Nat, NEW y \in Nat, NEW z \in Nat
        PROVE  (x + 1) - (y + 1) - z = x - y - z
    OBVIOUS
  <2>2. Len(said'[c]) - Len(stream'[c]) - Len(buf')
            = Len(said[c]) - Len(stream[c]) - Len(buf)
    BY <1>1, <1>2, <1>3, <2>1
  <2>3. Pos(c)' = Pos(c)
    BY <2>2 DEF Pos
  <2>4. Pos(c) <= Len(said[c])
    BY <1>2
  <2> QED BY <2>3, <2>4
<1>5. Untouched(c) => Untouched(c)'
  BY <1>1 DEF Untouched
<1>6. Unread(c) => Unread(c)'
  <2> SUFFICES ASSUME Unread(c) PROVE Unread(c)'
    OBVIOUS
  <2>1. ASSUME NEW k \in 1 .. Len(buf)
        PROVE  buf'[k] = said'[c][Pos(c) + k]
    <3>1. Pos(c) + k \in 1 .. Len(said[c])
      BY <1>2 DEF Unread
    <3>2. buf[k] = said[c][Pos(c) + k]
      BY DEF Unread
    <3> QED BY <1>1, <1>3, <3>1, <3>2
  <2>2. \A k \in 1 .. Len(stream[c]) + 1 :
            stream'[c][k] = said'[c][Pos(c) + Len(buf) + k]
    <3> SUFFICES ASSUME NEW k \in 1 .. Len(stream[c]) + 1
                 PROVE  stream'[c][k] = said'[c][Pos(c) + Len(buf) + k]
      OBVIOUS
    <3>1. CASE k = Len(stream[c]) + 1
      <4>1. Pos(c) + Len(buf) + k = Len(said[c]) + 1
        BY <1>2, <3>1
      <4> QED BY <1>3, <3>1, <4>1
    <3>2. CASE k # Len(stream[c]) + 1
      <4>1. k \in 1 .. Len(stream[c])
        BY <1>2, <3>2
      <4>2. Pos(c) + Len(buf) + k \in 1 .. Len(said[c])
        BY <1>2, <4>1 DEF Unread
      <4> QED BY <1>3, <4>1, <4>2 DEF Unread
    <3> QED BY <3>1, <3>2
  <2> QED BY <1>1, <1>4, <1>3, <2>1, <2>2 DEF Unread
<1>7. ASSUME NEW n \in Int, n <= Len(said[c]), AnsweredTo(c, n)
      PROVE  AnsweredTo(c, n)'
  <2>1. /\ UpTo(said'[c], n) = UpTo(said[c], n)
        /\ Chars(said'[c], n + 1) = Chars(said[c], n + 1)
    BY <1>1, <1>2, <1>7, OneMoreByte
  <2>2. /\ Len(told[c]) = Cardinality(UpTo(said[c], n))
        /\ line = LineOf(Cardinality(Chars(said[c], n + 1)))
    BY <1>7 DEF AnsweredTo
  <2>3. /\ Len(told'[c]) = Cardinality(UpTo(said'[c], n))
        /\ line' = LineOf(Cardinality(Chars(said'[c], n + 1)))
    BY <1>1, <2>1, <2>2
  <2> QED BY <2>3 DEF AnsweredTo
<1>8. ASSUME Pos(c) >= 1 PROVE said'[c][Pos(c)] = said[c][Pos(c)]
  <2>1. Pos(c) \in 1 .. Len(said[c])
    BY <1>2, <1>4, <1>8
  <2> QED BY <1>3, <2>1
<1>9. PICK p \in Int : p = Pos(c)
  BY <1>2
<1>10. Pos(c)' = p /\ p <= Len(said[c]) /\ p - 1 <= Len(said[c]) /\ p - 1 \in Int
  BY <1>4, <1>9
<1>11. /\ AnsweredTo(c, p) => AnsweredTo(c, p)'
       /\ AnsweredTo(c, p - 1) => AnsweredTo(c, p - 1)'
  BY <1>7, <1>10
<1>12. ASSUME t_pc \in {"request", "reply"}
       PROVE  /\ Unread(c)' /\ p >= 1 /\ said'[c][p] = "newline"
              /\ AnsweredTo(c, p - 1)'
  <2>1. /\ Unread(c) /\ p >= 1 /\ said[c][p] = "newline"
        /\ AnsweredTo(c, p - 1)
    BY <1>9, <1>12 DEF Progress
  <2>2. Unread(c)'
    BY <1>6, <2>1
  <2>3. AnsweredTo(c, p - 1)'
    BY <1>11, <2>1
  <2>4. said'[c][p] = "newline"
    BY <1>8, <1>9, <2>1
  <2> QED BY <2>1, <2>2, <2>3, <2>4
<1>13. ASSUME t_pc \in {"recv", "bytes", "test", "pick"}
       PROVE  Unread(c)' /\ AnsweredTo(c, p)'
  <2>1. Unread(c) /\ AnsweredTo(c, p)
    BY <1>9, <1>13 DEF Progress
  <2>2. Unread(c)'
    BY <1>6, <2>1
  <2>3. AnsweredTo(c, p)'
    BY <1>11, <2>1
  <2> QED BY <2>2, <2>3
<1>14. t_pc \in {"accepted", "banner"} => Untouched(c)'
  BY <1>5 DEF Progress
<1> QED
  BY <1>1, <1>10, <1>12, <1>13, <1>14 DEF Progress, AnsweredTo

\* The banner has been sent: the first byte that arrives begins a line.
LEMMA BannerProgress ==
    ASSUME AnswerTypes, NEW c \in Clients, Untouched(c), buf = <<>>,
           UNCHANGED <<said, told, stream>>, buf' = <<>>, line' = <<>>,
           t_pc' = "recv"
    PROVE  Progress(c)'
<1>1. /\ said[c] \in Seq(Byte) /\ Len(said[c]) \in Nat
      /\ stream[c] = said[c] /\ told[c] = <<>>
  BY Lengths DEF Untouched
<1>2. Pos(c)' = 0
  <2>1. Pos(c)' = Len(said'[c]) - Len(stream'[c]) - Len(buf')
    BY DEF Pos
  <2>2. Len(<<>>) = 0 /\ said'[c] = said[c] /\ stream'[c] = said[c]
    BY <1>1
  <2>3. ASSUME NEW x \in Nat PROVE x - x - 0 = 0
    OBVIOUS
  <2>4. Len(said'[c]) - Len(stream'[c]) - Len(buf') = 0
    BY <1>1, <2>2, <2>3
  <2> QED BY <2>1, <2>4
<1>3. Unread(c)'
  BY <1>1, <1>2 DEF Unread
<1>4. UpTo(said[c], 0) = {} /\ Chars(said[c], 1) = {}
  BY <1>1 DEF UpTo, Newlines, Chars
<1>5. AnsweredTo(c, 0)'
  <2>1. /\ Len(told'[c]) = Cardinality(UpTo(said'[c], 0))
        /\ line' = LineOf(Cardinality(Chars(said'[c], 0 + 1)))
    <3>1. LineOf(0) = <<>> /\ Len(<<>>) = 0
      BY OneMoreChar
    <3>2. told'[c] = <<>> /\ said'[c] = said[c] /\ 0 + 1 = 1
      BY <1>1
    <3>3. Cardinality({}) = 0
      BY FS_EmptySet
    <3> QED BY <1>4, <3>1, <3>2, <3>3
  <2> QED BY <2>1 DEF AnsweredTo
<1> QED
  BY <1>2, <1>3, <1>5 DEF Progress

\* Bytes move from the stream to the buffer.
LEMMA RecvProgress ==
    ASSUME AnswerTypes, Buffered, NEW c \in Clients, Recv(c), Progress(c)
    PROVE  Progress(c)'
<1>1. PICK n \in 1 .. Len(stream[c]) :
          buf' = SubSeq(stream[c], 1, n)
          /\ stream'[c] = SubSeq(stream[c], n + 1, Len(stream[c]))
  BY DEF Recv, AnswerTypes
<1>2. /\ t_pc = "recv" /\ t_pc' = "bytes" /\ buf = <<>>
      /\ UNCHANGED <<said, told, line>>
  BY DEF Recv, Buffered
<1>3. /\ stream[c] \in Seq(Byte) /\ Len(stream[c]) \in Nat
      /\ Len(said[c]) \in Nat /\ Pos(c) \in Int
      /\ Pos(c) + Len(buf) + Len(stream[c]) = Len(said[c])
  BY Lengths
<1>4. /\ Len(buf') = n /\ Len(stream'[c]) = Len(stream[c]) - n
      /\ \A k \in 1 .. n : buf'[k] = stream[c][k]
      /\ \A k \in 1 .. Len(stream[c]) - n : stream'[c][k] = stream[c][n + k]
  BY <1>1, <1>3
<1>5. Pos(c)' = Pos(c) /\ Len(buf) = 0
  BY <1>2, <1>3, <1>4 DEF Pos
<1>6. Unread(c) /\ AnsweredTo(c, Pos(c))
  BY <1>2 DEF Progress
<1>7. Unread(c)'
  <2>1. \A k \in 1 .. Len(stream[c]) : stream[c][k] = said[c][Pos(c) + k]
    BY <1>3, <1>5, <1>6 DEF Unread
  <2>2. \A k \in 1 .. n : buf'[k] = said[c][Pos(c) + k]
    <3> SUFFICES ASSUME NEW k \in 1 .. n PROVE buf'[k] = said[c][Pos(c) + k]
      OBVIOUS
    <3>1. k \in 1 .. Len(stream[c])
      BY <1>3
    <3> QED BY <1>4, <2>1, <3>1
  <2>3. \A k \in 1 .. Len(stream[c]) - n :
            stream'[c][k] = said[c][Pos(c) + n + k]
    <3> SUFFICES ASSUME NEW k \in 1 .. Len(stream[c]) - n
                 PROVE  stream'[c][k] = said[c][Pos(c) + n + k]
      OBVIOUS
    <3>1. n + k \in 1 .. Len(stream[c]) /\ Pos(c) + (n + k) = Pos(c) + n + k
      BY <1>3
    <3> QED BY <1>4, <2>1, <3>1
  <2> QED BY <1>2, <1>4, <1>5, <1>6, <2>2, <2>3 DEF Unread
<1>8. AnsweredTo(c, Pos(c))'
  BY <1>2, <1>5, <1>6 DEF AnsweredTo
<1> QED
  BY <1>2, <1>7, <1>8 DEF Progress

\* One byte of the buffer goes into the line, or ends it.
LEMMA TakeProgress ==
    ASSUME AnswerTypes, NEW c \in Clients, TakeByte, Progress(c)
    PROVE  Progress(c)'
<1>1. /\ t_pc = "bytes" /\ buf # <<>> /\ buf' = Tail(buf)
      /\ UNCHANGED <<said, told, stream>>
      /\ line' = IF Head(buf) = "char" /\ Fits(line) THEN Append(line, "char")
                                                     ELSE line
      /\ t_pc' = IF Head(buf) = "newline" THEN "request" ELSE "bytes"
  BY DEF TakeByte, net
<1>2. /\ said[c] \in Seq(Byte) /\ buf \in Seq(Byte)
      /\ Len(said[c]) \in Nat /\ Len(stream[c]) \in Nat /\ Len(buf) \in Nat
      /\ Pos(c) \in Int /\ Pos(c) + Len(buf) + Len(stream[c]) = Len(said[c])
  BY Lengths
<1>3. PICK s \in Seq(Byte), p \in Int : s = said[c] /\ p = Pos(c) + 1
  BY <1>2
<1>4. /\ Len(buf) >= 1 /\ Len(buf') = Len(buf) - 1 /\ Head(buf) = buf[1]
      /\ \A k \in 1 .. Len(buf) - 1 : buf'[k] = buf[k + 1]
  BY <1>1, <1>2
<1>5. /\ p >= 1 /\ \A k \in 1 .. Len(buf) : buf[k] = s[p - 1 + k]
      /\ \A k \in 1 .. Len(stream[c]) : stream[c][k] = s[p - 1 + Len(buf) + k]
  <2>1. Unread(c) /\ Pos(c) = p - 1
    BY <1>1, <1>2, <1>3 DEF Progress
  <2>2. p >= 1
    BY <2>1 DEF Unread
  <2> QED BY <1>3, <2>1, <2>2 DEF Unread
<1>6. /\ Len(told[c]) = Cardinality(UpTo(s, p - 1))
      /\ line = LineOf(Cardinality(Chars(s, p)))
  <2>1. AnsweredTo(c, p - 1)
    BY <1>1, <1>2, <1>3 DEF Progress
  <2> QED BY <1>3, <2>1 DEF AnsweredTo
<1>7. p \in 1 .. Len(s) /\ s[p] = Head(buf) /\ s[p] \in Byte
  <2>1. p \in 1 .. Len(s) /\ p - 1 + 1 = p
    BY <1>2, <1>3, <1>4, <1>5
  <2> QED BY <1>4, <1>5, <2>1
<1>8. Pos(c)' = p
  BY <1>1, <1>2, <1>3, <1>4 DEF Pos
<1>9. Unread(c)'
  <2>1. \A k \in 1 .. Len(buf) - 1 : buf'[k] = s[p + k]
    <3> SUFFICES ASSUME NEW k \in 1 .. Len(buf) - 1 PROVE buf'[k] = s[p + k]
      OBVIOUS
    <3>1. k + 1 \in 1 .. Len(buf) /\ p - 1 + (k + 1) = p + k
      BY <1>2
    <3> QED BY <1>4, <1>5, <3>1
  <2>2. \A k \in 1 .. Len(stream[c]) : stream[c][k] = s[p + (Len(buf) - 1) + k]
    <3>1. \A k \in Int : p - 1 + Len(buf) + k = p + (Len(buf) - 1) + k
      BY <1>2
    <3> QED BY <1>5, <3>1
  <2> QED BY <1>1, <1>3, <1>4, <1>5, <1>8, <2>1, <2>2 DEF Unread
<1>10. Cardinality(Chars(s, p)) \in Nat
  BY Counts
<1>11. CASE s[p] = "newline"
  <2>1. t_pc' = "request" /\ line' = line
    BY <1>1, <1>7, <1>11
  <2>2. /\ Len(told'[c]) = Cardinality(UpTo(said'[c], p - 1))
        /\ line' = LineOf(Cardinality(Chars(said'[c], p - 1 + 1)))
    BY <1>1, <1>3, <1>6, <2>1
  <2>3. AnsweredTo(c, p - 1)'
    BY <2>2 DEF AnsweredTo
  <2>4. said'[c][Pos(c)'] = "newline" /\ Pos(c)' >= 1 /\ Pos(c)' - 1 = p - 1
    BY <1>1, <1>3, <1>5, <1>8, <1>11
  <2> QED BY <1>8, <1>9, <2>1, <2>3, <2>4 DEF Progress
<1>12. CASE s[p] # "newline"
  <2>1. t_pc' = "bytes" /\ UpTo(s, p) = UpTo(s, p - 1)
    BY <1>1, <1>7, <1>12, OneByte
  <2>2. line' = LineOf(Cardinality(Chars(s, p + 1)))
    <3>1. CASE s[p] = "char"
      BY <1>1, <1>6, <1>7, <1>10, <3>1, OneByte, OneMoreChar
    <3>2. CASE s[p] = "return"
      BY <1>1, <1>6, <1>7, <3>2, OneByte
    <3> QED BY <1>7, <1>12, <3>1, <3>2 DEF Byte
  <2>3. /\ Len(told'[c]) = Cardinality(UpTo(said'[c], p))
        /\ line' = LineOf(Cardinality(Chars(said'[c], p + 1)))
    BY <1>1, <1>3, <1>6, <2>1, <2>2
  <2>4. AnsweredTo(c, p)'
    BY <2>3 DEF AnsweredTo
  <2> QED BY <1>8, <1>9, <2>1, <2>4 DEF Progress
<1> QED
  BY <1>11, <1>12

\* The line is answered.
LEMMA ReplyProgress ==
    ASSUME AnswerTypes, NEW c \in Clients, Reply(c), Progress(c)
    PROVE  /\ Progress(c)'
           /\ RightFor(said[c], told[c]) => RightFor(said[c], told'[c])
<1>1. /\ t_pc = "reply" /\ t_pc' = "bytes" /\ line' = <<>>
      /\ UNCHANGED <<said, stream, buf>> /\ told'[c] = Append(told[c], line)
  BY DEF Reply, net, AnswerTypes
<1>2. /\ said[c] \in Seq(Byte) /\ told[c] \in Seq(Seq(Byte)) /\ line \in Seq(Byte)
      /\ Len(said[c]) \in Nat /\ Len(stream[c]) \in Nat /\ Len(buf) \in Nat
      /\ Len(told[c]) \in Nat
      /\ Pos(c) \in Int /\ Pos(c) + Len(buf) + Len(stream[c]) = Len(said[c])
  BY Lengths
<1>3. PICK s \in Seq(Byte), p \in Int, n \in Nat :
          s = said[c] /\ p = Pos(c) /\ n = Len(told[c])
  BY <1>2
<1>4. /\ p >= 1 /\ s[p] = "newline" /\ n = Cardinality(UpTo(s, p - 1))
      /\ line = LineOf(Cardinality(Chars(s, p)))
  <2>1. AnsweredTo(c, p - 1) /\ p >= 1 /\ s[p] = "newline"
    BY <1>1, <1>3 DEF Progress
  <2> QED BY <1>3, <2>1 DEF AnsweredTo
<1>5. p \in 1 .. Len(s) /\ p \in Newlines(s) /\ Pos(c)' = p
  <2>1. p \in 1 .. Len(s)
    BY <1>2, <1>3, <1>4
  <2>2. p \in Newlines(s)
    BY <1>4, <2>1 DEF Newlines
  <2>3. Pos(c)' = Pos(c)
    BY <1>1 DEF Pos
  <2> QED BY <1>3, <2>1, <2>2, <2>3
<1>6. Cardinality(UpTo(s, p)) = n + 1 /\ Chars(s, p + 1) = {}
  BY <1>4, <1>5, OneByte
<1>7. /\ Len(told'[c]) = n + 1 /\ told'[c][n + 1] = line
      /\ \A k \in 1 .. n : told'[c][k] = told[c][k]
  BY <1>1, <1>2, <1>3
<1>8. Progress(c)'
  <2>1. /\ Len(told'[c]) = Cardinality(UpTo(said'[c], p))
        /\ line' = LineOf(Cardinality(Chars(said'[c], p + 1)))
    <3>1. LineOf(0) = <<>>
      BY OneMoreChar
    <3> QED BY <1>1, <1>3, <1>6, <1>7, <3>1, FS_EmptySet
  <2>2. AnsweredTo(c, p)'
    BY <2>1 DEF AnsweredTo
  <2>3. Unread(c)'
    <3>1. Unread(c) /\ Pos(c)' = Pos(c)
      BY <1>1, <1>3, <1>5 DEF Progress
    <3> QED BY <1>1, <3>1 DEF Unread
  <2> QED BY <1>1, <1>5, <2>2, <2>3 DEF Progress
<1>9. ASSUME RightFor(s, told[c]) PROVE RightFor(s, told'[c])
  <2>1. n + 1 <= Cardinality(Newlines(s))
    BY <1>5, <1>6, Counts
  <2>2. ASSUME NEW i \in Newlines(s), Cardinality(UpTo(s, i)) <= n + 1
        PROVE  told'[c][Cardinality(UpTo(s, i))] = LineOf(Cardinality(Chars(s, i)))
    <3>1. i \in 1 .. Len(s) /\ i \in Int
      BY Counts DEF Newlines
    <3>2. /\ IsFiniteSet(UpTo(s, i)) /\ Cardinality(UpTo(s, i)) \in Nat
          /\ p - 1 \in Int
      BY <3>1, Counts
    <3>3. CASE i = p
      BY <1>4, <1>6, <1>7, <3>3
    <3>4. CASE i < p
      <4>1. i <= p - 1
        BY <3>1, <3>4
      <4>2. Cardinality(UpTo(s, i)) <= n
        BY <1>4, <3>2, <4>1, Numbered
      <4>3. i \in UpTo(s, i)
        BY <3>1 DEF UpTo
      <4>4. Cardinality(UpTo(s, i)) # 0
        BY <3>2, <4>3, FS_EmptySet
      <4>5. Cardinality(UpTo(s, i)) \in 1 .. n
        BY <3>2, <4>2, <4>4
      <4> QED BY <1>3, <1>7, <1>9, <4>2, <4>5 DEF RightFor
    <3>5. CASE p < i
      <4>1. n + 1 < Cardinality(UpTo(s, i))
        BY <1>6, <3>5, Numbered
      <4> QED BY <2>2, <3>2, <4>1
    <3> QED BY <3>1, <3>3, <3>4, <3>5
  <2> QED BY <1>7, <2>1, <2>2 DEF RightFor
<1> QED
  BY <1>3, <1>8, <1>9

\* No step loses track of the client that the thread is busy with.
LEMMA BusyStep ==
    ASSUME SocketTypes, ClientHeld, Ended, AnswerTypes, Waiting, Busy, Buffered,
           [Next]_vars
    PROVE  Busy'
<1> SUFFICES ASSUME NEW c \in Clients, Taken(c)' PROVE Progress(c)'
  BY DEF Busy
<1>1. CASE Idle
  <2>1. Taken(c)
    BY <1>1, IdleMoves DEF Taken
  <2> QED BY <1>1, <2>1, IdleMoves, SameProgress DEF Busy
<1>2. CASE Forgets
  <2>1. Taken(c)
    BY <1>2, ForgetsMoves DEF Taken
  <2>2. t_pc' # "test"
    BY <1>2, <2>1, ForgetsMoves, OneTaken
  <2>3. CASE t_pc' = "recv"
    <3>1. t_pc = "banner" /\ buf = <<>>
      BY <1>2, <2>3, ForgetsMoves DEF Buffered
    <3> QED BY <1>2, <2>1, <2>3, <3>1, ForgetsMoves, BannerProgress
            DEF Busy, Progress
  <2>4. CASE t_pc' # "recv"
    BY <1>2, <2>2, <2>4, ForgetsMoves DEF Progress
  <2> QED BY <2>3, <2>4
<1>3. CASE Makes
  BY <1>3, MakesMoves, OneTaken
<1>4. CASE Closes
  <2>1. Taken(c) /\ Progress(c)
    BY <1>4, ClosesMoves DEF Busy
  <2> QED BY <1>4, <2>1, ClosesMoves, SameProgress
<1>5. CASE AcceptFails
  BY <1>5, OneTaken DEF AcceptFails, Taken
<1>6. CASE TakeByte
  <2>1. Taken(c) /\ Progress(c)
    BY <1>6 DEF TakeByte, Taken, Busy
  <2> QED BY <1>6, <2>1, TakeProgress
<1>7. ASSUME NEW d \in Clients, Accept(d) PROVE Progress(c)'
  <2>1. ~Taken(c)
    BY <1>7, OneTaken DEF Accept
  <2>2. c = d
    BY <1>7, <2>1 DEF Accept, Allot, Taken, SocketTypes
  <2>3. Untouched(c)'
    BY <1>7, <2>2 DEF Accept, Waiting, Untouched
  <2> QED BY <1>7, <2>3 DEF Accept, Progress
<1>8. ASSUME NEW d \in Clients, Recv(d) PROVE Progress(c)'
  <2>1. Taken(c) /\ Progress(c) /\ c = d
    BY <1>8, OneTaken DEF Recv, Taken, Busy
  <2> QED BY <1>8, <2>1, RecvProgress
<1>9. ASSUME NEW d \in Clients, Reply(d) PROVE Progress(c)'
  <2>1. Taken(c) /\ Progress(c) /\ c = d
    BY <1>9, OneTaken DEF Reply, Taken, Busy
  <2> QED BY <1>9, <2>1, ReplyProgress
<1>10. ASSUME NEW d \in Clients, NEW b \in Byte, Send(d, b) PROVE Progress(c)'
  <2>1. Taken(c) /\ Progress(c)
    BY <1>10 DEF Send, Taken, Busy
  <2>2. CASE c = d
    BY <1>10, <2>1, <2>2, SendProgress
  <2>3. CASE c # d
    <3>1. /\ said'[c] = said[c] /\ stream'[c] = stream[c]
          /\ UNCHANGED <<told, t_pc, buf, line>>
      BY <1>10, <2>3 DEF Send, thread, AnswerTypes
    <3> QED BY <2>1, <3>1, SameProgress
  <2> QED BY <2>2, <2>3
<1>11. ASSUME NEW d \in Clients,
              Connect(d) \/ \E how \in {"closed", "reset"} : Leave(d, how)
       PROVE  Progress(c)'
  <2>1. UNCHANGED <<open, said, stream, told, t_pc, buf, line>>
    BY <1>11 DEF Connect, Leave, thread
  <2>2. Taken(c) /\ Progress(c)
    BY <2>1 DEF Taken, Busy
  <2> QED BY <2>1, <2>2, SameProgress
<1> QED
  BY <1>1, <1>2, <1>3, <1>4, <1>5, <1>6, <1>7, <1>8, <1>9, <1>10, <1>11, ByteSteps

\* No step makes an answer wrong, of a client that is there or has left.
LEMMA RightStep ==
    ASSUME SocketTypes, ClientHeld, Ended, AnswerTypes, Busy, AnswersRight,
           [Next]_vars
    PROVE  AnswersRight'
<1> USE DEF AnswersRight
<1>1. CASE Idle \/ Forgets \/ Makes \/ Closes
  BY <1>1, IdleMoves, ForgetsMoves, MakesMoves, ClosesMoves
<1>2. CASE AcceptFails \/ TakeByte
  BY <1>2 DEF AcceptFails, TakeByte, net
<1>3. ASSUME NEW c \in Clients,
             \/ Accept(c) \/ Recv(c) \/ Connect(c)
             \/ \E how \in {"closed", "reset"} : Leave(c, how)
      PROVE  AnswersRight'
  BY <1>3 DEF Accept, Recv, Connect, Leave
<1>4. ASSUME NEW c \in Clients, Reply(c) PROVE AnswersRight'
  <2>1. Taken(c) /\ Progress(c)
    BY <1>4, OneTaken DEF Reply, Busy
  <2>2. RightFor(said[c], told'[c])
    BY <1>4, <2>1, ReplyProgress
  <2>3. said' = said /\ \A d \in Clients \ {c} : told'[d] = told[d]
    BY <1>4 DEF Reply, net, AnswerTypes
  <2> QED BY <2>2, <2>3
<1>5. ASSUME NEW c \in Clients, NEW b \in Byte, Send(c, b) PROVE AnswersRight'
  <2>1. said[c] \in Seq(Byte) /\ Len(said[c]) \in Nat /\ Len(told[c]) \in Nat
    BY Lengths
  <2>2. PICK s \in Seq(Byte), n \in Int : s = said[c] /\ n = Len(s) + 1
    BY <2>1
  <2>3. /\ told' = told /\ said'[c] = Append(s, b)
        /\ \A d \in Clients \ {c} : said'[d] = said[d]
    BY <1>5, <2>2 DEF Send, AnswerTypes
  <2>4. /\ IsFiniteSet(Newlines(s)) /\ Cardinality(Newlines(s)) \in Nat
        /\ n \notin Newlines(s)
        /\ \A i \in Newlines(s) : i \in Int /\ i <= Len(s) /\ i <= Len(s) + 1 /\ i <= n
    <3>1. /\ IsFiniteSet(Newlines(s)) /\ Cardinality(Newlines(s)) \in Nat
          /\ Newlines(s) \in SUBSET (1 .. Len(s))
      BY <2>2, Counts
    <3> QED BY <2>1, <2>2, <3>1
  <2>5. \A i \in Newlines(s) : /\ UpTo(Append(s, b), i) = UpTo(s, i)
                               /\ Chars(Append(s, b), i) = Chars(s, i)
    BY <2>3, <2>4, OneMoreByte
  <2>6. RightFor(Append(s, b), told[c])
    <3>1. Newlines(Append(s, b)) = IF b = "newline" THEN Newlines(s) \cup {Len(s) + 1}
                                                    ELSE Newlines(s)
      BY OneMoreByte
    <3>2. RightFor(s, told[c])
      BY <2>2
    <3>3. CASE b # "newline"
      <4>1. Newlines(Append(s, b)) = Newlines(s)
        BY <3>1, <3>3
      <4> QED BY <2>5, <3>2, <4>1 DEF RightFor
    <3>4. CASE b = "newline"
      <4>1. Newlines(Append(s, b)) = Newlines(s) \cup {n}
        BY <2>2, <3>1, <3>4
      <4>2. Cardinality(Newlines(s) \cup {n}) = Cardinality(Newlines(s)) + 1
        BY <2>4, FS_AddElement
      <4>3. UpTo(Append(s, b), n) = Newlines(s) \cup {n}
        BY <2>2, <2>4, <4>1 DEF UpTo
      <4>4. Len(told[c]) < Cardinality(UpTo(Append(s, b), n))
        BY <2>1, <2>4, <3>2, <4>2, <4>3 DEF RightFor
      <4>5. Len(told[c]) <= Cardinality(Newlines(Append(s, b)))
        BY <2>1, <2>4, <3>2, <4>1, <4>2 DEF RightFor
      <4>6. ASSUME NEW i \in Newlines(Append(s, b)),
                   Cardinality(UpTo(Append(s, b), i)) <= Len(told[c])
            PROVE  i \in Newlines(s)
        <5>1. i # n
          <6>1. Cardinality(UpTo(Append(s, b), n)) \in Nat
            BY <2>4, <4>2, <4>3
          <6> QED BY <2>1, <4>4, <4>6, <6>1
        <5> QED BY <4>1, <5>1
      <4> QED BY <2>5, <3>2, <4>5, <4>6 DEF RightFor
    <3> QED BY <3>3, <3>4
  <2> QED BY <2>3, <2>6, <2>2
<1> QED
  BY <1>1, <1>2, <1>3, <1>4, <1>5, ByteSteps

\* Where the bytes are, whatever the split into buffers and however often the
\* clients change.
THEOREM AnswersCorrect == Spec => []AnswerInv
<1>1. Init => AnswerInv
  <2> SUFFICES ASSUME Init PROVE AnswerInv
    OBVIOUS
  <2>1. /\ \A c \in Clients : said[c] = <<>> /\ told[c] = <<>> /\ stream[c] = <<>>
        /\ \A c \in Clients : ~Taken(c)
    BY Kinds DEF Init, Taken
  <2>2. RightFor(<<>>, <<>>)
    <3>1. Newlines(<<>>) = {}
      BY DEF Newlines
    <3> QED BY <3>1, FS_EmptySet DEF RightFor
  <2>3. AnswerTypes
    BY DEF Init, AnswerTypes
  <2> QED BY <2>1, <2>2, <2>3 DEF Init, AnswerInv, Waiting, Untouched, Busy,
             Buffered, AnswersRight
<1>2. SocketInv /\ AnswerInv /\ [Next]_vars => AnswerInv'
  BY AnswerTypesStep, WaitingStep, BusyStep, BufferedStep, RightStep
     DEF SocketInv, AnswerInv
<1> QED
  BY <1>1, <1>2, SocketsCorrect, PTL DEF Spec

\* Each client gets the answers to the lines it has sent, in their order, and
\* all of them before the thread waits for more.
THEOREM EveryLineAnswered == Spec => []ClientsAnswered
<1>1. SocketInv /\ AnswerInv => ClientsAnswered
  <2> SUFFICES ASSUME SocketInv, AnswerInv, NEW c \in Clients
               PROVE  /\ RightFor(said[c], told[c])
                      /\ t_pc = "recv" /\ Usable(c) /\ stream[c] = <<>> =>
                            Len(told[c]) = Cardinality(Newlines(said[c]))
    BY DEF ClientsAnswered, RightFor
  <2>1. RightFor(said[c], told[c])
    BY DEF AnswerInv, AnswersRight
  <2>2. ASSUME t_pc = "recv", Usable(c), stream[c] = <<>>
        PROVE  Len(told[c]) = Cardinality(Newlines(said[c]))
    <3>1. AnsweredTo(c, Pos(c)) /\ buf = <<>> /\ said[c] \in Seq(Byte)
      BY <2>2, OneTaken
         DEF SocketInv, AnswerInv, AnswerTypes, Busy, Progress, Buffered
    <3>2. Pos(c) = Len(said[c])
      BY <2>2, <3>1 DEF Pos
    <3>3. UpTo(said[c], Len(said[c])) = Newlines(said[c])
      BY <3>1, Counts DEF UpTo, Newlines
    <3> QED BY <3>1, <3>2, <3>3 DEF AnsweredTo
  <2> QED BY <2>1, <2>2
<1> QED
  BY <1>1, SocketsCorrect, AnswersCorrect, PTL
===============================================================================
