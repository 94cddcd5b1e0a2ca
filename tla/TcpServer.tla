------------------------------ MODULE TcpServer ------------------------------
(***************************************************************************)
(* The TCP tag server (services/tcp/tag_tcp_server.c) on the sockets of    *)
(* core/platform/platform_socket.c: its thread accepts one client after    *)
(* the other, cuts what it receives into lines and answers each of them,   *)
(* while the main thread may stop it at any moment.  Both threads close    *)
(* both sockets, without a lock: the test of a socket's valid flag, the    *)
(* closing of its handle and its invalidation are steps of their own.      *)
(*                                                                         *)
(* The platform is Windows, the only one the repository builds for: a      *)
(* blocked accept, recv or send returns an error when its socket is closed.*)
(* What a request does is PlcCycle's; here it takes a while and has an     *)
(* answer.  An answer is identified with the line it answers.              *)
(***************************************************************************)
EXTENDS Integers, Sequences, FiniteSets, SequencesExt

CONSTANTS
    Count,      \* how many connections are attempted
    MaxBytes,   \* how many bytes they send together
    LineSize,   \* TAG_TCP_MAX_LINE, with the terminating zero
    Backlog     \* of the listening socket: 1

ASSUME SizeAssumption ==
    Count \in Nat /\ MaxBytes \in Nat /\ LineSize \in Nat \ {0}

\* In the order in which they connect.
Clients == 1 .. Count
\* Of the bytes, the code tells apart '\n', '\r' and the rest.
Byte == {"newline", "return", "char"}
\* More than the handles in use at once; a closed one is used again.
Handle == 1 .. 4
Invalid == 0
\* What a handle can stand for, besides a client.
Closed == 0
Listener == -1
Unbound == -2
NoSocket == [handle |-> Invalid, valid |-> FALSE]

VARIABLES
    main_pc, stop_flag,         \* the main thread in start and stop
    server_sock, client_sock,   \* the two PlatSocket_t of TagTcpServer_t
    t_pc, last, buf, line,      \* the server thread: step, whether it leaves
                                \* its loop, rest of recv_buf, line_buf
    open,                       \* kernel: what each handle stands for
    backlog, peer, stream,      \* connections not accepted; whether a client
                                \* is up; bytes it sent that nobody received
    \* History: bytes a client sent, answers it got; the thread took a client
    \* after stop had closed the client socket.
    said, told, late

main == <<main_pc, stop_flag>>
socks == <<server_sock, client_sock>>
thread == <<t_pc, last, buf, line>>
net == <<backlog, peer, stream, said>>
vars == <<main, socks, thread, open, net, told, late>>

Init == /\ main_pc = "start" /\ stop_flag = FALSE
        /\ server_sock = NoSocket /\ client_sock = NoSocket
        /\ t_pc = "none" /\ last = FALSE /\ buf = <<>> /\ line = <<>>
        /\ open = [h \in Handle |-> Closed]
        /\ backlog = {} /\ peer = [c \in Clients |-> "none"]
        /\ stream = [c \in Clients |-> <<>>]
        /\ said = [c \in Clients |-> <<>>] /\ told = [c \in Clients |-> <<>>]
        /\ late = FALSE

\* The client behind the client socket, if its handle is one.
Connected(c) == client_sock.handle # Invalid /\ open[client_sock.handle] = c
Listening == \E h \in Handle : open[h] = Listener

\* The kernel gives out its lowest free handle.
Allot(object, h) ==
    /\ open[h] = Closed /\ \A g \in 1 .. h - 1 : open[g] # Closed
    /\ open' = [open EXCEPT ![h] = object]
-----------------------------------------------------------------------------
(* plat_socket_close, in three steps of either thread. *)

\* closesocket; connections that wait at a listening socket are reset.
CloseHandle(h) ==
    /\ open' = [g \in Handle |-> IF g = h THEN Closed ELSE open[g]]
    /\ IF h # Invalid /\ open[h] = Listener
       THEN /\ backlog' = {}
            /\ peer' = [c \in Clients |->
                            IF c \in backlog THEN "reset" ELSE peer[c]]
       ELSE UNCHANGED <<backlog, peer>>
    /\ UNCHANGED <<stream, said>>
-----------------------------------------------------------------------------
(* The clients. *)

Connect(c) ==
    /\ peer[c] = "none" /\ \A d \in 1 .. c - 1 : peer[d] # "none"
    /\ Listening /\ Cardinality(backlog) < Backlog
    /\ peer' = [peer EXCEPT ![c] = "up"] /\ backlog' = backlog \cup {c}
    /\ UNCHANGED <<main, socks, thread, open, stream, said, told, late>>

Send(c, b) ==
    /\ peer[c] = "up" /\ (c \in backlog \/ Connected(c))
    /\ FoldFunction(LAMBDA bytes, n : n + Len(bytes), 0, said) < MaxBytes
    /\ said' = [said EXCEPT ![c] = Append(@, b)]
    /\ stream' = [stream EXCEPT ![c] = Append(@, b)]
    /\ UNCHANGED <<main, socks, thread, open, backlog, peer, told, late>>

\* A client closes its connection, or the connection breaks.
Leave(c, how) ==
    /\ peer[c] = "up"
    /\ peer' = [peer EXCEPT ![c] = how]
    /\ UNCHANGED <<main, socks, thread, open, backlog, stream, said, told, late>>
-----------------------------------------------------------------------------
(* The server thread. *)

\* plat_socket_init and socket() fail: the thread ends.
ListenFails ==
    /\ t_pc = "listen"
    /\ t_pc' = "exited"
    /\ UNCHANGED <<main, socks, last, buf, line, open, net, told, late>>

\* setsockopt, bind or listen fails.  The handle is not yet marked valid, so
\* plat_socket_close leaves it open.
BindFails ==
    /\ t_pc = "listen"
    /\ \E h \in Handle : Allot(Unbound, h)
                         /\ server_sock' = [handle |-> h, valid |-> FALSE]
    /\ t_pc' = "exited"
    /\ UNCHANGED <<main, client_sock, last, buf, line, net, told, late>>

Listen ==
    /\ t_pc = "listen"
    /\ \E h \in Handle : Allot(Listener, h)
                         /\ server_sock' = [handle |-> h, valid |-> TRUE]
    /\ t_pc' = "test"
    /\ UNCHANGED <<main, client_sock, last, buf, line, net, told, late>>

TestStop ==
    /\ t_pc = "test"
    /\ IF stop_flag THEN t_pc' = "close_client" /\ last' = TRUE
                    ELSE t_pc' = "pick" /\ UNCHANGED last
    /\ UNCHANGED <<main, socks, buf, line, open, net, told, late>>

Pick ==
    /\ t_pc = "pick"
    /\ t_pc' = IF client_sock.valid THEN "recv" ELSE "accept"
    /\ UNCHANGED <<main, socks, last, buf, line, open, net, told, late>>

\* plat_socket_accept fails: the server socket is closed, or the connection
\* broke in the meantime.  The loop starts over.
AcceptFails ==
    /\ t_pc = "accept"
    /\ IF Listening
       THEN \E c \in backlog : peer[c] = "reset" /\ backlog' = backlog \ {c}
       ELSE UNCHANGED backlog
    /\ t_pc' = "test"
    /\ UNCHANGED <<main, socks, last, buf, line, open, peer, stream, said, told,
                   late>>

Accept(c) ==
    /\ t_pc = "accept" /\ Listening /\ c \in backlog
    /\ backlog' = backlog \ {c}
    /\ \E h \in Handle : Allot(c, h)
                         /\ client_sock' = [handle |-> h, valid |-> FALSE]
    /\ t_pc' = "accepted"
    /\ UNCHANGED <<main, server_sock, last, buf, line, peer, stream, said, told,
                   late>>

\* The accepted socket becomes valid: from now on stop can see it.
Accepted ==
    /\ t_pc = "accepted"
    /\ client_sock' = [client_sock EXCEPT !.valid = TRUE]
    /\ late' = (main_pc \notin {"running", "stop_client"})
    /\ t_pc' = "banner"
    /\ UNCHANGED <<main, server_sock, last, buf, line, open, net, told>>

Usable(c) == client_sock.valid /\ Connected(c)
\* A send or a receive fails when the socket was closed here, or when the
\* connection broke.
Broken == \A c \in Clients : Usable(c) => peer[c] = "reset"

SendBanner ==
    /\ t_pc = "banner" /\ \E c \in Clients : Usable(c) /\ peer[c] # "reset"
    /\ t_pc' = "recv" /\ line' = <<>>
    /\ UNCHANGED <<main, socks, last, buf, open, net, told, late>>

\* plat_socket_recv returns some of the bytes that have arrived.
Recv(c) ==
    /\ t_pc = "recv" /\ Usable(c) /\ peer[c] # "reset"
    /\ \E n \in 1 .. Len(stream[c]) :
          /\ buf' = SubSeq(stream[c], 1, n)
          /\ stream' = [stream EXCEPT ![c] = SubSeq(@, n + 1, Len(@))]
    /\ t_pc' = "bytes"
    /\ UNCHANGED <<main, socks, last, line, open, backlog, peer, said, told, late>>

RecvEnds ==
    /\ t_pc = "recv"
    /\ \A c \in Clients :
          Usable(c) => peer[c] = "reset" \/ (peer[c] = "closed" /\ stream[c] = <<>>)
    /\ t_pc' = "close_client"
    /\ UNCHANGED <<main, socks, last, buf, line, open, net, told, late>>

Fits_OffByOne(l) == Len(l) < LineSize
Fits(l) == Len(l) + 1 < LineSize

TakeByte ==
    /\ t_pc = "bytes" /\ buf # <<>>
    /\ buf' = Tail(buf)
    /\ line' = IF Head(buf) = "char" /\ Fits(line) THEN Append(line, "char")
                                                   ELSE line
    /\ t_pc' = IF Head(buf) = "newline" THEN "request" ELSE "bytes"
    /\ UNCHANGED <<main, socks, last, open, net, told, late>>

BufferDone ==
    /\ t_pc = "bytes" /\ buf = <<>>
    /\ t_pc' = "test"
    /\ UNCHANGED <<main, socks, last, buf, line, open, net, told, late>>

\* handle_request returns: with an answer, or because stop_flag is set.
Handled ==
    /\ t_pc = "request"
    /\ t_pc' = "reply"
    /\ UNCHANGED <<main, socks, last, buf, line, open, net, told, late>>

\* The client takes the answer.
Reply(c) ==
    /\ t_pc = "reply" /\ Usable(c) /\ peer[c] # "reset"
    /\ told' = [told EXCEPT ![c] = Append(@, line)]
    /\ line' = <<>> /\ t_pc' = "bytes"
    /\ UNCHANGED <<main, socks, last, buf, open, net, late>>

\* The rest of the buffer is dropped with the connection.
SendFails ==
    /\ t_pc \in {"banner", "reply"} /\ Broken
    /\ buf' = <<>> /\ t_pc' = "close_client"
    /\ UNCHANGED <<main, socks, last, line, open, net, told, late>>

\* close_client, and after the loop the server socket.
CloseTest(pc, sock, closing, next) ==
    /\ t_pc = pc
    /\ t_pc' = IF sock.valid THEN closing ELSE next
    /\ UNCHANGED <<main, socks, last, buf, open, net, told, late>>

AfterClient_Exits == IF last THEN "exited" ELSE "test"
AfterClient == IF last THEN "close_server" ELSE "test"

CloseClientTest ==
    /\ CloseTest("close_client", client_sock, "close_client_handle", AfterClient)
    /\ line' = IF client_sock.valid THEN line ELSE <<>>

CloseClient ==
    /\ t_pc = "close_client_handle"
    /\ CloseHandle(client_sock.handle)
    /\ t_pc' = "close_client_done"
    /\ UNCHANGED <<main, socks, last, buf, line, told, late>>

CloseClientDone ==
    /\ t_pc = "close_client_done"
    /\ client_sock' = NoSocket
    /\ line' = <<>> /\ t_pc' = AfterClient
    /\ UNCHANGED <<main, server_sock, last, buf, open, net, told, late>>

CloseServerTest ==
    /\ CloseTest("close_server", server_sock, "close_server_handle", "exited")
    /\ UNCHANGED line

CloseServer ==
    /\ t_pc = "close_server_handle"
    /\ CloseHandle(server_sock.handle)
    /\ server_sock' = NoSocket
    /\ t_pc' = "exited"
    /\ UNCHANGED <<main, client_sock, last, buf, line, told, late>>
-----------------------------------------------------------------------------
(* The main thread: tag_tcp_server_start and tag_tcp_server_stop. *)

\* plat_thread_create succeeds, or main gives up without a server.
Start(ok) ==
    /\ main_pc = "start"
    /\ IF ok THEN main_pc' = "running" /\ t_pc' = "listen"
             ELSE main_pc' = "done" /\ UNCHANGED t_pc
    /\ UNCHANGED <<stop_flag, socks, last, buf, line, open, net, told, late>>

Stop ==
    /\ main_pc = "running"
    /\ stop_flag' = TRUE
    /\ main_pc' = "stop_client"
    /\ UNCHANGED <<socks, thread, open, net, told, late>>

SeesClient_Skipped == FALSE
SeesClient == client_sock.valid

StopClient ==
    /\ main_pc = "stop_client"
    /\ main_pc' = IF SeesClient THEN "close_client" ELSE "stop_server"
    /\ UNCHANGED <<stop_flag, socks, thread, open, net, told, late>>

StopCloseClient ==
    /\ main_pc = "close_client"
    /\ CloseHandle(client_sock.handle)
    /\ main_pc' = "client_closed"
    /\ UNCHANGED <<stop_flag, socks, thread, told, late>>

StopClientDone ==
    /\ main_pc = "client_closed"
    /\ client_sock' = NoSocket
    /\ main_pc' = "stop_server"
    /\ UNCHANGED <<stop_flag, server_sock, thread, open, net, told, late>>

StopServer ==
    /\ main_pc = "stop_server"
    /\ main_pc' = IF server_sock.valid THEN "close_server" ELSE "join"
    /\ UNCHANGED <<stop_flag, socks, thread, open, net, told, late>>

StopCloseServer ==
    /\ main_pc = "close_server"
    /\ CloseHandle(server_sock.handle)
    /\ main_pc' = "server_closed"
    /\ UNCHANGED <<stop_flag, socks, thread, told, late>>

StopServerDone ==
    /\ main_pc = "server_closed"
    /\ server_sock' = NoSocket
    /\ main_pc' = "join"
    /\ UNCHANGED <<stop_flag, client_sock, thread, open, net, told, late>>

Join == /\ main_pc = "join" /\ t_pc = "exited"
        /\ main_pc' = "done"
        /\ UNCHANGED <<stop_flag, socks, thread, open, net, told, late>>
-----------------------------------------------------------------------------
Client(c) == \/ Connect(c) \/ \E b \in Byte : Send(c, b)
             \/ \E how \in {"closed", "reset"} : Leave(c, how)

\* What the thread does without waiting for a client to take a message.
Thread == \/ ListenFails \/ BindFails \/ Listen \/ TestStop \/ Pick
          \/ AcceptFails \/ (\E c \in Clients : Accept(c)) \/ Accepted
          \/ (\E c \in Clients : Recv(c)) \/ RecvEnds
          \/ TakeByte \/ BufferDone \/ Handled \/ SendFails
          \/ CloseClientTest \/ CloseClient \/ CloseClientDone
          \/ CloseServerTest \/ CloseServer

Stopping == \/ StopClient \/ StopCloseClient \/ StopClientDone
            \/ StopServer \/ StopCloseServer \/ StopServerDone \/ Join

Next == \/ \E c \in Clients : Client(c)
        \/ Thread \/ SendBanner \/ \E c \in Clients : Reply(c)
        \/ \E ok \in BOOLEAN : Start(ok)
        \/ Stop \/ Stopping

\* Threads run; handle_request returns (PlcCycle's EveryRequestAnswered).
\* Nothing obliges a client to send, to read or to leave.
Spec == Init /\ [][Next]_vars /\ WF_vars(Thread) /\ WF_vars(Stopping)
-----------------------------------------------------------------------------
\* The lines in a sequence of bytes: what stands before each newline, without
\* returns, as much of it as fits.  Of a line's bytes only their number matters.
Newlines(s) == {i \in DOMAIN s : s[i] = "newline"}
UpTo(s, i) == {j \in Newlines(s) : j <= i}
Chars(s, i) == {k \in 1 .. i - 1 :
                    s[k] = "char" /\ \A j \in k .. i - 1 : s[j] # "newline"}
LineOf(n) == [k \in 1 .. (IF n < LineSize THEN n ELSE LineSize - 1) |-> "char"]

\* A client gets the answers to its own lines, whole, once and in their order,
\* however they are split into buffers and whatever clients before it left
\* unfinished; when the thread waits for more, all of them have been answered.
ClientsAnswered ==
    \A c \in Clients :
        LET nth(i) == Cardinality(UpTo(said[c], i))
        IN /\ Len(told[c]) <= Cardinality(Newlines(said[c]))
           /\ \A i \in Newlines(said[c]) :
                 nth(i) <= Len(told[c]) =>
                     told[c][nth(i)] = LineOf(Cardinality(Chars(said[c], i)))
           /\ t_pc = "recv" /\ Usable(c) /\ stream[c] = <<>> =>
                 Len(told[c]) = Cardinality(Newlines(said[c]))

\* Although two threads close the sockets, no handle gets lost: never is more
\* than one client's open, and none is when stop has returned (except that of a
\* listening socket that could not be bound).
NothingLeaks ==
    /\ Cardinality({h \in Handle : open[h] \in Clients}) <= 1
    /\ main_pc = "done" => \A h \in Handle : open[h] \in {Closed, Unbound}

\* Stop returns, even when the client is silent or takes no answer; unless the
\* thread took a client that stop did not see any more, and waits for it.
\* Then anything that client sends, and its leaving, is enough.
StopReturns ==
    /\ main_pc = "stop_client" ~>
           main_pc = "done" \/ (late /\ t_pc \in {"recv", "banner", "reply"})
    /\ \A c \in Clients :
           (stop_flag /\ t_pc = "recv" /\ Connected(c)
                      /\ (stream[c] # <<>> \/ peer[c] # "up")) ~>
               (main_pc = "done" \/ t_pc = "reply")
=============================================================================
