----------------------------- MODULE Reconnect -----------------------------
(***************************************************************************)
(* How one client follows the second port of the server: the thread that   *)
(* executes its commands, the handlers of its task connections             *)
(* (src/client.c), and on the server port_update_loop, the accept loop,    *)
(* the handlers of new connections and the session handler                 *)
(* (src/server.c).                                                         *)
(*                                                                         *)
(* Connections are numbered as they are made: the main connection is 1 and *)
(* the task connections are 2 .. 1 + K at first.  Ports are numbered as    *)
(* the server moves to them, and it listens on the last.  Both ends read   *)
(* their fields of struct client_sock_conn at every step, without a lock   *)
(* that the other threads of the process take.                             *)
(*                                                                         *)
(* send() is followed by an assertion that it sent everything: a process   *)
(* that sends on a connection that failed, was reset or is closed aborts.  *)
(* The model stops there.                                                  *)
(*                                                                         *)
(* A port arrives as it was sent: with the raw codec that is so for every  *)
(* second connection that is told of it (ResentAlternate in Transport).    *)
(***************************************************************************)
EXTENDS Integers, Sequences

CONSTANTS
    K,          \* task connections of the client
    MaxPort,    \* bound: port updates
    MaxCmds     \* bound: commands

ASSUME ReconnectAssumption ==
    /\ K \in Nat \ {0}
    /\ MaxPort \in Nat
    /\ MaxCmds \in Nat

Tasks == 1..K

(* The owner of the main connections. *)
Main == 0

Owners == 0..K

VARIABLES
    conn,     \* the TCP connections
    sport,    \* second_port, on which the server listens
    notify,   \* task connections notify_client_after_updating has yet to tell
    ssock,    \* main_conn.sock of the session
    tsock,    \* sock of its task connections
    session,  \* the session handler: "recv", "handle", "ended", "aborted"
    req,      \* the request it handles
    port,     \* the client: port of its connections
    last,     \* last_port
    sock,     \* sock
    need,     \* need_reconnect
    mpc,      \* the thread that executes commands
    old,      \* old_sock of its do_reconnect
    cmd,      \* commands issued
    tpc,      \* the task handlers
    gaveup,   \* history: a command returned without the answer that was due
    quick     \* the schedule: see Settled

client == << port, last, sock, need, mpc, old, cmd, tpc, gaveup >>

server == << sport, notify, ssock, tsock, session, req >>

vars == << conn, server, client, quick >>

(* state: waiting to be accepted, accepted, handed over to the session, an *)
(* orphan nobody reads, or reset; at: the port; open: by the client;       *)
(* nonblock: O_NONBLOCK at the client; c2s: commands under way; s2c:       *)
(* answers, or port updates, under way.                                    *)
NewConn(o, st, p) ==
    [owner |-> o, state |-> st, at |-> p, open |-> TRUE, nonblock |-> FALSE,
     c2s |-> << >>, s2c |-> << >>]

Init ==
    /\ conn = [i \in 1..(K + 1) |-> NewConn(i - 1, "session", 0)]
    /\ sport = 0 /\ notify = {}
    /\ ssock = 1 /\ tsock = [k \in Tasks |-> k + 1]
    /\ session = "recv" /\ req = 0
    /\ port = [o \in Owners |-> 0]
    \* add_task_connect leaves last_port 0, the number of no port
    /\ last = [o \in Owners |-> IF o = Main THEN 0 ELSE -1]
    /\ sock = [o \in Owners |-> o + 1]
    /\ need = FALSE
    /\ mpc = "prompt" /\ old = 1 /\ cmd = 0
    /\ tpc = [k \in Tasks |-> "recv"]
    /\ gaveup = FALSE
    /\ quick \in BOOLEAN

Up == session # "aborted" /\ mpc # "aborted"

UnderWay(i) == conn[i].state \in {"backlog", "accepted"}

Reconnecting == mpc \in {"check", "connect", "close", "clear"}

(* Every port update has reached the handlers it was sent to.              *)
Told == notify = {} /\ \A k \in Tasks : conn[sock[k]].s2c = << >>

(* Nobody reconnects and every port update was handled.  The server leaves *)
(* PORT_UPDATE_INTERVAL seconds between two updates, and the client leaves *)
(* it a second to take over a new connection.  In a quick schedule that is *)
(* enough: an update finds everything settled, the main connection moves   *)
(* when the client was told where to, and its old socket is closed after   *)
(* the new one took over.                                                  *)
Settled ==
    /\ Told /\ ~ Reconnecting
    /\ \A k \in Tasks : tpc[k] = "recv"
    /\ \A i \in DOMAIN conn : ~ UnderWay(i)

-----------------------------------------------------------------------------
(* The server. *)

(* U closes the listening socket: connections nobody accepted are reset.   *)
port_update ==
    /\ sport < MaxPort /\ notify = {}
    /\ quick => Settled
    /\ sport' = sport + 1
    /\ conn' = [i \in DOMAIN conn |->
                  IF conn[i].state = "backlog" THEN [conn[i] EXCEPT !.state = "reset"]
                                               ELSE conn[i]]
    /\ notify' = IF session = "ended" THEN {} ELSE Tasks
    /\ UNCHANGED << ssock, tsock, session, req, client, quick >>

(* A send() on socket i, which the client may have closed: the kernel      *)
(* takes what is sent before the client's reset arrives, and fails after.  *)
ServerSends(i, m) ==
    \/ /\ conn' = [conn EXCEPT ![i].s2c = Append(@, m)]
       /\ session' = IF session = "handle" /\ i = ssock THEN "recv" ELSE session
    \/ /\ ~ conn[i].open
       /\ session' = "aborted"
       /\ UNCHANGED conn

notify_client_after_updating(k) ==
    /\ k \in notify
    /\ notify' = notify \ {k}
    /\ ServerSends(tsock[k], sport)
    /\ UNCHANGED << sport, ssock, tsock, req, client, quick >>

second_channel_accept(i) ==
    /\ conn[i].state = "backlog"
    /\ conn' = [conn EXCEPT ![i].state = "accepted"]
    /\ UNCHANGED << server, client, quick >>

(* The handler of the new connection reads the RECONNECT_REQ, which is the *)
(* first packet on it, and ends without closing the socket; a session that *)
(* is no longer there is not found.                                        *)
handle_reconnect_req(i) ==
    /\ conn[i].state = "accepted"
    /\ conn' = [conn EXCEPT ![i].state = IF session = "ended" THEN "orphan" ELSE "session"]
    /\ ssock' = IF session # "ended" /\ conn[i].owner = Main THEN i ELSE ssock
    /\ tsock' = IF session # "ended" /\ conn[i].owner # Main
                THEN [tsock EXCEPT ![conn[i].owner] = i] ELSE tsock
    /\ UNCHANGED << sport, notify, session, req, client, quick >>

(* Mutant: the request stays in the stream. *)
session_recvMut ==
    /\ session = "recv"
    /\ conn[ssock].c2s # << >>
    /\ Len(conn[ssock].s2c) < 2
    /\ req' = Head(conn[ssock].c2s)
    /\ session' = "handle"
    /\ UNCHANGED << conn, sport, notify, ssock, tsock, client, quick >>

(* handle_client_session polls the socket the session has by now.          *)
session_recv ==
    /\ session = "recv"
    /\ conn[ssock].c2s # << >>
    /\ req' = Head(conn[ssock].c2s)
    /\ conn' = [conn EXCEPT ![ssock].c2s = Tail(@)]
    /\ session' = "handle"
    /\ UNCHANGED << sport, notify, ssock, tsock, client, quick >>

(* Mutant: a handler that returns without an answer. *)
session_replyMut ==
    /\ session = "handle"
    /\ session' = "recv"
    /\ UNCHANGED << conn, sport, notify, ssock, tsock, req, client, quick >>

(* The answer goes to the socket the session has when it is sent.          *)
session_reply ==
    /\ session = "handle"
    /\ ServerSends(ssock, req)
    /\ UNCHANGED << sport, notify, ssock, tsock, req, client, quick >>

(* recv() returns 0.                                                       *)
session_end ==
    /\ session = "recv"
    /\ conn[ssock].c2s = << >> /\ ~ conn[ssock].open
    /\ session' = "ended"
    /\ UNCHANGED << conn, sport, notify, ssock, tsock, req, client, quick >>

-----------------------------------------------------------------------------
(* The client. *)

(* make_connect of do_reconnect, for o; then the RECONNECT_REQ is sent.    *)
CanConnect(o) == port[o] = sport

make_connect(o, conns) ==
    /\ conn' = Append(conns, NewConn(o, "backlog", port[o]))
    /\ sock' = [sock EXCEPT ![o] = Len(conns) + 1]

(* The task handlers. *)

(* Mutant: the main connection is left alone. *)
handle_port_update_reqMut(k) ==
    /\ tpc[k] = "recv" /\ conn[sock[k]].s2c # << >>
    /\ conn' = [conn EXCEPT ![sock[k]].s2c = Tail(@)]
    /\ port' = [port EXCEPT ![k] = Head(conn[sock[k]].s2c)]
    /\ tpc' = [tpc EXCEPT ![k] = "reconnect"]
    /\ UNCHANGED << server, last, sock, need, mpc, old, cmd, gaveup, quick >>

(* What it does under update_lock of the client, which only other task     *)
(* handlers take.                                                          *)
handle_port_update_req(k) ==
    /\ tpc[k] = "recv" /\ conn[sock[k]].s2c # << >>
    /\ LET p == Head(conn[sock[k]].s2c) IN
         /\ port' = [port EXCEPT ![k] = p, ![Main] = p]
         /\ need' = (need \/ last[Main] # p)
    /\ conn' = [conn EXCEPT ![sock[k]].s2c = Tail(@)]
    /\ tpc' = [tpc EXCEPT ![k] = "reconnect"]
    /\ UNCHANGED << server, last, sock, mpc, old, cmd, gaveup, quick >>

(* do_reconnect of the task connection: close, connect, send, last_port.   *)
(* What was under way on the old connection is lost with it.               *)
task_reconnect(k) ==
    /\ tpc[k] = "reconnect"
    /\ last[k] # port[k] => CanConnect(k)
    /\ IF last[k] = port[k]
       THEN UNCHANGED << conn, sock >>
       ELSE make_connect(k, [conn EXCEPT ![sock[k]].open = FALSE])
    /\ last' = [last EXCEPT ![k] = port[k]]
    /\ tpc' = [tpc EXCEPT ![k] = "nonblock"]
    /\ UNCHANGED << server, port, need, mpc, old, cmd, gaveup, quick >>

(* It is the socket of the main connection that stops blocking.            *)
task_set_nonblock(k) ==
    /\ tpc[k] = "nonblock"
    /\ conn' = [conn EXCEPT ![sock[Main]].nonblock = TRUE]
    /\ tpc' = [tpc EXCEPT ![k] = "recv"]
    /\ UNCHANGED << server, port, last, sock, need, mpc, old, cmd, gaveup, quick >>

(* recv() fails and the handler ends.                                      *)
task_end(k) ==
    /\ tpc[k] = "recv"
    /\ conn[sock[k]].state = "reset"
    /\ tpc' = [tpc EXCEPT ![k] = "ended"]
    /\ UNCHANGED << conn, server, port, last, sock, need, mpc, old, cmd, gaveup, quick >>

(* The thread that executes commands. *)

MainStep(from, to) == mpc = from /\ mpc' = to

execute_cmd ==
    /\ cmd < MaxCmds
    /\ cmd' = cmd + 1
    /\ MainStep("prompt", IF need THEN "check" ELSE "send")
    /\ UNCHANGED << conn, server, port, last, sock, need, old, tpc, gaveup, quick >>

(* do_reconnect: "Is needed ?"                                             *)
do_reconnect ==
    /\ quick => Told
    /\ MainStep("check", IF last[Main] = port[Main] THEN "clear" ELSE "connect")
    /\ old' = sock[Main]
    /\ UNCHANGED << conn, server, port, last, sock, need, cmd, tpc, gaveup, quick >>

(* Mutant: the old socket is closed first, as for a task connection. *)
main_connectMut ==
    /\ MainStep("connect", "close") /\ CanConnect(Main)
    /\ make_connect(Main, [conn EXCEPT ![old].open = FALSE])
    /\ UNCHANGED << server, port, last, need, old, cmd, tpc, gaveup, quick >>

main_connect ==
    /\ MainStep("connect", "close") /\ CanConnect(Main)
    /\ make_connect(Main, conn)
    /\ UNCHANGED << server, port, last, need, old, cmd, tpc, gaveup, quick >>

(* After a second the old socket is closed and last_port assigned.         *)
main_close ==
    /\ MainStep("close", "clear")
    /\ quick => ~ UnderWay(sock[Main])
    /\ conn' = [conn EXCEPT ![old].open = FALSE]
    /\ last' = [last EXCEPT ![Main] = port[Main]]
    /\ UNCHANGED << server, port, sock, need, old, cmd, tpc, gaveup, quick >>

clear_need_reconnect ==
    /\ MainStep("clear", "send")
    /\ need' = FALSE
    /\ UNCHANGED << conn, server, port, last, sock, old, cmd, tpc, gaveup, quick >>

Usable(i) == conn[i].state # "reset"

send_cmd ==
    /\ MainStep("send", "wait") /\ Usable(sock[Main])
    /\ conn' = [conn EXCEPT ![sock[Main]].c2s = Append(@, cmd)]
    /\ UNCHANGED << server, port, last, sock, need, old, cmd, tpc, gaveup, quick >>

(* recv() fails, and the command with it.                                  *)
cmd_fails ==
    /\ MainStep("wait", "prompt") /\ ~ Usable(sock[Main])
    /\ UNCHANGED << conn, server, port, last, sock, need, old, cmd, tpc, gaveup, quick >>

(* recv() on a socket that no longer blocks, before the answer came.       *)
cmd_gives_up ==
    /\ MainStep("wait", "prompt") /\ Usable(sock[Main])
    /\ conn[sock[Main]].nonblock /\ conn[sock[Main]].s2c = << >>
    /\ gaveup' = TRUE
    /\ UNCHANGED << conn, server, port, last, sock, need, old, cmd, tpc, quick >>

recv_answer ==
    /\ mpc = "wait" /\ Usable(sock[Main])
    /\ conn[sock[Main]].s2c # << >>
    /\ conn' = [conn EXCEPT ![sock[Main]].s2c = Tail(@)]
    /\ mpc' = IF Head(conn[sock[Main]].s2c) = cmd THEN "prompt" ELSE "mismatch"
    /\ UNCHANGED << server, port, last, sock, need, old, cmd, tpc, gaveup, quick >>

(* A send() of the client fails, in do_reconnect or in a command.          *)
client_aborts ==
    /\ \/ mpc = "connect" /\ ~ CanConnect(Main)
       \/ mpc = "send" /\ ~ Usable(sock[Main])
       \/ \E k \in Tasks :
            tpc[k] = "reconnect" /\ last[k] # port[k] /\ ~ CanConnect(k)
    /\ mpc' = "aborted"
    /\ UNCHANGED << conn, server, port, last, sock, need, old, cmd, tpc, gaveup, quick >>

-----------------------------------------------------------------------------
MainGoesOn ==
    \/ do_reconnect \/ main_connect \/ main_close \/ clear_need_reconnect
    \/ send_cmd \/ cmd_fails \/ cmd_gives_up \/ recv_answer \/ client_aborts

Task(k) ==
    handle_port_update_req(k) \/ task_reconnect(k) \/ task_set_nonblock(k) \/ task_end(k)

NewConnections ==
    \E i \in DOMAIN conn : second_channel_accept(i) \/ handle_reconnect_req(i)

Session == session_recv \/ session_reply \/ session_end

Next ==
    /\ Up
    /\ \/ port_update
       \/ \E k \in Tasks : notify_client_after_updating(k)
       \/ NewConnections \/ Session
       \/ execute_cmd \/ MainGoesOn
       \/ \E k \in Tasks : Task(k)

(* Every thread goes on; only the user and the timer of U need not.        *)
Spec ==
    /\ Init /\ [][Next]_vars
    /\ WF_vars(Up /\ NewConnections) /\ WF_vars(Up /\ Session) /\ WF_vars(Up /\ MainGoesOn)
    /\ \A k \in Tasks :
         WF_vars(Up /\ Task(k)) /\ WF_vars(Up /\ notify_client_after_updating(k))

-----------------------------------------------------------------------------
(* Types; the sockets of the session and of the client belong to the       *)
(* connection they are kept for (find_connect_by_id).                      *)
TypeOK ==
    /\ \A i \in DOMAIN conn :
         /\ conn[i].owner \in Owners /\ conn[i].at \in 0..MaxPort
         /\ conn[i].state \in {"backlog", "accepted", "session", "orphan", "reset"}
         /\ conn[i].open \in BOOLEAN /\ conn[i].nonblock \in BOOLEAN
         /\ conn[i].c2s \in Seq(1..MaxCmds)
         /\ conn[i].s2c \in Seq(IF conn[i].owner = Main THEN 1..MaxCmds ELSE 0..MaxPort)
    /\ sport \in 0..MaxPort /\ notify \subseteq Tasks
    /\ ssock \in DOMAIN conn /\ conn[ssock].owner = Main
    /\ tsock \in [Tasks -> DOMAIN conn] /\ \A k \in Tasks : conn[tsock[k]].owner = k
    /\ session \in {"recv", "handle", "ended", "aborted"} /\ req \in 0..MaxCmds
    /\ port \in [Owners -> 0..MaxPort] /\ last \in [Owners -> -1..MaxPort]
    /\ sock \in [Owners -> DOMAIN conn] /\ \A o \in Owners : conn[sock[o]].owner = o
    /\ need \in BOOLEAN /\ old \in DOMAIN conn /\ cmd \in 0..MaxCmds
    /\ mpc \in {"prompt", "check", "connect", "close", "clear", "send", "wait",
                "mismatch", "aborted"}
    /\ tpc \in [Tasks -> {"recv", "reconnect", "nonblock", "ended"}]
    /\ gaveup \in BOOLEAN /\ quick \in BOOLEAN

(* A command never reads the answer to another one, however connections    *)
(* and ports change under it, unless an earlier command was cut short      *)
(* because a task handler made the main socket non-blocking                *)
(* (handle_port_update_req, src/client.c).                                 *)
NoStrayAnswer == mpc = "mismatch" => gaveup

(* In a quick schedule moving the port neither ends the session nor aborts *)
(* a process: the order of do_reconnect - connect, wait, close - leaves    *)
(* the session handler no moment without a client.                         *)
SessionSurvives ==
    quick => session # "ended" /\ Up

(* In a quick schedule, when nobody reconnects, both ends of each of the   *)
(* 1 + K connections hold the same socket: handle_reconnect_req gave every *)
(* new connection to the entry whose client it came from.  And no port     *)
(* update is forgotten: the main connection is at the port the server      *)
(* listens on, or need_reconnect has the next command move it.             *)
PortFollowed ==
    quick /\ Settled =>
        /\ ssock = sock[Main]
        /\ \A k \in Tasks : tsock[k] = sock[k]
        /\ need \/ conn[sock[Main]].at = sport

(* In every schedule a command that waits for its answer returns, unless   *)
(* the session at the other end has gone (and then it may wait for ever,   *)
(* on a connection that handle_reconnect_req left to nobody).              *)
AnswerOrEnd ==
    mpc = "wait" ~> mpc # "wait" \/ session = "ended" \/ ~ Up
=============================================================================
