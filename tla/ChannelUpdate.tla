--------------------------- MODULE ChannelUpdate ---------------------------
(***************************************************************************)
(* How sfttd moves its second port while it serves (src/server.c): S2      *)
(* tells clients the second port, S3 accepts on its socket and starts a    *)
(* session handler S4 for each connection, S4 receives and handles         *)
(* requests, forwarding some of them over the task connection of another   *)
(* session, and U replaces port and socket.  All of them share             *)
(* server->update_lock.                                                    *)
(*                                                                         *)
(* A call of the lock is one step here, at its successful exchange or its  *)
(* refusal; RWLock.tla has its insides.  Every session has at most one     *)
(* task connection.  A packet is the nondeterministic choice of what the   *)
(* client sent.                                                            *)
(***************************************************************************)
EXTENDS Integers, FiniteSets

CONSTANTS Sessions, \* slots of server->sessions, and the handlers S4 that serve them
          Ports, MainPort, FirstPort,
          NoPort,   \* a closed socket
          NoOne     \* no session

ASSUME SessionsAssumption == IsFiniteSet(Sessions) /\ NoOne \notin Sessions
ASSUME PortsAssumption == /\ MainPort \in Ports /\ FirstPort \in Ports
                          /\ MainPort # FirstPort /\ NoPort \notin Ports

VARIABLES
  cnt,         \* server->update_lock.cnt
  second_port, \* server->second_port
  second_sock, \* the port server->second_sock listens on, or NoPort
  s2, s3, u,   \* where S2, S3 and U are
  newport,     \* U's local port
  s4,          \* s4[s]: where the handler of session s is; "none": s is not ACTIVE
  locked,      \* locked[s]: its last rwlock_read_trylock succeeded
  conn,        \* conn[s]: the task connection of session s
  peer,        \* peer[s]: the session whose task connection s4[s] is using
  \* history
  busy         \* some rwlock_read_trylock of an S4 has failed

vars == <<cnt, second_port, second_sock, s2, s3, u, newport, s4, locked, conn, peer, busy>>

handlers == <<s4, locked, conn, peer, busy>>
channel  == <<second_port, second_sock>>

NoConn  == [exists |-> FALSE, is_using |-> FALSE, is_updating |-> FALSE]
NewConn == [exists |-> TRUE,  is_using |-> FALSE, is_updating |-> FALSE]

Init ==
  /\ cnt = 0
  /\ second_port = FirstPort /\ second_sock = FirstPort
  /\ s2 = "accept" /\ s3 = "lock" /\ u = "sleep"
  /\ newport = FirstPort
  /\ s4 = [s \in Sessions |-> "none"]
  /\ locked = [s \in Sessions |-> FALSE]
  /\ conn = [s \in Sessions |-> NoConn]
  /\ peer = [s \in Sessions |-> NoOne]
  /\ busy = FALSE

-----------------------------------------------------------------------------
(* server->update_lock *)

read_lock  == cnt >= 0 /\ cnt' = cnt + 1
read_unlock == cnt' = cnt - 1
write_unlock == cnt' = 0

-----------------------------------------------------------------------------
(* S2: main_channel_loop *)

s2_accept == /\ s2 = "accept" /\ s2' = "lock"
             /\ UNCHANGED <<cnt, channel, s3, u, newport, handlers>>

\* Mutant: S2 does not take the lock.
respond_without_lock == /\ s2 = "lock" /\ s2' = "respond"
                        /\ UNCHANGED <<cnt, channel, s3, u, newport, handlers>>

s2_lock == /\ s2 = "lock" /\ read_lock
           /\ s2' = "respond"
           /\ UNCHANGED <<channel, s3, u, newport, handlers>>

\* respond_channel_info sends second_port, and the lock is released.
s2_respond == /\ s2 = "respond" /\ read_unlock
              /\ s2' = "accept"
              /\ UNCHANGED <<channel, s3, u, newport, handlers>>

-----------------------------------------------------------------------------
(* S3: second_channel_loop *)

s3_lock == /\ s3 = "lock" /\ read_lock
           /\ s3' = "accept"
           /\ UNCHANGED <<channel, s2, u, newport, handlers>>

\* accept finds no connection, or there is no free session, or no idle thread.
s3_nothing == /\ s3 = "accept" /\ s3' = "unlock"
              /\ UNCHANGED <<cnt, channel, s2, u, newport, handlers>>

\* get_new_session clears a slot that is not connected (the first such one; slots
\* are interchangeable).
get_new_session(s) == s4[s] = "none" /\ conn' = [conn EXCEPT ![s] = NoConn]

\* A connection on second_sock gets a session and a handler.
s3_accept(s) ==
  /\ s3 = "accept" /\ second_sock # NoPort
  /\ get_new_session(s)
  /\ s4' = [s4 EXCEPT ![s] = "trylock"]
  /\ s3' = "unlock"
  /\ UNCHANGED <<cnt, channel, s2, u, newport, locked, peer, busy>>

s3_unlock == /\ s3 = "unlock" /\ read_unlock
             /\ s3' = "lock"
             /\ UNCHANGED <<channel, s2, u, newport, handlers>>

-----------------------------------------------------------------------------
(* S4: handle_client_session *)

S4Goto(s, from, to) == s4[s] = from /\ s4' = [s4 EXCEPT ![s] = to]

\* rwlock_read_trylock; when it fails the handler sleeps and goes on anyway.
s4_trylock(s) ==
  /\ S4Goto(s, "trylock", "recv")
  /\ IF cnt >= 0 THEN /\ cnt' = cnt + 1
                      /\ locked' = [locked EXCEPT ![s] = TRUE]
                      /\ busy' = busy
                 ELSE /\ cnt' = cnt
                      /\ locked' = [locked EXCEPT ![s] = FALSE]
                      /\ busy' = TRUE
  /\ UNCHANGED <<channel, s2, s3, u, newport, conn, peer>>

\* recv_sftt_packet returns (nothing ever sets main_conn.is_updating), and the
\* lock is released whether it was taken or not. The packet decides what is next:
\* EAGAIN goes round, a disconnection or an error ends the session.
s4_recv(s, next) ==
  /\ next \in {"trylock", "handle", "exit"}
  /\ S4Goto(s, "recv", next)
  /\ read_unlock
  /\ locked' = [locked EXCEPT ![s] = FALSE]
  /\ UNCHANGED <<channel, s2, s3, u, newport, conn, peer, busy>>

\* A request the handler answers by itself; a failed login ends the session.
s4_request(s, next) ==
  /\ next \in {"trylock", "exit"}
  /\ S4Goto(s, "handle", next)
  /\ UNCHANGED <<cnt, channel, s2, s3, u, newport, locked, conn, peer, busy>>

\* APPEND_CONN_REQ for session t: the socket becomes a task connection of t, and
\* the handler of the short-lived session s ends. An unknown session is ignored.
s4_append_conn(s, t) ==
  /\ S4Goto(s, "handle", "exit")
  /\ conn' = IF s4[t] # "none" /\ ~conn[t].exists
               THEN [conn EXCEPT ![t] = NewConn]
               ELSE conn
  /\ UNCHANGED <<cnt, channel, s2, s3, u, newport, locked, peer, busy>>

\* RECONNECT_REQ for the task connection of t: it gets the new socket. For the
\* main connection of t, or an unknown one, nothing changes that is kept here.
s4_reconnect(s, t) ==
  /\ S4Goto(s, "handle", "exit")
  /\ \/ /\ s4[t] # "none" /\ conn[t].exists
        /\ conn' = [conn EXCEPT ![t].is_updating = FALSE]
     \/ conn' = conn
  /\ UNCHANGED <<cnt, channel, s2, s3, u, newport, locked, peer, busy>>

(* Requests for the client of another session. The handler takes a task        *)
(* connection of that session, exchanges packets over it and gives it back at  *)
(* its label done. A receive may never return: then the handler stays there.   *)

\* Mutant: is_using is not tested.
get_peer_unchecked(s, t, next) ==
  /\ next \in {"ll_send", "get_send", "put_send", "write_send"}
  /\ S4Goto(s, "handle", next)
  /\ s4[t] # "none" /\ conn[t].exists
  /\ conn' = [conn EXCEPT ![t].is_using = TRUE]
  /\ peer' = [peer EXCEPT ![s] = t]
  /\ UNCHANGED <<cnt, channel, s2, s3, u, newport, locked, busy>>

\* get_peer_task_conn_by_session takes an unused task connection of session t
\* under tcs_lock (is_updating is not looked at).
s4_get_peer(s, t, next) ==
  /\ next \in {"ll_send", "get_send", "put_send", "write_send"}
  /\ S4Goto(s, "handle", next)
  /\ s4[t] # "none" /\ conn[t].exists /\ ~conn[t].is_using
  /\ conn' = [conn EXCEPT ![t].is_using = TRUE]
  /\ peer' = [peer EXCEPT ![s] = t]
  /\ UNCHANGED <<cnt, channel, s2, s3, u, newport, locked, busy>>

\* The jumps of the four handlers, as pairs <<from, to>>. From "handle" they are
\* those of a request that is refused: the user is unknown, or his session has no
\* unused task connection (conn is NULL at done).
handle_fwd_ll_req ==
  { <<"handle", "ll_done">>,
    <<"ll_send", "ll_done">>,      \* the request cannot be sent
    <<"ll_send", "ll_recv">>,
    <<"ll_recv", "ll_done">> }     \* no answer, or the one with STOP was passed on

handle_fwd_get_req ==
  { <<"handle", "get_done">>,
    <<"get_send", "get_done">>,    \* the request cannot be sent
    <<"get_send", "get_recv">>,
    <<"get_recv", "get_done">>,    \* nothing received, or STOP and no reply wanted
    <<"get_recv", "get_reply">>,
    <<"get_reply", "get_done">>,   \* no reply, or it cannot be passed on, or STOP
    <<"get_reply", "get_recv">> }

\* Mutant: the return of handle_write_req where the peer does not answer.
put_returns_early ==
  { <<"handle", "put_done">>,
    <<"put_send", "put_done">>, <<"put_send", "put_resp">>, <<"put_send", "put_recv">>,
    <<"put_resp", "trylock">>,  <<"put_resp", "put_recv">>,
    <<"put_recv", "put_done">>, <<"put_recv", "put_send">> }

handle_fwd_put_req ==
  { <<"handle", "put_done">>,      \* refused, or no memory for the response
    <<"put_send", "put_done">>,    \* the packet cannot be sent, or STOP and no reply wanted
    <<"put_send", "put_resp">>,
    <<"put_send", "put_recv">>,    \* no reply wanted
    <<"put_resp", "put_done">>,    \* no response, or STOP
    <<"put_resp", "put_recv">>,
    <<"put_recv", "put_done">>,    \* no next packet, or STOP
    <<"put_recv", "put_send">> }

handle_write_req ==
  { <<"handle", "trylock">>,       \* refused: it returns at once
    <<"write_send", "write_done">> }

s4_forward(s) ==
  /\ \E jump \in handle_fwd_ll_req \cup handle_fwd_get_req
                 \cup handle_fwd_put_req \cup handle_write_req :
       S4Goto(s, jump[1], jump[2])
  /\ UNCHANGED <<cnt, channel, s2, s3, u, newport, locked, conn, peer, busy>>

\* The label done of each handler: put_peer_task_conn if there is a connection.
\* The one of a session that is gone is no longer that of any session.
s4_put_peer(s, done) ==
  /\ done \in {"ll_done", "get_done", "put_done", "write_done"}
  /\ S4Goto(s, done, "trylock")
  /\ conn' = IF peer[s] = NoOne THEN conn ELSE [conn EXCEPT ![peer[s]].is_using = FALSE]
  /\ peer' = [peer EXCEPT ![s] = NoOne]
  /\ UNCHANGED <<cnt, channel, s2, s3, u, newport, locked, busy>>

\* put_session forgets the session and its task connections. A handler that uses
\* one keeps its pointer to it.
s4_exit(s) ==
  /\ S4Goto(s, "exit", "none")
  /\ conn' = [conn EXCEPT ![s] = NoConn]
  /\ peer' = [t \in Sessions |-> IF peer[t] = s THEN NoOne ELSE peer[t]]
  /\ UNCHANGED <<cnt, channel, s2, s3, u, newport, locked, busy>>

-----------------------------------------------------------------------------
(* U: port_update_loop *)

\* Every connected session has a task connection to be told the new port on.
can_update_port == \A s \in Sessions : s4[s] # "none" => conn[s].exists

\* need_update_port and can_update_port hold; otherwise U sleeps on.
u_check == /\ u = "sleep"
           /\ can_update_port
           /\ u' = "trylock"
           /\ UNCHANGED <<cnt, channel, s2, s3, newport, handlers>>

\* rwlock_write_trylock, after which can_update_port may no longer hold.
u_lock == /\ u = "trylock"
          /\ IF cnt = 0 THEN cnt' = -1 /\ u' = "port"
                        ELSE cnt' = cnt /\ u' = "sleep"
          /\ UNCHANGED <<channel, s2, s3, newport, handlers>>

\* Mutant: the port is not compared with those in use.
any_port(p) ==
  /\ u = "port"
  /\ newport' = p
  /\ u' = "updating"
  /\ UNCHANGED <<cnt, channel, s2, s3, handlers>>

\* get_real_random_port: a port in use is refused.
u_new_port(p) ==
  /\ u = "port"
  /\ p \notin {MainPort, second_port}
  /\ newport' = p
  /\ u' = "updating"
  /\ UNCHANGED <<cnt, channel, s2, s3, handlers>>

\* The random port is one of the two in use, or no socket can be made for it.
u_give_up == /\ u = "port" /\ write_unlock
             /\ u' = "sleep"
             /\ UNCHANGED <<channel, s2, s3, newport, handlers>>

\* set_all_conns_updating marks the task connections of the connected sessions.
set_all_conns_updating ==
  /\ u = "updating"
  /\ conn' = [s \in Sessions |-> IF s4[s] # "none" /\ conn[s].exists
                                   THEN [conn[s] EXCEPT !.is_updating = TRUE]
                                   ELSE conn[s]]
  /\ u' = "close"
  /\ UNCHANGED <<cnt, channel, s2, s3, newport, s4, locked, peer, busy>>

u_close == /\ u = "close"
           /\ second_sock' = NoPort
           /\ u' = "setPort"
           /\ UNCHANGED <<cnt, second_port, s2, s3, newport, handlers>>

u_set_port == /\ u = "setPort"
              /\ second_port' = newport
              /\ u' = "setSock"
              /\ UNCHANGED <<cnt, second_sock, s2, s3, newport, handlers>>

u_set_sock == /\ u = "setSock"
              /\ second_sock' = newport
              /\ u' = "unlock"
              /\ UNCHANGED <<cnt, second_port, s2, s3, newport, handlers>>

\* The lock is released; notify_client_after_updating then tells the clients.
u_unlock == /\ u = "unlock" /\ write_unlock
            /\ u' = "sleep"
            /\ UNCHANGED <<channel, s2, s3, newport, handlers>>

-----------------------------------------------------------------------------
S2Step == s2_lock \/ s2_respond
S3Step == s3_lock \/ s3_nothing \/ (\E s \in Sessions : s3_accept(s)) \/ s3_unlock
S4Step(s) ==
  \/ s4_trylock(s)
  \/ \E next \in {"trylock", "handle", "exit"} : s4_recv(s, next)
  \/ \E next \in {"trylock", "exit"} : s4_request(s, next)
  \/ \E t \in Sessions : s4_append_conn(s, t) \/ s4_reconnect(s, t)
  \/ s4_exit(s)
S4Forwards(s) ==
  \/ \E t \in Sessions, next \in {"ll_send", "get_send", "put_send", "write_send"} :
       s4_get_peer(s, t, next)
  \/ s4_forward(s)
  \/ \E done \in {"ll_done", "get_done", "put_done", "write_done"} : s4_put_peer(s, done)
UStep == u_check \/ u_lock
UWrites == \/ (\E p \in Ports : u_new_port(p)) \/ u_give_up
           \/ set_all_conns_updating \/ u_close \/ u_set_port \/ u_set_sock \/ u_unlock

Next == \/ s2_accept \/ S2Step
        \/ S3Step
        \/ \E s \in Sessions : S4Step(s) \/ S4Forwards(s)
        \/ UStep \/ UWrites

Spec == Init /\ [][Next]_vars

\* Threads get scheduled, and usleep and sleep end. A thread that polls the lock
\* meets it free again and again, hence strong fairness for S2 and S3. Nothing
\* makes a peer answer a forwarded request.
FairSpec == /\ Spec
            /\ SF_vars(S2Step) /\ SF_vars(S3Step)
            /\ \A s \in Sessions : WF_vars(S4Step(s))
            /\ WF_vars(UWrites)

-----------------------------------------------------------------------------
\* A handler between taking a task connection (or refusing the request) and the
\* return of its function.
Forwarding == {"ll_send", "ll_recv", "ll_done", "get_send", "get_recv", "get_reply", "get_done",
               "put_send", "put_resp", "put_recv", "put_done", "write_send", "write_done"}

TypeOK ==
  /\ cnt \in Int
  /\ second_port \in Ports \ {MainPort}
  /\ second_sock \in Ports \cup {NoPort}
  /\ s2 \in {"accept", "lock", "respond"}
  /\ s3 \in {"lock", "accept", "unlock"}
  /\ u \in {"sleep", "trylock", "port", "updating", "close", "setPort", "setSock", "unlock"}
  /\ newport \in Ports \ {MainPort}
  /\ s4 \in [Sessions -> {"none", "trylock", "recv", "handle", "exit"} \cup Forwarding]
  /\ locked \in [Sessions -> BOOLEAN]
  /\ conn \in [Sessions -> [exists : BOOLEAN, is_using : BOOLEAN, is_updating : BOOLEAN]]
  /\ peer \in [Sessions -> Sessions \cup {NoOne}]
  /\ busy \in BOOLEAN

\* Who is between a successful lock call and the matching unlock.
S4Readers == {s \in Sessions : locked[s]}
NumReaders == Cardinality(S4Readers) + (IF s2 = "respond" THEN 1 ELSE 0)
                                     + (IF s3 \in {"accept", "unlock"} THEN 1 ELSE 0)
Writing == u \notin {"sleep", "trylock"}

\* As long as no rwlock_read_trylock of a session handler has failed, the lock
\* counts its holders, and U has the channel to itself while it replaces port
\* and socket.
LockRightUntilBusy ==
  ~busy => IF Writing THEN cnt = -1 /\ NumReaders = 0 ELSE cnt = NumReaders

\* As long as no such call has failed, S2 announces and S3 accepts only on a
\* port that the server is listening on.
AnnouncedPortListensUntilBusy ==
  ~busy /\ (s2 = "respond" \/ s3 = "accept") => second_sock = second_port

\* A task connection carries one forwarded exchange at a time: two handlers never
\* hold the same one, and a held one is marked as used.
PeerConnExclusive ==
  \A s \in Sessions : peer[s] # NoOne =>
    /\ conn[peer[s]].exists /\ conn[peer[s]].is_using
    /\ \A t \in Sessions \ {s} : peer[t] # peer[s]

\* A task connection that is marked as used belongs to a handler that is still
\* inside its forwarding function: on no way out of one, at whatever packet the
\* exchange broke off and whichever session left meanwhile, does the mark stay
\* behind. (A handler whose peer never answers stays inside, and so does the mark.)
UsedConnHasUser ==
  \A t \in Sessions : conn[t].is_using =>
    \E s \in Sessions : peer[s] = t /\ s4[s] \in Forwarding

\* rwlock.h: "All readers are blocked until the writer is finished writing": no
\* longer than that, so a client that connects to the main port is answered.
MainPortAnswers == (s2 = "lock") ~> (s2 = "respond")

-----------------------------------------------------------------------------
(* The inductive invariant behind the invariants (ChannelUpdateProofs.tla) *)

\* Port and socket agree except while U is between closing and replacing.
SocketInv == /\ u \notin {"setPort", "setSock"} => second_sock = second_port
             /\ u = "setSock" => second_port = newport

\* Until a handler was refused, the handlers that receive are those that hold
\* the lock.
HandlerInv == /\ \A s \in Sessions : locked[s] => s4[s] = "recv"
              /\ ~busy => \A s \in Sessions : s4[s] = "recv" => locked[s]

\* A handler has a peer only while it forwards, and only a connected one; a
\* session without a handler has no task connection.
PeerInv == \A s \in Sessions :
             /\ peer[s] # NoOne => s4[s] \in Forwarding /\ s4[peer[s]] # "none"
             /\ conn[s].exists => s4[s] # "none"
             /\ conn[s].is_using => conn[s].exists

IInv == /\ TypeOK /\ LockRightUntilBusy /\ SocketInv /\ HandlerInv
        /\ PeerInv /\ PeerConnExclusive /\ UsedConnHasUser
=============================================================================
