------------------------ MODULE ChannelUpdateProofs ------------------------
(***************************************************************************)
(* For any number of sessions and any set of ports: until a session        *)
(* handler is refused the lock, the lock counts its holders and the port   *)
(* that is announced is the one the server listens on; and, refused or     *)
(* not, a task connection is never shared, and is in use only while a      *)
(* handler is inside the function that took it.                            *)
(***************************************************************************)
EXTENDS ChannelUpdate, FiniteSetTheorems, TLAPS

\* Taking and releasing the lock by one handler changes the number of readers
\* by one.
LEMMA ReadersCount ==
  ASSUME TypeOK
  PROVE  /\ Cardinality(S4Readers) \in Nat
         /\ Cardinality(S4Readers) = 0 <=> S4Readers = {}
         /\ \A s \in Sessions : ~locked[s] =>
              Cardinality({r \in Sessions : [locked EXCEPT ![s] = TRUE][r]})
                = Cardinality(S4Readers) + 1
         /\ \A s \in Sessions : locked[s] =>
              Cardinality({r \in Sessions : [locked EXCEPT ![s] = FALSE][r]})
                = Cardinality(S4Readers) - 1
         /\ \A s \in Sessions : ~locked[s] =>
              {r \in Sessions : [locked EXCEPT ![s] = FALSE][r]} = S4Readers
<1>1. S4Readers \in SUBSET Sessions
  BY DEF S4Readers
<1>2. IsFiniteSet(S4Readers) /\ Cardinality(S4Readers) \in Nat
  BY <1>1, SessionsAssumption, FS_Subset, FS_CardinalityType
<1>3. Cardinality(S4Readers) = 0 <=> S4Readers = {}
  BY <1>2, FS_EmptySet
<1>4. ASSUME NEW s \in Sessions, ~locked[s]
      PROVE  /\ Cardinality({r \in Sessions : [locked EXCEPT ![s] = TRUE][r]})
                  = Cardinality(S4Readers) + 1
             /\ {r \in Sessions : [locked EXCEPT ![s] = FALSE][r]} = S4Readers
  <2>1. {r \in Sessions : [locked EXCEPT ![s] = TRUE][r]} = S4Readers \cup {s}
    BY <1>4 DEF TypeOK, S4Readers
  <2>2. s \notin S4Readers
    BY <1>4 DEF S4Readers
  <2>3. {r \in Sessions : [locked EXCEPT ![s] = FALSE][r]} = S4Readers
    BY <1>4 DEF TypeOK, S4Readers
  <2> QED BY <1>2, <2>1, <2>2, <2>3, FS_AddElement
<1>5. ASSUME NEW s \in Sessions, locked[s]
      PROVE  Cardinality({r \in Sessions : [locked EXCEPT ![s] = FALSE][r]})
               = Cardinality(S4Readers) - 1
  <2>1. {r \in Sessions : [locked EXCEPT ![s] = FALSE][r]} = S4Readers \ {s}
    BY <1>5 DEF TypeOK, S4Readers
  <2>2. s \in S4Readers
    BY <1>5 DEF S4Readers
  <2> QED BY <1>2, <2>1, <2>2, FS_RemoveElement
<1> QED BY <1>2, <1>3, <1>4, <1>5

\* A handler is outside its forwarding function at every other place.
LEMMA Places == \A x \in {"none", "trylock", "recv", "handle", "exit"} : x \notin Forwarding
BY DEF Forwarding

LEMMA InitHolds == Init => IInv
<1> SUFFICES ASSUME Init PROVE IInv
  OBVIOUS
<1>1. TypeOK
  <2>1. /\ NoConn \in [exists : BOOLEAN, is_using : BOOLEAN, is_updating : BOOLEAN]
        /\ busy \in BOOLEAN /\ locked \in [Sessions -> BOOLEAN]
    BY DEF Init, NoConn
  <2> QED BY <2>1, PortsAssumption DEF Init, TypeOK
<1>2. S4Readers = {}
  BY DEF Init, S4Readers
<1>3. LockRightUntilBusy
  BY <1>2, FS_EmptySet DEF Init, LockRightUntilBusy, NumReaders, Writing
<1>4. SocketInv /\ HandlerInv /\ PeerInv /\ PeerConnExclusive /\ UsedConnHasUser
  BY DEF Init, SocketInv, HandlerInv, PeerInv, PeerConnExclusive, UsedConnHasUser, NoConn
<1> QED BY <1>1, <1>3, <1>4 DEF IInv

\* The steps of S2, S3 and U preserve IInv, apart from those that touch a task
\* connection.
LEMMA DaemonActs ==
  ASSUME IInv,
         \/ s2_accept \/ s2_lock \/ s2_respond
         \/ s3_lock \/ s3_nothing \/ s3_unlock
         \/ u_check \/ u_lock \/ (\E p \in Ports : u_new_port(p)) \/ u_give_up
         \/ u_close \/ u_set_port \/ u_set_sock \/ u_unlock
  PROVE  IInv'
<1> USE DEF channel, handlers
<1>1. handlers' = handlers
  BY DEF s2_accept, s2_lock, s2_respond, s3_lock, s3_nothing, s3_unlock, u_check, u_lock, u_new_port,
         u_give_up, u_close, u_set_port, u_set_sock, u_unlock
<1>2. TypeOK'
  BY PortsAssumption
     DEF IInv, TypeOK, s2_accept, s2_lock, s2_respond, s3_lock, s3_nothing, s3_unlock, u_check, u_lock,
         u_new_port, u_give_up, u_close, u_set_port, u_set_sock, u_unlock,
         read_lock, read_unlock, write_unlock
<1>3. HandlerInv' /\ PeerInv' /\ PeerConnExclusive' /\ UsedConnHasUser'
  BY <1>1 DEF IInv, HandlerInv, PeerInv, PeerConnExclusive, UsedConnHasUser
<1>4. SocketInv'
  BY DEF IInv, SocketInv, s2_accept, s2_lock, s2_respond, s3_lock, s3_nothing, s3_unlock, u_check, u_lock,
         u_new_port, u_give_up, u_close, u_set_port, u_set_sock, u_unlock
<1>5. Cardinality(S4Readers) \in Nat /\ S4Readers' = S4Readers
  BY <1>1, ReadersCount DEF IInv, S4Readers
<1>6. LockRightUntilBusy'
  <2>1. cnt \in Int /\ LockRightUntilBusy
    BY DEF IInv, TypeOK
  <2> QED BY <1>5, <2>1 DEF LockRightUntilBusy, NumReaders, Writing,
         s2_accept, s2_lock, s2_respond, s3_lock, s3_nothing, s3_unlock, u_check, u_lock,
         u_new_port, u_give_up, u_close, u_set_port, u_set_sock, u_unlock,
         read_lock, read_unlock, write_unlock
<1> QED BY <1>2, <1>3, <1>4, <1>6 DEF IInv

\* The steps of a session handler at the lock preserve IInv: a refusal sets busy,
\* an unlock without a lock can only follow a refusal.
LEMMA LockActs ==
  ASSUME IInv, NEW s \in Sessions,
         s4_trylock(s) \/ \E next \in {"trylock", "handle", "exit"} : s4_recv(s, next)
  PROVE  IInv'
<1> USE DEF channel, S4Goto
<1>1. CASE s4_trylock(s)
  <2> USE <1>1 DEF s4_trylock
  <2>1. TypeOK'
    <3>1. cnt' \in Int
      BY DEF IInv, TypeOK
    <3>2. busy' \in BOOLEAN
      BY Zenon DEF IInv, TypeOK
    <3>3. locked' \in [Sessions -> BOOLEAN]
      <4>1. locked' = [locked EXCEPT ![s] = TRUE] \/ locked' = [locked EXCEPT ![s] = FALSE]
        OBVIOUS
      <4> QED BY <4>1 DEF IInv, TypeOK
    <3> QED BY <3>1, <3>2, <3>3 DEF IInv, TypeOK
  <2>2. SocketInv'
    BY DEF IInv, SocketInv
  <2>3. HandlerInv'
    BY DEF IInv, TypeOK, HandlerInv
  <2>4. ~locked[s]
    BY DEF IInv, HandlerInv
  <2>5. LockRightUntilBusy'
    <3>1. CASE cnt >= 0
      <4>1. Cardinality(S4Readers)' = Cardinality(S4Readers) + 1
        BY <2>4, <3>1, ReadersCount DEF IInv, S4Readers
      <4>2. busy' = busy /\ cnt' = cnt + 1 /\ UNCHANGED <<s2, s3, u>>
        BY <3>1
      <4>3. Cardinality(S4Readers) \in Nat /\ cnt \in Int
        BY ReadersCount DEF IInv, TypeOK
      <4>4. ~busy => ~Writing /\ cnt = NumReaders
        BY <3>1 DEF IInv, LockRightUntilBusy, Writing
      <4> QED BY <4>1, <4>2, <4>3, <4>4 DEF LockRightUntilBusy, NumReaders, Writing
    <3>2. CASE ~(cnt >= 0)
      BY <3>2 DEF LockRightUntilBusy
    <3> QED BY <3>1, <3>2
  <2>6. PeerInv' /\ PeerConnExclusive' /\ UsedConnHasUser'
    BY Places DEF IInv, TypeOK, PeerInv, PeerConnExclusive, UsedConnHasUser
  <2> QED BY <2>1, <2>2, <2>3, <2>5, <2>6 DEF IInv
<1>2. ASSUME NEW next \in {"trylock", "handle", "exit"}, s4_recv(s, next)
      PROVE  IInv'
  <2> USE <1>2 DEF s4_recv, read_unlock
  <2>1. TypeOK'
    BY DEF IInv, TypeOK
  <2>2. SocketInv'
    BY DEF IInv, SocketInv
  <2>3. HandlerInv'
    BY DEF IInv, TypeOK, HandlerInv
  <2>4. LockRightUntilBusy'
    <3> SUFFICES ASSUME ~busy PROVE LockRightUntilBusy'
      BY DEF LockRightUntilBusy
    <3>1. locked[s]
      BY DEF IInv, HandlerInv
    <3>2. Cardinality(S4Readers)' = Cardinality(S4Readers) - 1
      BY <3>1, ReadersCount DEF IInv, S4Readers
    <3>3. S4Readers # {}
      BY <3>1 DEF S4Readers
    <3> QED BY <3>2, <3>3, ReadersCount
            DEF IInv, TypeOK, LockRightUntilBusy, NumReaders, Writing
  <2>5. PeerInv' /\ PeerConnExclusive' /\ UsedConnHasUser'
    BY Places DEF IInv, TypeOK, PeerInv, PeerConnExclusive, UsedConnHasUser
  <2> QED BY <2>1, <2>2, <2>3, <2>4, <2>5 DEF IInv
<1> QED BY <1>1, <1>2

\* The steps that touch sessions and task connections preserve IInv.
LEMMA ConnActs ==
  ASSUME IInv, NEW s \in Sessions,
         \/ s3_accept(s) \/ (\E next \in {"trylock", "exit"} : s4_request(s, next)) 
         \/ S4Forwards(s) \/ s4_exit(s)
         \/ \E t \in Sessions : s4_append_conn(s, t) \/ s4_reconnect(s, t)
         \/ set_all_conns_updating
  PROVE  IInv'
<1> USE SessionsAssumption DEF channel, S4Goto, NoConn, get_new_session
<1>a. ASSUME s4_forward(s)
      PROVE  /\ \/ /\ s4[s] \in Forwarding \ {"ll_done", "get_done", "put_done", "write_done"}
                   /\ s4'[s] \in Forwarding
                \/ s4[s] = "handle" /\ s4'[s] \in {"ll_done", "get_done", "put_done", "trylock"}
             /\ s4' = [s4 EXCEPT ![s] = s4'[s]]
             /\ UNCHANGED <<cnt, channel, s2, s3, u, newport, locked, conn, peer, busy>>
  <2>1. PICK jump \in handle_fwd_ll_req \cup handle_fwd_get_req
                      \cup handle_fwd_put_req \cup handle_write_req :
               S4Goto(s, jump[1], jump[2])
    BY <1>a DEF s4_forward
  <2>2. s4[s] = jump[1] /\ s4'[s] = jump[2] /\ s4' = [s4 EXCEPT ![s] = jump[2]]
    BY <2>1 DEF IInv, TypeOK
  <2>3. \/ /\ jump[1] \in Forwarding \ {"ll_done", "get_done", "put_done", "write_done"}
           /\ jump[2] \in Forwarding
        \/ jump[1] = "handle" /\ jump[2] \in {"ll_done", "get_done", "put_done", "trylock"}
    <3>1. CASE jump \in handle_fwd_ll_req
      BY <3>1 DEF handle_fwd_ll_req, Forwarding
    <3>2. CASE jump \in handle_fwd_get_req
      BY <3>2 DEF handle_fwd_get_req, Forwarding
    <3>3. CASE jump \in handle_fwd_put_req
      BY <3>3 DEF handle_fwd_put_req, Forwarding
    <3>4. CASE jump \in handle_write_req
      BY <3>4 DEF handle_write_req, Forwarding
    <3> QED BY <3>1, <3>2, <3>3, <3>4
  <2> QED BY <1>a, <2>2, <2>3 DEF s4_forward
<1>1. /\ UNCHANGED <<cnt, channel, newport, locked, busy, s2>>
      /\ \A r \in Sessions : s4'[r] = "recv" <=> s4[r] = "recv"
      /\ u' = u \/ (u = "updating" /\ u' = "close")
      /\ s3' = s3 \/ (s3 = "accept" /\ s3' = "unlock")
  <2>1. CASE s4_forward(s)
    BY <1>a, <2>1 DEF IInv, TypeOK, Forwarding
  <2>2. CASE ~s4_forward(s)
    BY <2>2 DEF IInv, TypeOK, s3_accept, s4_request, S4Forwards, s4_put_peer, s4_exit,
                s4_append_conn, s4_reconnect, s4_get_peer, set_all_conns_updating
  <2> QED BY <2>1, <2>2
<1>2. LockRightUntilBusy' /\ SocketInv' /\ HandlerInv'
  <2>1. (Writing' <=> Writing) /\ NumReaders' = NumReaders
    BY <1>1 DEF Writing, NumReaders, S4Readers
  <2> QED BY <1>1, <2>1 DEF IInv, LockRightUntilBusy, SocketInv, HandlerInv
<1>3. ASSUME NEW next \in {"trylock", "exit"}, s4_request(s, next)
      PROVE  IInv'
  <2>1. TypeOK'
    BY <1>3 DEF IInv, TypeOK, s4_request
  <2>2. PeerInv' /\ PeerConnExclusive' /\ UsedConnHasUser'
    BY <1>3, Places DEF IInv, TypeOK, PeerInv, PeerConnExclusive, UsedConnHasUser, s4_request
  <2> QED BY <1>2, <2>1, <2>2 DEF IInv
<1>4. ASSUME NEW done \in {"ll_done", "get_done", "put_done", "write_done"}, s4_put_peer(s, done)
      PROVE  IInv'
  <2>1. TypeOK'
    BY <1>4 DEF IInv, TypeOK, s4_put_peer
  <2>2. PeerInv' /\ PeerConnExclusive' /\ UsedConnHasUser'
    BY <1>4, Places DEF IInv, TypeOK, PeerInv, PeerConnExclusive, UsedConnHasUser, s4_put_peer
  <2> QED BY <1>2, <2>1, <2>2 DEF IInv
<1>5. CASE s4_exit(s)
  <2>1. TypeOK'
    BY <1>5 DEF IInv, TypeOK, s4_exit
  <2>2. PeerInv' /\ PeerConnExclusive' /\ UsedConnHasUser'
    BY <1>5, Places DEF IInv, TypeOK, PeerInv, PeerConnExclusive, UsedConnHasUser, s4_exit
  <2> QED BY <1>2, <2>1, <2>2 DEF IInv
<1>6. ASSUME NEW t \in Sessions, s4_append_conn(s, t)
      PROVE  IInv'
  <2>0. /\ NewConn \in [exists : BOOLEAN, is_using : BOOLEAN, is_updating : BOOLEAN]
        /\ NewConn.exists = TRUE /\ NewConn.is_using = FALSE
    BY DEF NewConn
  <2>1. TypeOK'
    BY <1>6, <2>0 DEF IInv, TypeOK, s4_append_conn
  <2>2. PeerInv' /\ PeerConnExclusive' /\ UsedConnHasUser'
    BY <1>6, <2>0, Places DEF IInv, TypeOK, PeerInv, PeerConnExclusive, UsedConnHasUser, s4_append_conn
  <2> QED BY <1>2, <2>1, <2>2 DEF IInv
<1>7. ASSUME NEW t \in Sessions, s4_reconnect(s, t)
      PROVE  IInv'
  <2>0. /\ s4' = [s4 EXCEPT ![s] = "exit"] /\ s4[s] = "handle"
        /\ UNCHANGED <<cnt, channel, s2, s3, u, newport, locked, peer, busy>>
    BY <1>7 DEF s4_reconnect
  <2>1. CASE conn' = conn
    <3>1. TypeOK'
      BY <2>0, <2>1 DEF IInv, TypeOK
    <3>2. PeerInv' /\ PeerConnExclusive' /\ UsedConnHasUser'
      BY <2>0, <2>1, Places DEF IInv, TypeOK, PeerInv, PeerConnExclusive, UsedConnHasUser
    <3> QED BY <1>2, <3>1, <3>2 DEF IInv
  <2>2. CASE /\ s4[t] # "none" /\ conn[t].exists
             /\ conn' = [conn EXCEPT ![t].is_updating = FALSE]
    <3>1. TypeOK'
      BY <2>0, <2>2 DEF IInv, TypeOK
    <3>2. \A r \in Sessions : /\ conn'[r].exists = conn[r].exists
                              /\ conn'[r].is_using = conn[r].is_using
      BY <2>2 DEF IInv, TypeOK
    <3>3. PeerInv' /\ PeerConnExclusive' /\ UsedConnHasUser'
      BY <2>0, <3>2, Places DEF IInv, TypeOK, PeerInv, PeerConnExclusive, UsedConnHasUser
    <3> QED BY <1>2, <3>1, <3>3 DEF IInv
  <2> QED BY <1>7, <2>1, <2>2 DEF s4_reconnect
<1>8. CASE s3_accept(s)
  <2>1. (\A r \in Sessions : peer[r] # s) /\ conn[s].exists = FALSE
    BY <1>8 DEF IInv, TypeOK, PeerInv, s3_accept
  <2>2. TypeOK'
    BY <1>8 DEF IInv, TypeOK, s3_accept
  <2>3. PeerInv' /\ PeerConnExclusive' /\ UsedConnHasUser'
    BY <1>8, <2>1, Places DEF IInv, TypeOK, PeerInv, PeerConnExclusive, UsedConnHasUser, s3_accept
  <2> QED BY <1>2, <2>2, <2>3 DEF IInv
<1>9. ASSUME NEW t \in Sessions, NEW next \in {"ll_send", "get_send", "put_send", "write_send"},
             s4_get_peer(s, t, next)
      PROVE  IInv'
  <2>0. next \in Forwarding
    BY <1>9 DEF Forwarding
  <2>1. TypeOK'
    BY <1>9, <2>0 DEF IInv, TypeOK, s4_get_peer
  <2>2. PeerInv' /\ PeerConnExclusive' /\ UsedConnHasUser'
    BY <1>9, <2>0, Places DEF IInv, TypeOK, PeerInv, PeerConnExclusive, UsedConnHasUser, s4_get_peer
  <2> QED BY <1>2, <2>1, <2>2 DEF IInv
<1>10. CASE set_all_conns_updating
  <2>1. TypeOK'
    BY <1>10 DEF IInv, TypeOK, set_all_conns_updating
  <2>2. PeerInv' /\ PeerConnExclusive' /\ UsedConnHasUser'
    BY <1>10, Places DEF IInv, TypeOK, PeerInv, PeerConnExclusive, UsedConnHasUser, set_all_conns_updating
  <2> QED BY <1>2, <2>1, <2>2 DEF IInv
<1>11. CASE s4_forward(s)
  <2>1. TypeOK'
    BY <1>11, <1>a DEF IInv, TypeOK, Forwarding
  <2>2. PeerInv' /\ PeerConnExclusive' /\ UsedConnHasUser'
    BY <1>11, <1>a, Places DEF IInv, TypeOK, PeerInv, PeerConnExclusive, UsedConnHasUser
  <2> QED BY <1>2, <2>1, <2>2 DEF IInv
<1> QED BY <1>3, <1>4, <1>5, <1>6, <1>9, <1>10, <1>11, <1>7, <1>8 DEF S4Forwards

LEMMA StepHolds == IInv /\ [Next]_vars => IInv'
<1> SUFFICES ASSUME IInv, [Next]_vars PROVE IInv'
  OBVIOUS
<1>1. CASE UNCHANGED vars
  BY <1>1 DEF vars, IInv, TypeOK, LockRightUntilBusy, NumReaders, S4Readers, Writing, SocketInv,
              HandlerInv, PeerInv, PeerConnExclusive, UsedConnHasUser
<1>2. CASE s2_accept \/ S2Step \/ s3_lock \/ s3_nothing \/ s3_unlock
  BY <1>2, DaemonActs DEF S2Step
<1>3. ASSUME NEW s \in Sessions, s3_accept(s)
      PROVE  IInv'
  BY <1>3, ConnActs
<1>4. ASSUME NEW s \in Sessions, S4Step(s) \/ S4Forwards(s)
      PROVE  IInv'
  BY <1>4, LockActs, ConnActs DEF S4Step
<1>5. CASE set_all_conns_updating
  <2>1. CASE Sessions = {}
    <3>1. Cardinality(S4Readers) \in Nat /\ S4Readers' = S4Readers
      BY <1>5, ReadersCount DEF IInv, S4Readers, set_all_conns_updating
    <3> QED BY <1>5, <2>1, <3>1
            DEF set_all_conns_updating, channel, IInv, TypeOK, LockRightUntilBusy, NumReaders,
                Writing, SocketInv, HandlerInv, PeerInv, PeerConnExclusive, UsedConnHasUser
  <2>2. CASE Sessions # {}
    BY <1>5, <2>2, ConnActs
  <2> QED BY <2>1, <2>2
<1>6. CASE u_check \/ u_lock \/ (\E p \in Ports : u_new_port(p)) \/ u_give_up
             \/ u_close \/ u_set_port \/ u_set_sock \/ u_unlock
  BY <1>6, DaemonActs
<1> QED BY <1>1, <1>2, <1>3, <1>4, <1>5, <1>6 DEF Next, S3Step, UStep, UWrites

\* IInv is an invariant of the server.
THEOREM Invariance == Spec => []IInv
BY InitHolds, StepHolds, PTL DEF Spec

\* The second port never becomes the main port, whatever the interleaving.
THEOREM TypeCorrect == Spec => []TypeOK
<1>1. IInv => TypeOK
  BY DEF IInv
<1> QED BY <1>1, Invariance, PTL

\* The lock is right until a handler is refused: only the unlock that S4 does
\* after a refusal can make it wrong.
THEOREM LockRight == Spec => []LockRightUntilBusy
<1>1. IInv => LockRightUntilBusy
  BY DEF IInv
<1> QED BY <1>1, Invariance, PTL

\* Until then, what S2 announces and S3 accepts on is being listened on.
THEOREM AnnouncedPortListens == Spec => []AnnouncedPortListensUntilBusy
<1>1. IInv => AnnouncedPortListensUntilBusy
  <2> SUFFICES ASSUME IInv, ~busy, s2 = "respond" \/ s3 = "accept"
               PROVE  second_sock = second_port
    BY DEF AnnouncedPortListensUntilBusy
  <2>1. Cardinality(S4Readers) \in Nat
    BY ReadersCount DEF IInv
  <2>2. u \in {"sleep", "trylock"}
    BY <2>1 DEF IInv, LockRightUntilBusy, NumReaders, Writing
  <2> QED BY <2>2 DEF IInv, SocketInv
<1> QED BY <1>1, Invariance, PTL

\* Task connections are never shared by two forwarded exchanges.
THEOREM PeerConnSafe == Spec => []PeerConnExclusive
<1>1. IInv => PeerConnExclusive
  BY DEF IInv
<1> QED BY <1>1, Invariance, PTL

\* No task connection stays marked as used once the handler that took it has
\* returned, on whichever of its exits.
THEOREM UsedConnSafe == Spec => []UsedConnHasUser
<1>1. IInv => UsedConnHasUser
  BY DEF IInv
<1> QED BY <1>1, Invariance, PTL
=============================================================================
