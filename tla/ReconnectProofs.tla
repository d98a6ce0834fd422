-------------------------- MODULE ReconnectProofs --------------------------
(***************************************************************************)
(* The proofs about the reconnection of a client, for any number of task   *)
(* connections, port updates and commands.                                 *)
(*                                                                         *)
(* Two invariants: Tokens follows the one command that is under way, in    *)
(* every schedule, and Quick follows the sockets of both ends through a    *)
(* port update, in the schedules where the waiting times are long enough.  *)
(***************************************************************************)
EXTENDS Reconnect, TLAPS

States == {"backlog", "accepted", "session", "orphan", "reset"}

ConnType == [owner : Owners, state : States, at : Int, open : BOOLEAN,
             nonblock : BOOLEAN, c2s : Seq(Int), s2c : Seq(Int)]

\* The sockets of the session and of the client are connections of the owner
\* they are kept for, and the one the session handler reads was handed over.
SocketsRight ==
  /\ ssock \in DOMAIN conn /\ conn[ssock].owner = Main /\ conn[ssock].state = "session"
  /\ tsock \in [Tasks -> DOMAIN conn] /\ \A k \in Tasks : conn[tsock[k]].owner = k
  /\ sock \in [Owners -> DOMAIN conn] /\ \A o \in Owners : conn[sock[o]].owner = o
  /\ old \in DOMAIN conn /\ conn[old].owner = Main

Typed ==
  /\ conn \in Seq(ConnType)
  /\ sport \in Int /\ notify \in SUBSET Tasks
  /\ session \in {"recv", "handle", "ended", "aborted"} /\ req \in Int
  /\ port \in [Owners -> Int] /\ last \in [Owners -> Int]
  /\ need \in BOOLEAN /\ cmd \in Int
  /\ mpc \in {"prompt", "check", "connect", "close", "clear", "send", "wait",
              "mismatch", "aborted"}
  /\ tpc \in [Tasks -> {"recv", "reconnect", "nonblock", "ended"}]
  /\ gaveup \in BOOLEAN /\ quick \in BOOLEAN
  /\ SocketsRight

-----------------------------------------------------------------------------
\* The connections the session handler reads or may come to read.
Live == {i \in DOMAIN conn : conn[i].owner = Main /\ conn[i].state # "reset"}

\* Where the command is: nowhere, ...
Quiet ==
  /\ session # "handle" /\ conn[sock[Main]].s2c = << >>
  /\ \A i \in Live : conn[i].c2s = << >>

\* ... on its way to the session handler, ...
Sent ==
  /\ session # "handle" /\ conn[sock[Main]].s2c = << >>
  /\ conn[sock[Main]].c2s = << cmd >>
  /\ \A i \in Live : i # sock[Main] => conn[i].c2s = << >>

Reached ==
  /\ conn[sock[Main]].state \notin {"backlog", "reset"}
  /\ \A i \in Live : conn[i].c2s = << >>

\* ... with it, ...
Handled == session = "handle" /\ req = cmd /\ conn[sock[Main]].s2c = << >> /\ Reached

\* ... or answered.
Answered == session # "handle" /\ conn[sock[Main]].s2c = << cmd >> /\ Reached

Tokens ==
  ~ gaveup => /\ mpc # "mismatch"
              /\ mpc \notin {"wait", "aborted"} => Quiet
              /\ mpc = "wait" => Quiet \/ Sent \/ Handled \/ Answered

-----------------------------------------------------------------------------
\* One task connection in a quick schedule: at most its last socket is yet to
\* be taken over, and it is told of a port on the socket it reads.
TaskQuick(k) ==
  /\ conn[sock[k]].open /\ tpc[k] # "ended"
  /\ UnderWay(sock[k]) \/ tsock[k] = sock[k]
  /\ \A i \in DOMAIN conn : conn[i].owner = k /\ UnderWay(i) => i = sock[k]
  /\ k \in notify => tpc[k] = "recv" /\ conn[sock[k]].s2c = << >> /\ ~ UnderWay(sock[k])
  /\ tpc[k] = "reconnect" => /\ port[k] = sport /\ conn[sock[k]].s2c = << >>
                             /\ ~ UnderWay(sock[k])
  /\ conn[sock[k]].s2c # << >> => /\ conn[sock[k]].s2c = << sport >> /\ tpc[k] = "recv"
                                  /\ ~ UnderWay(sock[k])

\* The main connection: the session has a socket that is open, its newest one
\* unless that is yet to be taken over, and then the client has not closed the
\* one before.
MainQuick ==
  /\ conn[sock[Main]].open /\ conn[ssock].open
  /\ UnderWay(sock[Main]) \/ ssock = sock[Main]
  /\ UnderWay(sock[Main]) => mpc = "close"
  /\ \A i \in DOMAIN conn : conn[i].owner = Main /\ UnderWay(i) => i = sock[Main]
  /\ mpc = "close" => old # sock[Main]
  /\ conn[sock[Main]].at = IF mpc = "close" THEN sport ELSE last[Main]

\* No port is forgotten: as long as some handler was not told yet the client
\* keeps the old one, need_reconnect is set while the main connection is not
\* where it should be, and do_reconnect knows the server's port.
PortQuick ==
  /\ port[Main] = sport
       \/ \A k \in Tasks : k \in notify \/ conn[sock[k]].s2c # << >>
  /\ need \/ last[Main] = port[Main]
  /\ mpc \in {"connect", "close", "clear"} => Told /\ port[Main] = sport
  /\ mpc = "clear" => last[Main] = port[Main]

\* No connection is reset or left to nobody.
StatesQuick == \A i \in DOMAIN conn : conn[i].state \notin {"reset", "orphan"}

Quick ==
  quick => /\ session # "ended" /\ Up
           /\ StatesQuick
           /\ \A k \in Tasks : TaskQuick(k)
           /\ MainQuick /\ PortQuick

IInv == Typed /\ Tokens /\ Quick

-----------------------------------------------------------------------------
\* c and d differ at most in O_NONBLOCK.
Alike(c, d) ==
  /\ c.owner = d.owner /\ c.state = d.state /\ c.at = d.at /\ c.open = d.open
  /\ c.c2s = d.c2s /\ c.s2c = d.s2c

\* A step that changes or makes the connections in S only.
Frame(S) ==
  /\ conn' \in Seq(ConnType)
  /\ DOMAIN conn \subseteq DOMAIN conn' /\ DOMAIN conn' \subseteq DOMAIN conn \cup S
  /\ \A j \in DOMAIN conn : conn'[j].owner = conn[j].owner
  /\ \A j \in DOMAIN conn : j \notin S => Alike(conn'[j], conn[j])

LEMMA ConnFacts ==
  ASSUME NEW c \in ConnType
  PROVE  /\ c.owner \in Owners /\ c.state \in States /\ c.at \in Int /\ c.open \in BOOLEAN
         /\ c.nonblock \in BOOLEAN /\ c.c2s \in Seq(Int) /\ c.s2c \in Seq(Int)
BY DEF ConnType

LEMMA Edited ==
  ASSUME conn \in Seq(ConnType), NEW i \in DOMAIN conn, NEW c \in ConnType,
         conn' = [conn EXCEPT ![i] = c], c.owner = conn[i].owner
  PROVE  Frame({i}) /\ DOMAIN conn' = DOMAIN conn /\ conn'[i] = c
<1>1. conn' \in Seq(ConnType) /\ DOMAIN conn' = DOMAIN conn /\ conn'[i] = c
      /\ \A j \in DOMAIN conn : j # i => conn'[j] = conn[j]
  OBVIOUS
<1> QED BY <1>1 DEF Frame, Alike

\* One lemma for each field that the steps assign.
LEMMA SetS2C ==
  ASSUME conn \in Seq(ConnType), NEW i \in DOMAIN conn, NEW v \in Seq(Int),
         conn' = [conn EXCEPT ![i].s2c = v]
  PROVE  /\ Frame({i}) /\ DOMAIN conn' = DOMAIN conn
         /\ conn'[i].s2c = v /\ conn'[i].c2s = conn[i].c2s /\ conn'[i].at = conn[i].at
         /\ conn'[i].state = conn[i].state /\ conn'[i].open = conn[i].open
<1> DEFINE c == [conn[i] EXCEPT !.s2c = v]
<1>1. conn[i] \in ConnType /\ conn' = [conn EXCEPT ![i] = c]
  OBVIOUS
<1>2. /\ c \in ConnType /\ c.owner = conn[i].owner /\ c.s2c = v /\ c.c2s = conn[i].c2s
      /\ c.at = conn[i].at /\ c.state = conn[i].state /\ c.open = conn[i].open
  BY <1>1 DEF ConnType
<1> HIDE DEF c
<1> QED BY <1>1, <1>2, Edited

LEMMA SetC2S ==
  ASSUME conn \in Seq(ConnType), NEW i \in DOMAIN conn, NEW v \in Seq(Int),
         conn' = [conn EXCEPT ![i].c2s = v]
  PROVE  /\ Frame({i}) /\ DOMAIN conn' = DOMAIN conn
         /\ conn'[i].c2s = v /\ conn'[i].s2c = conn[i].s2c /\ conn'[i].at = conn[i].at
         /\ conn'[i].state = conn[i].state /\ conn'[i].open = conn[i].open
<1> DEFINE c == [conn[i] EXCEPT !.c2s = v]
<1>1. conn[i] \in ConnType /\ conn' = [conn EXCEPT ![i] = c]
  OBVIOUS
<1>2. /\ c \in ConnType /\ c.owner = conn[i].owner /\ c.c2s = v /\ c.s2c = conn[i].s2c
      /\ c.at = conn[i].at /\ c.state = conn[i].state /\ c.open = conn[i].open
  BY <1>1 DEF ConnType
<1> HIDE DEF c
<1> QED BY <1>1, <1>2, Edited

LEMMA SetState ==
  ASSUME conn \in Seq(ConnType), NEW i \in DOMAIN conn, NEW v \in States,
         conn' = [conn EXCEPT ![i].state = v]
  PROVE  /\ Frame({i}) /\ DOMAIN conn' = DOMAIN conn
         /\ conn'[i].state = v /\ conn'[i].s2c = conn[i].s2c /\ conn'[i].at = conn[i].at
         /\ conn'[i].c2s = conn[i].c2s /\ conn'[i].open = conn[i].open
<1> DEFINE c == [conn[i] EXCEPT !.state = v]
<1>1. conn[i] \in ConnType /\ conn' = [conn EXCEPT ![i] = c]
  OBVIOUS
<1>2. /\ c \in ConnType /\ c.owner = conn[i].owner /\ c.state = v /\ c.s2c = conn[i].s2c
      /\ c.at = conn[i].at /\ c.c2s = conn[i].c2s /\ c.open = conn[i].open
  BY <1>1 DEF ConnType
<1> HIDE DEF c
<1> QED BY <1>1, <1>2, Edited

LEMMA SetNonblock ==
  ASSUME conn \in Seq(ConnType), NEW i \in DOMAIN conn,
         conn' = [conn EXCEPT ![i].nonblock = TRUE]
  PROVE  Frame({}) /\ DOMAIN conn' = DOMAIN conn
<1> DEFINE c == [conn[i] EXCEPT !.nonblock = TRUE]
<1>1. conn[i] \in ConnType /\ conn' = [conn EXCEPT ![i] = c]
  OBVIOUS
<1>2. c \in ConnType /\ c.owner = conn[i].owner /\ Alike(c, conn[i])
  BY <1>1 DEF ConnType, Alike
<1> HIDE DEF c
<1>3. Frame({i}) /\ DOMAIN conn' = DOMAIN conn /\ conn'[i] = c
  BY <1>1, <1>2, Edited
<1> QED BY <1>2, <1>3 DEF Frame

LEMMA SetOpen ==
  ASSUME NEW s \in Seq(ConnType), NEW i \in DOMAIN s
  PROVE  LET r == [s EXCEPT ![i].open = FALSE] IN
         /\ r \in Seq(ConnType) /\ DOMAIN r = DOMAIN s /\ Len(r) = Len(s)
         /\ \A j \in DOMAIN s : j # i => r[j] = s[j]
         /\ ~ r[i].open /\ r[i].s2c = s[i].s2c /\ r[i].at = s[i].at
         /\ r[i].c2s = s[i].c2s /\ r[i].state = s[i].state /\ r[i].owner = s[i].owner
<1> DEFINE c == [s[i] EXCEPT !.open = FALSE]
           r == [s EXCEPT ![i].open = FALSE]
<1>1. s[i] \in ConnType /\ r = [s EXCEPT ![i] = c]
  OBVIOUS
<1>2. /\ c \in ConnType /\ c.owner = s[i].owner /\ c.state = s[i].state /\ c.s2c = s[i].s2c
      /\ c.at = s[i].at /\ c.c2s = s[i].c2s /\ ~ c.open
  BY <1>1 DEF ConnType
<1> HIDE DEF c, r
<1>3. r \in Seq(ConnType) /\ DOMAIN r = DOMAIN s /\ Len(r) = Len(s) /\ r[i] = c
      /\ \A j \in DOMAIN s : j # i => r[j] = s[j]
  BY <1>1, <1>2
<1> QED BY <1>2, <1>3 DEF r

\* make_connect adds a connection with a number of its own.
LEMMA Connected ==
  ASSUME NEW s \in Seq(ConnType), NEW o \in Owners, NEW p \in Int
  PROVE  LET n == Len(s) + 1
             r == Append(s, NewConn(o, "backlog", p)) IN
         /\ n \notin DOMAIN s /\ r \in Seq(ConnType) /\ DOMAIN r = DOMAIN s \cup {n}
         /\ \A j \in DOMAIN s : r[j] = s[j]
         /\ r[n].owner = o /\ r[n].state = "backlog" /\ r[n].at = p /\ r[n].open
         /\ r[n].c2s = << >> /\ r[n].s2c = << >>
<1> DEFINE n == Len(s) + 1
           c == NewConn(o, "backlog", p)
           r == Append(s, c)
<1>1. /\ c \in ConnType /\ c.owner = o /\ c.state = "backlog" /\ c.at = p /\ c.open
      /\ c.c2s = << >> /\ c.s2c = << >>
  BY DEF NewConn, ConnType, States
<1> HIDE DEF c
<1>2. /\ n \notin DOMAIN s /\ r \in Seq(ConnType) /\ r[n] = c
      /\ \A j \in DOMAIN s : r[j] = s[j]
  BY <1>1
<1>3. DOMAIN r = DOMAIN s \cup {n}
  <2>1. DOMAIN s = 1 .. Len(s) /\ DOMAIN r = 1 .. Len(s) + 1 /\ Len(s) \in Nat
    BY <1>1
  <2> QED BY <2>1
<1> HIDE DEF r, n
<1> QED BY <1>1, <1>2, <1>3 DEF r, n, c

-----------------------------------------------------------------------------
LEMMA OwnerFacts ==
  /\ Main \in Owners /\ Main \notin Tasks /\ 1 \in Tasks
  /\ \A k \in Tasks : k \in Owners /\ k # Main
  /\ \A o \in Owners : o # Main => o \in Tasks
<1>1. K \in Nat /\ K >= 1
  BY ReconnectAssumption
<1> QED BY <1>1 DEF Main, Owners, Tasks

\* The socket of each connection belongs to its owner.
LEMMA SockFacts ==
  ASSUME Typed
  PROVE  /\ conn \in Seq(ConnType) /\ \A i \in DOMAIN conn : conn[i] \in ConnType
         /\ sock[Main] \in DOMAIN conn /\ conn[sock[Main]].owner = Main
         /\ ssock \in DOMAIN conn /\ conn[ssock].owner = Main
         /\ conn[ssock].state = "session" /\ old \in DOMAIN conn /\ conn[old].owner = Main
         /\ \A k \in Tasks : sock[k] \in DOMAIN conn /\ conn[sock[k]].owner = k
         /\ \A k \in Tasks : tsock[k] \in DOMAIN conn /\ conn[tsock[k]].owner = k
<1>1. conn \in Seq(ConnType) /\ \A i \in DOMAIN conn : conn[i] \in ConnType
  BY DEF Typed
<1> QED BY <1>1, OwnerFacts DEF Typed, SocketsRight

\* What a step that leaves the sockets alone keeps.
LEMMA SocketsKept ==
  ASSUME Typed, NEW S, Frame(S), conn'[ssock].state = "session",
         UNCHANGED << ssock, tsock, sock, old >>
  PROVE  conn' \in Seq(ConnType) /\ SocketsRight'
BY DEF Typed, SocketsRight, Frame

\* The command stays where it is.
LEMMA TokensKept ==
  ASSUME UNCHANGED << session, req, cmd >>, sock'[Main] = sock[Main],
         conn'[sock[Main]].s2c = conn[sock[Main]].s2c,
         conn'[sock[Main]].c2s = conn[sock[Main]].c2s,
         conn[sock[Main]].state \notin {"backlog", "reset"} =>
            conn'[sock[Main]].state \notin {"backlog", "reset"},
         \A i \in Live' : conn'[i].c2s = << >> \/ (i \in Live /\ conn'[i].c2s = conn[i].c2s)
  PROVE  /\ Quiet => Quiet'
         /\ Sent => Sent'
         /\ Handled => Handled'
         /\ Answered => Answered'
<1>1. Quiet => Quiet'
  BY DEF Quiet
<1>2. Sent => Sent'
  BY DEF Sent
<1>3. Reached => Reached'
  BY DEF Reached
<1> QED BY <1>1, <1>2, <1>3 DEF Handled, Answered

\* A step after which the command is where it was.
LEMMA TokensFrame ==
  ASSUME Tokens, Quiet => Quiet', Sent => Sent', Handled => Handled', Answered => Answered',
         gaveup' = gaveup, mpc' = mpc \/ (mpc # "wait" /\ mpc' # "mismatch" /\ mpc # "aborted")
  PROVE  Tokens'
BY DEF Tokens

\* A step that touches connections of others only.
LEMMA MainTokens ==
  ASSUME Typed, Tokens, NEW S, Frame(S),
         UNCHANGED << session, req, cmd, gaveup >>, sock'[Main] = sock[Main],
         mpc' = mpc \/ (mpc # "wait" /\ mpc' # "mismatch" /\ mpc # "aborted"),
         \A i \in S : i \in DOMAIN conn' => conn'[i].owner # Main
  PROVE  Tokens'
<1>1. sock[Main] \in DOMAIN conn /\ conn[sock[Main]].owner = Main
  BY SockFacts
<1>2. sock[Main] \notin S
  BY <1>1 DEF Frame
<1>3. Alike(conn'[sock[Main]], conn[sock[Main]])
  BY <1>1, <1>2 DEF Frame
<1>4. \A i \in Live' : i \in Live /\ conn'[i].c2s = conn[i].c2s
  BY DEF Live, Frame, Alike
<1> QED BY <1>3, <1>4, TokensKept, TokensFrame DEF Alike

LEMMA TaskFrame ==
  ASSUME Typed, NEW k \in Tasks, NEW S, Frame(S), TaskQuick(k),
         \A i \in S : i \in DOMAIN conn' => conn'[i].owner # k,
         sock'[k] = sock[k], tsock'[k] = tsock[k], tpc'[k] = tpc[k], port'[k] = port[k],
         sport' = sport, k \in notify' => k \in notify
  PROVE  TaskQuick(k)'
<1>1. k \in Owners /\ sock[k] \in DOMAIN conn /\ conn[sock[k]].owner = k
  BY OwnerFacts, SockFacts
<1>2. Alike(conn'[sock[k]], conn[sock[k]])
  BY <1>1 DEF Frame
<1>3. \A i \in DOMAIN conn' : conn'[i].owner = k =>
        i \in DOMAIN conn /\ Alike(conn'[i], conn[i])
  BY DEF Frame
<1> QED BY <1>2, <1>3 DEF TaskQuick, UnderWay, Alike

LEMMA MainFrame ==
  ASSUME Typed, NEW S, Frame(S), MainQuick,
         \A i \in S : i \in DOMAIN conn' => conn'[i].owner # Main,
         sock'[Main] = sock[Main], ssock' = ssock, old' = old, last'[Main] = last[Main],
         sport' = sport, mpc' = mpc \/ (mpc # "close" /\ mpc' # "close")
  PROVE  MainQuick'
<1>1. Main \in Owners /\ sock[Main] \in DOMAIN conn /\ conn[sock[Main]].owner = Main
      /\ ssock \in DOMAIN conn /\ conn[ssock].owner = Main
  BY OwnerFacts, SockFacts
<1>2. Alike(conn'[sock[Main]], conn[sock[Main]]) /\ Alike(conn'[ssock], conn[ssock])
  BY <1>1 DEF Frame
<1>3. \A i \in DOMAIN conn' : conn'[i].owner = Main =>
        i \in DOMAIN conn /\ Alike(conn'[i], conn[i])
  BY DEF Frame
<1> QED BY <1>2, <1>3 DEF MainQuick, UnderWay, Alike

LEMMA PortFrame ==
  ASSUME PortQuick, UNCHANGED << sport, need, notify >>,
         port'[Main] = port[Main], last'[Main] = last[Main],
         mpc' = mpc \/ mpc' \notin {"connect", "close", "clear"},
         \A k \in Tasks : conn'[sock'[k]].s2c = conn[sock[k]].s2c
  PROVE  PortQuick'
BY DEF PortQuick, Told

LEMMA StatesFrame ==
  ASSUME StatesQuick, NEW S, Frame(S),
         \A i \in S : i \in DOMAIN conn' => conn'[i].state \notin {"reset", "orphan"}
  PROVE  StatesQuick'
BY DEF StatesQuick, Frame, Alike

-----------------------------------------------------------------------------
\* The server moves to its next port.  In a quick schedule nobody waits to be
\* accepted and every handler is ready to be told.
LEMMA port_updateKeeps ==
  ASSUME IInv, Up, port_update PROVE IInv'
<1> DEFINE c(i) == IF conn[i].state = "backlog" THEN [conn[i] EXCEPT !.state = "reset"]
                                               ELSE conn[i]
<1>1. Typed /\ Tokens /\ Quick
  BY DEF IInv
<1>2. conn' = [i \in DOMAIN conn |-> c(i)] /\ UNCHANGED << ssock, tsock, session, req, client, quick >>
  BY DEF port_update
<1>3. ASSUME NEW i \in DOMAIN conn
      PROVE  /\ c(i) \in ConnType /\ c(i).owner = conn[i].owner /\ c(i).c2s = conn[i].c2s
             /\ c(i).s2c = conn[i].s2c /\ c(i).open = conn[i].open /\ c(i).at = conn[i].at
             /\ c(i).state # "reset" => c(i).state = conn[i].state
             /\ conn[i].state # "backlog" => c(i) = conn[i]
  <2>1. conn[i] \in ConnType
    BY <1>1, SockFacts
  <2> QED BY <2>1 DEF ConnType, States
<1> HIDE DEF c
<1>4. conn' \in Seq(ConnType) /\ DOMAIN conn' = DOMAIN conn /\ \A i \in DOMAIN conn : conn'[i] = c(i)
  <2>1. conn \in Seq(ConnType)
    BY <1>1 DEF Typed
  <2>2. DOMAIN conn = 1 .. Len(conn) /\ Len(conn) \in Nat
    BY <2>1
  <2> QED BY <1>2, <1>3, <2>2
<1>5. Frame(DOMAIN conn)
  BY <1>3, <1>4 DEF Frame
<1>6. Typed'
  <2>1. conn'[ssock].state = "session" /\ UNCHANGED << ssock, tsock, sock, old >>
    BY <1>1, <1>2, <1>3, <1>4, SockFacts DEF client
  <2>2. conn' \in Seq(ConnType) /\ SocketsRight'
    BY <1>1, <1>5, <2>1, SocketsKept
  <2> QED BY <1>1, <1>2, <2>2 DEF Typed, port_update, client
<1>7. Tokens'
  <2>1. sock[Main] \in DOMAIN conn
    BY <1>1, SockFacts
  <2>2. /\ conn'[sock[Main]].s2c = conn[sock[Main]].s2c
        /\ conn'[sock[Main]].c2s = conn[sock[Main]].c2s
        /\ conn[sock[Main]].state \notin {"backlog", "reset"} =>
              conn'[sock[Main]].state \notin {"backlog", "reset"}
    BY <1>3, <1>4, <2>1
  <2>3. \A i \in Live' : i \in Live /\ conn'[i].c2s = conn[i].c2s
    BY <1>3, <1>4 DEF Live
  <2> QED BY <1>1, <1>2, <2>2, <2>3, TokensKept, TokensFrame DEF client
<1>8. Quick'
  <2> SUFFICES ASSUME quick
               PROVE  /\ session' # "ended" /\ Up' /\ StatesQuick'
                      /\ \A k \in Tasks : TaskQuick(k)'
                      /\ MainQuick' /\ PortQuick'
    BY <1>2 DEF Quick
  <2>1. Settled /\ session # "ended" /\ Up /\ MainQuick /\ PortQuick /\ StatesQuick
        /\ \A k \in Tasks : TaskQuick(k)
    BY <1>1 DEF Quick, port_update
  <2>2. \A i \in DOMAIN conn : conn'[i] = conn[i] /\ ~ UnderWay(i)
    BY <1>3, <1>4, <2>1 DEF Settled, UnderWay
  <2>3. notify' = Tasks /\ sport' = sport + 1
    BY <2>1 DEF port_update
  <2>4. session' # "ended" /\ Up' /\ StatesQuick'
    BY <1>2, <1>4, <2>1, <2>2 DEF Up, client, StatesQuick
  <2>5. ASSUME NEW k \in Tasks PROVE TaskQuick(k)'
    <3>1. sock[k] \in DOMAIN conn
      BY <1>1, SockFacts
    <3>2. tpc[k] = "recv" /\ conn[sock[k]].s2c = << >> /\ conn[sock[k]].open /\ tsock[k] = sock[k]
      BY <2>1, <2>2, <3>1 DEF Settled, Told, TaskQuick
    <3> QED BY <1>2, <1>4, <2>2, <2>3, <3>1, <3>2 DEF TaskQuick, UnderWay, client
  <2>6. mpc \notin {"check", "connect", "close", "clear"}
    BY <2>1 DEF Settled, Reconnecting
  <2>7. MainQuick'
    <3>1. sock[Main] \in DOMAIN conn /\ ssock \in DOMAIN conn
      BY <1>1, SockFacts
    <3> QED BY <1>2, <1>4, <2>1, <2>2, <2>6, <3>1 DEF MainQuick, UnderWay, client
  <2>8. PortQuick'
    BY <1>2, <2>1, <2>3, <2>6 DEF PortQuick, client
  <2> QED BY <2>4, <2>5, <2>7, <2>8
<1> QED BY <1>6, <1>7, <1>8 DEF IInv

\* One task connection is told of the port.
LEMMA notifyKeeps ==
  ASSUME IInv, Up, NEW k \in Tasks, notify_client_after_updating(k) PROVE IInv'
<1>1. Typed /\ Tokens /\ Quick
  BY DEF IInv
<1> DEFINE i == tsock[k]
<1>2. i \in DOMAIN conn /\ conn[i].owner = k /\ i # ssock /\ i # sock[Main] /\ k # Main
  BY <1>1, SockFacts, OwnerFacts
<1>3. /\ k \in notify /\ notify' = notify \ {k} /\ ServerSends(i, sport)
      /\ UNCHANGED << sport, ssock, tsock, req, client, quick >>
  BY DEF notify_client_after_updating
<1> HIDE DEF i
<1>4. CASE session' = "aborted" /\ UNCHANGED conn /\ ~ conn[i].open
  <2>1. Typed'
    BY <1>1, <1>3, <1>4 DEF Typed, SocketsRight, client
  <2>2. Tokens'
    <3>1. (Quiet => Quiet') /\ (Sent => Sent') /\ (Handled => Quiet') /\ (Answered => Answered')
      BY <1>3, <1>4 DEF client, Quiet, Sent, Handled, Answered, Reached, Live
    <3> QED BY <1>1, <1>3, <3>1 DEF Tokens, client
  <2>3. Quick'
    <3>1. ~ quick
      BY <1>1, <1>3, <1>4 DEF Quick, TaskQuick, i
    <3> QED BY <1>3, <3>1 DEF Quick
  <2> QED BY <2>1, <2>2, <2>3 DEF IInv
<1>5. CASE conn' = [conn EXCEPT ![i].s2c = Append(@, sport)] /\ session' = session
  <2>1. conn[i].s2c \in Seq(Int) /\ Append(conn[i].s2c, sport) \in Seq(Int)
    <3>1. conn[i].s2c \in Seq(Int) /\ sport \in Int
      BY <1>1, <1>2, SockFacts, ConnFacts DEF Typed
    <3> QED BY <3>1
  <2>2. /\ Frame({i}) /\ DOMAIN conn' = DOMAIN conn
        /\ conn'[i].s2c = Append(conn[i].s2c, sport) /\ conn'[i].c2s = conn[i].c2s
        /\ conn'[i].state = conn[i].state /\ conn'[i].open = conn[i].open
        /\ conn'[i].owner = k
    <3>1. conn \in Seq(ConnType)
      BY <1>1 DEF Typed
    <3>2. conn'[i].owner = conn[i].owner
      BY <1>2, <1>5, <2>1, <3>1, SetS2C DEF Frame
    <3> QED BY <1>2, <1>5, <2>1, <3>1, <3>2, SetS2C
  <2>3. Typed'
    <3>1. conn'[ssock].state = "session"
      BY <1>1, <1>2, <2>2, SockFacts DEF Frame, Alike
    <3>2. conn' \in Seq(ConnType) /\ SocketsRight'
      BY <1>1, <1>3, <2>2, <3>1, SocketsKept DEF client
    <3> QED BY <1>1, <1>3, <1>5, <3>2 DEF Typed, client
  <2>4. Tokens'
    BY <1>1, <1>2, <1>3, <1>5, <2>2, MainTokens DEF client
  <2>5. Quick'
    <3> SUFFICES ASSUME quick
                 PROVE  /\ session' # "ended" /\ Up' /\ StatesQuick'
                        /\ \A j \in Tasks : TaskQuick(j)'
                        /\ MainQuick' /\ PortQuick'
      BY <1>3 DEF Quick
    <3>1. session # "ended" /\ Up /\ MainQuick /\ PortQuick /\ StatesQuick
          /\ \A j \in Tasks : TaskQuick(j)
      BY <1>1 DEF Quick
    <3>2. session' # "ended" /\ Up'
      BY <1>3, <1>5, <3>1 DEF Up, client
    <3>3. StatesQuick'
      BY <1>2, <2>2, <3>1, StatesFrame DEF StatesQuick
    <3>4. ASSUME NEW j \in Tasks, j # k PROVE TaskQuick(j)'
      BY <1>1, <1>3, <2>2, <3>1, <3>4, TaskFrame DEF client
    <3>5. /\ i = sock[k] /\ tpc[k] = "recv" /\ conn[i].s2c = << >> /\ ~ UnderWay(i)
      BY <1>3, <3>1 DEF TaskQuick, i
    <3>6. conn'[i].s2c = << sport >>
      BY <2>2, <3>5
    <3>7. TaskQuick(k)'
      <4>1. \A j \in DOMAIN conn : conn'[j].owner = k /\ UnderWay(j)' => j = i
        BY <1>2, <2>2, <3>1, <3>5 DEF TaskQuick, Frame, Alike, UnderWay
      <4> QED BY <1>3, <2>2, <3>1, <3>5, <3>6, <4>1 DEF TaskQuick, UnderWay, i, client
    <3>8. MainQuick'
      BY <1>1, <1>2, <1>3, <2>2, <3>1, MainFrame DEF client
    <3>9. PortQuick'
      <4>1. \A j \in Tasks : j # k => conn'[sock[j]].s2c = conn[sock[j]].s2c
        <5>1. \A j \in Tasks : j # k => sock[j] \in DOMAIN conn /\ sock[j] # i
          BY <1>1, <1>2, SockFacts
        <5> QED BY <2>2, <5>1 DEF Frame, Alike
      <4>2. << sport >> # << >>
        OBVIOUS
      <4> QED BY <1>3, <3>1, <3>5, <3>6, <4>1, <4>2 DEF PortQuick, Told, client
    <3> QED BY <3>2, <3>3, <3>4, <3>7, <3>8, <3>9
  <2> QED BY <2>3, <2>4, <2>5 DEF IInv
<1> QED BY <1>2, <1>3, <1>4, <1>5 DEF ServerSends

\* The accept loop takes a connection.
LEMMA acceptKeeps ==
  ASSUME IInv, Up, NEW i \in DOMAIN conn, second_channel_accept(i) PROVE IInv'
<1>1. Typed /\ Tokens /\ Quick
  BY DEF IInv
<1>2. /\ conn[i].state = "backlog" /\ conn' = [conn EXCEPT ![i].state = "accepted"]
      /\ UNCHANGED << server, client, quick >>
  BY DEF second_channel_accept
<1>3. /\ Frame({i}) /\ DOMAIN conn' = DOMAIN conn /\ conn'[i].state = "accepted"
      /\ conn'[i].s2c = conn[i].s2c /\ conn'[i].c2s = conn[i].c2s
      /\ conn'[i].open = conn[i].open /\ conn'[i].at = conn[i].at
  <2>1. "accepted" \in States /\ conn \in Seq(ConnType)
    BY <1>1 DEF Typed, States
  <2> QED BY <1>2, <2>1, SetState
<1>4. \A j \in DOMAIN conn :
        /\ conn'[j].owner = conn[j].owner /\ conn'[j].s2c = conn[j].s2c
        /\ conn'[j].c2s = conn[j].c2s /\ conn'[j].open = conn[j].open
        /\ conn'[j].at = conn[j].at /\ (UnderWay(j)' <=> UnderWay(j))
        /\ (conn'[j].state = "reset" <=> conn[j].state = "reset")
        /\ (conn'[j].state = "orphan" <=> conn[j].state = "orphan")
        /\ (conn[j].state \notin {"backlog", "reset"} => conn'[j].state \notin {"backlog", "reset"})
  BY <1>2, <1>3 DEF Frame, Alike, UnderWay
<1>5. Typed'
  <2>1. conn'[ssock].state = "session"
    BY <1>1, <1>2, <1>3, SockFacts DEF Frame, Alike
  <2>2. conn' \in Seq(ConnType) /\ SocketsRight'
    BY <1>1, <1>2, <1>3, <2>1, SocketsKept DEF client, server
  <2> QED BY <1>1, <1>2, <2>2 DEF Typed, client, server
<1>6. Tokens'
  <2>1. sock[Main] \in DOMAIN conn
    BY <1>1, SockFacts
  <2>2. \A j \in Live' : j \in Live /\ conn'[j].c2s = conn[j].c2s
    BY <1>3, <1>4 DEF Live
  <2> QED BY <1>1, <1>2, <1>4, <2>1, <2>2, TokensKept, TokensFrame DEF client, server
<1>7. Quick'
  <2> SUFFICES ASSUME quick
               PROVE  /\ session' # "ended" /\ Up' /\ StatesQuick'
                      /\ \A j \in Tasks : TaskQuick(j)'
                      /\ MainQuick' /\ PortQuick'
    BY <1>2 DEF Quick
  <2>1. session # "ended" /\ Up /\ MainQuick /\ PortQuick /\ StatesQuick
        /\ \A j \in Tasks : TaskQuick(j)
    BY <1>1 DEF Quick
  <2>2. session' # "ended" /\ Up' /\ StatesQuick'
    BY <1>2, <1>3, <1>4, <2>1 DEF Up, client, server, StatesQuick
  <2>3. ASSUME NEW k \in Tasks PROVE TaskQuick(k)'
    <3>1. sock[k] \in DOMAIN conn
      BY <1>1, SockFacts
    <3> QED BY <1>2, <1>3, <1>4, <2>1, <3>1 DEF TaskQuick, client, server
  <2>4. MainQuick'
    <3>1. sock[Main] \in DOMAIN conn /\ ssock \in DOMAIN conn
      BY <1>1, SockFacts
    <3> QED BY <1>2, <1>3, <1>4, <2>1, <3>1 DEF MainQuick, client, server
  <2>5. PortQuick'
    <3>1. \A k \in Tasks : conn'[sock[k]].s2c = conn[sock[k]].s2c
      BY <1>1, <1>4, SockFacts
    <3> QED BY <1>2, <2>1, <3>1, PortFrame DEF client, server
  <2> QED BY <2>2, <2>3, <2>4, <2>5
<1> QED BY <1>5, <1>6, <1>7 DEF IInv

\* The handler of a new connection gives it to the session.  In a quick
\* schedule it is the newest socket of its owner.
LEMMA handle_reconnectKeeps ==
  ASSUME IInv, Up, NEW i \in DOMAIN conn, handle_reconnect_req(i) PROVE IInv'
<1>1. Typed /\ Tokens /\ Quick
  BY DEF IInv
<1> DEFINE o == conn[i].owner
           v == IF session = "ended" THEN "orphan" ELSE "session"
<1>2. /\ conn[i].state = "accepted" /\ conn' = [conn EXCEPT ![i].state = v]
      /\ UNCHANGED << sport, notify, session, req, client, quick >>
  BY DEF handle_reconnect_req
<1>3. /\ ssock' = IF session # "ended" /\ o = Main THEN i ELSE ssock
      /\ tsock' = IF session # "ended" /\ o # Main THEN [tsock EXCEPT ![o] = i] ELSE tsock
  BY DEF handle_reconnect_req
<1>4. /\ Frame({i}) /\ DOMAIN conn' = DOMAIN conn /\ conn'[i].state = v
      /\ conn'[i].s2c = conn[i].s2c /\ conn'[i].c2s = conn[i].c2s
      /\ conn'[i].open = conn[i].open /\ conn'[i].at = conn[i].at
  <2>1. v \in States /\ conn \in Seq(ConnType)
    BY <1>1 DEF Typed, States
  <2> HIDE DEF v
  <2> QED BY <1>2, <2>1, SetState
<1>5. o \in Owners /\ (o = Main \/ o \in Tasks)
  BY <1>1, SockFacts, ConnFacts, OwnerFacts
<1>6. \A j \in DOMAIN conn :
        /\ conn'[j].owner = conn[j].owner /\ conn'[j].s2c = conn[j].s2c
        /\ conn'[j].c2s = conn[j].c2s /\ conn'[j].open = conn[j].open
        /\ conn'[j].at = conn[j].at /\ (UnderWay(j)' <=> UnderWay(j) /\ j # i)
        /\ (conn'[j].state = "reset" <=> conn[j].state = "reset")
        /\ (conn[j].state \notin {"backlog", "reset"} => conn'[j].state \notin {"backlog", "reset"})
  BY <1>2, <1>4 DEF Frame, Alike, UnderWay
<1>7. Typed'
  <2>1. ssock' \in DOMAIN conn' /\ conn'[ssock'].owner = Main /\ conn'[ssock'].state = "session"
    <3>1. CASE session # "ended" /\ o = Main
      BY <1>3, <1>4, <1>6, <3>1
    <3>2. CASE ~ (session # "ended" /\ o = Main)
      <4>1. ssock # i
        BY <1>1, <1>2, SockFacts
      <4> QED BY <1>1, <1>3, <1>4, <3>2, <4>1, SockFacts DEF Frame, Alike
    <3> QED BY <3>1, <3>2
  <2>2. tsock' \in [Tasks -> DOMAIN conn'] /\ \A k \in Tasks : conn'[tsock'[k]].owner = k
    <3>1. tsock \in [Tasks -> DOMAIN conn] /\ \A k \in Tasks : conn[tsock[k]].owner = k
      BY <1>1 DEF Typed, SocketsRight
    <3>2. tsock' \in [Tasks -> DOMAIN conn]
      BY <1>3, <3>1
    <3>3. ASSUME NEW k \in Tasks PROVE conn'[tsock'[k]].owner = k
      BY <1>3, <1>5, <1>6, <3>1
    <3> QED BY <1>4, <3>2, <3>3
  <2>3. SocketsRight'
    BY <1>1, <1>2, <1>4, <1>6, <2>1, <2>2 DEF Typed, SocketsRight, client
  <2>4. conn' \in Seq(ConnType)
    BY <1>4 DEF Frame
  <2> QED BY <1>1, <1>2, <2>3, <2>4 DEF Typed, client
<1>8. Tokens'
  <2>1. sock[Main] \in DOMAIN conn
    BY <1>1, SockFacts
  <2>2. \A j \in Live' : j \in Live /\ conn'[j].c2s = conn[j].c2s
    BY <1>4, <1>6 DEF Live
  <2> QED BY <1>1, <1>2, <1>6, <2>1, <2>2, TokensKept, TokensFrame DEF client
<1>9. Quick'
  <2> SUFFICES ASSUME quick
               PROVE  /\ session' # "ended" /\ Up' /\ StatesQuick'
                      /\ \A j \in Tasks : TaskQuick(j)'
                      /\ MainQuick' /\ PortQuick'
    BY <1>2 DEF Quick
  <2>1. session # "ended" /\ Up /\ MainQuick /\ PortQuick /\ StatesQuick
        /\ \A j \in Tasks : TaskQuick(j)
    BY <1>1 DEF Quick
  <2>2. session' # "ended" /\ Up'
    BY <1>2, <2>1 DEF Up, client
  <2>3. StatesQuick'
    BY <1>2, <1>4, <2>1, StatesFrame DEF StatesQuick
  <2>4. UnderWay(i)
    BY <1>2 DEF UnderWay
  <2>5. ASSUME NEW k \in Tasks PROVE TaskQuick(k)'
    <3>1. sock[k] \in DOMAIN conn /\ conn[sock[k]].owner = k
      BY <1>1, SockFacts
    <3>2. tsock'[k] = IF o = k THEN i ELSE tsock[k]
      BY <1>1, <1>3, <2>1, OwnerFacts DEF Typed, SocketsRight
    <3>3. o = k => i = sock[k]
      BY <2>1, <2>4 DEF TaskQuick
    <3>4. sock'[k] = sock[k] /\ (UnderWay(sock[k])' => UnderWay(sock[k]))
      BY <1>2, <1>6, <3>1 DEF client
    <3>5. UnderWay(sock[k])' \/ tsock'[k] = sock[k]
      BY <1>6, <2>1, <3>1, <3>2, <3>3, <3>4 DEF TaskQuick
    <3>6. \A j \in DOMAIN conn' : conn'[j].owner = k /\ UnderWay(j)' => j = sock[k]
      BY <1>4, <1>6, <2>1 DEF TaskQuick
    <3> QED BY <1>2, <1>4, <1>6, <2>1, <3>1, <3>4, <3>5, <3>6 DEF TaskQuick, client
  <2>6. MainQuick'
    <3>1. sock[Main] \in DOMAIN conn /\ ssock \in DOMAIN conn /\ conn[sock[Main]].owner = Main
      BY <1>1, SockFacts
    <3>2. o = Main => i = sock[Main]
      BY <2>1, <2>4 DEF MainQuick
    <3>3. UnderWay(sock[Main])' \/ ssock' = sock[Main]
      <4>1. sock'[Main] = sock[Main]
        BY <1>2 DEF client
      <4> QED BY <1>3, <1>6, <2>1, <3>1, <3>2, <4>1 DEF MainQuick
    <3>4. conn'[ssock'].open
      BY <1>3, <1>6, <2>1, <3>1, <3>2 DEF MainQuick
    <3>5. sock'[Main] = sock[Main] /\ (UnderWay(sock[Main])' => UnderWay(sock[Main]))
      BY <1>2, <1>6, <3>1 DEF client
    <3>6. \A j \in DOMAIN conn' : conn'[j].owner = Main /\ UnderWay(j)' => j = sock[Main]
      BY <1>4, <1>6, <2>1 DEF MainQuick
    <3> QED BY <1>2, <1>6, <2>1, <3>1, <3>3, <3>4, <3>5, <3>6 DEF MainQuick, client
  <2>7. PortQuick'
    <3>1. \A k \in Tasks : conn'[sock[k]].s2c = conn[sock[k]].s2c
      BY <1>1, <1>6, SockFacts
    <3> QED BY <1>2, <2>1, <3>1, PortFrame DEF client
  <2> QED BY <2>2, <2>3, <2>5, <2>6, <2>7
<1> QED BY <1>7, <1>8, <1>9 DEF IInv

\* The session handler reads a command: it is the one the client waits for.
LEMMA session_recvKeeps ==
  ASSUME IInv, Up, session_recv PROVE IInv'
<1>1. Typed /\ Tokens /\ Quick
  BY DEF IInv
<1> DEFINE q == conn[ssock].c2s
<1>2. /\ session = "recv" /\ q # << >> /\ req' = Head(q) /\ session' = "handle"
      /\ conn' = [conn EXCEPT ![ssock].c2s = Tail(q)]
      /\ UNCHANGED << sport, notify, ssock, tsock, client, quick >>
  BY DEF session_recv
<1>3. q \in Seq(Int) /\ Tail(q) \in Seq(Int) /\ Head(q) \in Int
  <2>1. q \in Seq(Int)
    BY <1>1, SockFacts, ConnFacts
  <2> HIDE DEF q
  <2> QED BY <1>2, <2>1
<1> HIDE DEF q
<1>4. /\ Frame({ssock}) /\ DOMAIN conn' = DOMAIN conn
      /\ conn'[ssock].c2s = Tail(q) /\ conn'[ssock].s2c = conn[ssock].s2c
      /\ conn'[ssock].state = conn[ssock].state /\ conn'[ssock].open = conn[ssock].open
      /\ conn'[ssock].at = conn[ssock].at
  <2>1. conn \in Seq(ConnType) /\ ssock \in DOMAIN conn
    BY <1>1, SockFacts
  <2>2. PICK v \in Seq(Int) : v = Tail(q)
    BY <1>3
  <2>3. conn' = [conn EXCEPT ![ssock].c2s = v]
    BY <1>2, <2>2
  <2> QED BY <2>1, <2>2, <2>3, SetC2S
<1>5. \A j \in DOMAIN conn :
        /\ conn'[j].owner = conn[j].owner /\ conn'[j].s2c = conn[j].s2c
        /\ conn'[j].open = conn[j].open /\ conn'[j].at = conn[j].at
        /\ conn'[j].state = conn[j].state
        /\ j # ssock => conn'[j].c2s = conn[j].c2s
  BY <1>4 DEF Frame, Alike
<1>6. Typed'
  <2>1. conn'[ssock].state = "session"
    BY <1>1, <1>4, SockFacts
  <2>2. conn' \in Seq(ConnType) /\ SocketsRight'
    BY <1>1, <1>2, <1>4, <2>1, SocketsKept DEF client
  <2> QED BY <1>1, <1>2, <1>3, <2>2 DEF Typed, client
<1>7. Tokens'
  <2> SUFFICES ASSUME ~ gaveup
               PROVE  /\ mpc' # "mismatch" /\ (mpc' \notin {"wait", "aborted"} => Quiet')
                      /\ (mpc' = "wait" => Quiet' \/ Sent' \/ Handled' \/ Answered')
    BY <1>2 DEF Tokens, client
  <2>1. ssock \in Live /\ conn[ssock].c2s # << >> /\ conn[ssock].state = "session"
    BY <1>1, <1>2, SockFacts DEF Live, q
  <2>2. mpc = "wait" /\ Sent
    BY <1>1, <1>2, <2>1 DEF Tokens, Quiet, Handled, Answered, Reached, Up
  <2>3. ssock = sock[Main] /\ q = << cmd >>
    BY <2>1, <2>2 DEF Sent, q
  <2>4. Head(q) = cmd /\ Tail(q) = << >>
    BY <2>3
  <2>5. Live' = Live
    BY <1>4, <1>5 DEF Live
  <2>6. \A j \in Live : conn'[j].c2s = << >>
    BY <1>4, <1>5, <2>2, <2>3, <2>4 DEF Sent, Live
  <2>7. Handled'
    BY <1>2, <1>4, <1>5, <2>1, <2>2, <2>3, <2>4, <2>5, <2>6 DEF Handled, Reached, Sent, client
  <2> QED BY <1>2, <2>2, <2>7 DEF client
<1>8. Quick'
  <2> SUFFICES ASSUME quick
               PROVE  /\ session' # "ended" /\ Up' /\ StatesQuick'
                      /\ \A j \in Tasks : TaskQuick(j)'
                      /\ MainQuick' /\ PortQuick'
    BY <1>2 DEF Quick
  <2>1. session # "ended" /\ Up /\ MainQuick /\ PortQuick /\ StatesQuick
        /\ \A j \in Tasks : TaskQuick(j)
    BY <1>1 DEF Quick
  <2>2. session' # "ended" /\ Up' /\ StatesQuick'
    BY <1>2, <1>4, <1>5, <2>1 DEF Up, client, StatesQuick
  <2>3. ASSUME NEW k \in Tasks PROVE TaskQuick(k)'
    <3>1. sock[k] \in DOMAIN conn
      BY <1>1, SockFacts
    <3> QED BY <1>2, <1>4, <1>5, <2>1, <3>1 DEF TaskQuick, UnderWay, client
  <2>4. MainQuick'
    <3>1. sock[Main] \in DOMAIN conn /\ ssock \in DOMAIN conn
      BY <1>1, SockFacts
    <3> QED BY <1>2, <1>4, <1>5, <2>1, <3>1 DEF MainQuick, UnderWay, client
  <2>5. PortQuick'
    <3>1. \A k \in Tasks : conn'[sock[k]].s2c = conn[sock[k]].s2c
      BY <1>1, <1>5, SockFacts
    <3> QED BY <1>2, <2>1, <3>1, PortFrame DEF client
  <2> QED BY <2>2, <2>3, <2>4, <2>5
<1> QED BY <1>6, <1>7, <1>8 DEF IInv

\* It answers on the socket the session has by then.
LEMMA session_replyKeeps ==
  ASSUME IInv, Up, session_reply PROVE IInv'
<1>1. Typed /\ Tokens /\ Quick
  BY DEF IInv
<1>2. session = "handle" /\ ServerSends(ssock, req)
      /\ UNCHANGED << sport, notify, ssock, tsock, req, client, quick >>
  BY DEF session_reply
<1>3. CASE session' = "aborted" /\ UNCHANGED conn /\ ~ conn[ssock].open
  <2>1. Typed'
    BY <1>1, <1>2, <1>3 DEF Typed, SocketsRight, client
  <2>2. Tokens'
    <3>1. ~ Quiet /\ ~ Sent /\ ~ Answered /\ (Handled => Quiet')
      BY <1>2, <1>3 DEF client, Quiet, Sent, Handled, Answered, Reached, Live
    <3> QED BY <1>1, <1>2, <3>1 DEF Tokens, client
  <2>3. Quick'
    <3>1. ~ quick
      BY <1>1, <1>3 DEF Quick, MainQuick
    <3> QED BY <1>2, <3>1 DEF Quick
  <2> QED BY <2>1, <2>2, <2>3 DEF IInv
<1>4. CASE conn' = [conn EXCEPT ![ssock].s2c = Append(@, req)] /\ session' = "recv"
  <2>1. conn[ssock].s2c \in Seq(Int) /\ Append(conn[ssock].s2c, req) \in Seq(Int)
    <3>1. conn[ssock].s2c \in Seq(Int) /\ req \in Int
      BY <1>1, SockFacts, ConnFacts DEF Typed
    <3> QED BY <3>1
  <2>2. /\ Frame({ssock}) /\ DOMAIN conn' = DOMAIN conn
        /\ conn'[ssock].s2c = Append(conn[ssock].s2c, req) /\ conn'[ssock].c2s = conn[ssock].c2s
        /\ conn'[ssock].state = conn[ssock].state /\ conn'[ssock].open = conn[ssock].open
        /\ conn'[ssock].at = conn[ssock].at
    <3> DEFINE v == Append(conn[ssock].s2c, req)
    <3>1. conn' = [conn EXCEPT ![ssock].s2c = v] /\ v \in Seq(Int)
      BY <1>4, <2>1
    <3> HIDE DEF v
    <3>2. /\ Frame({ssock}) /\ DOMAIN conn' = DOMAIN conn
          /\ conn'[ssock].s2c = v /\ conn'[ssock].c2s = conn[ssock].c2s
          /\ conn'[ssock].state = conn[ssock].state /\ conn'[ssock].open = conn[ssock].open
          /\ conn'[ssock].at = conn[ssock].at
      BY <1>1, <3>1, SockFacts, SetS2C
    <3> QED BY <3>2 DEF v
  <2>3. \A j \in DOMAIN conn :
          /\ conn'[j].owner = conn[j].owner /\ conn'[j].c2s = conn[j].c2s
          /\ conn'[j].open = conn[j].open /\ conn'[j].at = conn[j].at
          /\ conn'[j].state = conn[j].state
          /\ j # ssock => conn'[j].s2c = conn[j].s2c
    BY <2>2 DEF Frame, Alike
  <2>4. Typed'
    <3>1. conn'[ssock].state = "session"
      BY <1>1, <2>2, SockFacts
    <3>2. conn' \in Seq(ConnType) /\ SocketsRight'
      BY <1>1, <1>2, <2>2, <3>1, SocketsKept DEF client
    <3> QED BY <1>1, <1>2, <1>4, <3>2 DEF Typed, client
  <2>5. Tokens'
    <3> SUFFICES ASSUME ~ gaveup
                 PROVE  /\ mpc' # "mismatch" /\ (mpc' \notin {"wait", "aborted"} => Quiet')
                        /\ (mpc' = "wait" => Quiet' \/ Sent' \/ Handled' \/ Answered')
      BY <1>2 DEF Tokens, client
    <3>1. mpc = "wait" /\ Handled
      BY <1>1, <1>2 DEF Tokens, Quiet, Sent, Answered, Up
    <3>2. sock[Main] \in DOMAIN conn /\ Live' = Live /\ sock' = sock /\ cmd' = cmd
      BY <1>1, <1>2, <2>2, <2>3, SockFacts DEF Live, client
    <3>3. Reached'
      BY <2>3, <3>1, <3>2 DEF Handled, Reached, Live
    <3>4. CASE ssock = sock[Main]
      <4>1. conn'[sock[Main]].s2c = << cmd >>
        BY <2>2, <3>1, <3>4 DEF Handled
      <4>2. Answered'
        BY <1>4, <3>2, <3>3, <4>1 DEF Answered
      <4> QED BY <1>2, <3>1, <4>2 DEF client
    <3>5. CASE ssock # sock[Main]
      <4>1. Quiet'
        BY <1>4, <2>3, <3>1, <3>2, <3>3, <3>5 DEF Quiet, Handled, Reached
      <4> QED BY <1>2, <3>1, <4>1 DEF client
    <3> QED BY <3>4, <3>5
  <2>6. Quick'
    <3> SUFFICES ASSUME quick
                 PROVE  /\ session' # "ended" /\ Up' /\ StatesQuick'
                        /\ \A j \in Tasks : TaskQuick(j)'
                        /\ MainQuick' /\ PortQuick'
      BY <1>2 DEF Quick
    <3>1. session # "ended" /\ Up /\ MainQuick /\ PortQuick /\ StatesQuick
          /\ \A j \in Tasks : TaskQuick(j)
      BY <1>1 DEF Quick
    <3>2. session' # "ended" /\ Up' /\ StatesQuick'
      BY <1>2, <1>4, <2>2, <2>3, <3>1 DEF Up, client, StatesQuick
    <3>3. ASSUME NEW k \in Tasks PROVE TaskQuick(k)' /\ conn'[sock[k]].s2c = conn[sock[k]].s2c
      <4>1. sock[k] \in DOMAIN conn /\ sock[k] # ssock
        BY <1>1, SockFacts, OwnerFacts
      <4> QED BY <1>2, <2>2, <2>3, <3>1, <4>1 DEF TaskQuick, UnderWay, client
    <3>4. MainQuick'
      <4>1. sock[Main] \in DOMAIN conn /\ ssock \in DOMAIN conn
        BY <1>1, SockFacts
      <4> QED BY <1>2, <2>2, <2>3, <3>1, <4>1 DEF MainQuick, UnderWay, client
    <3>5. PortQuick'
      BY <1>2, <3>1, <3>3, PortFrame DEF client
    <3> QED BY <3>2, <3>3, <3>4, <3>5
  <2> QED BY <2>4, <2>5, <2>6 DEF IInv
<1> QED BY <1>2, <1>3, <1>4 DEF ServerSends

\* It sees the end of the connection; in a quick schedule it never does.
LEMMA session_endKeeps ==
  ASSUME IInv, Up, session_end PROVE IInv'
<1>1. Typed /\ Tokens /\ Quick
  BY DEF IInv
<1>2. session = "recv" /\ ~ conn[ssock].open /\ session' = "ended"
      /\ UNCHANGED << conn, sport, notify, ssock, tsock, req, client, quick >>
  BY DEF session_end
<1>3. Typed'
  BY <1>1, <1>2 DEF Typed, SocketsRight, client
<1>4. Tokens'
  <2>1. (Quiet => Quiet') /\ (Sent => Sent') /\ (Handled => Handled') /\ (Answered => Answered')
    BY <1>2 DEF client, Quiet, Sent, Handled, Answered, Reached, Live
  <2> QED BY <1>1, <1>2, <2>1 DEF Tokens, client
<1>5. Quick'
  <2>1. ~ quick
    BY <1>1, <1>2 DEF Quick, MainQuick
  <2> QED BY <1>2, <2>1 DEF Quick
<1> QED BY <1>3, <1>4, <1>5 DEF IInv

-----------------------------------------------------------------------------
\* A task handler reads a port.  In a quick schedule it is the server's.
LEMMA handle_port_updateKeeps ==
  ASSUME IInv, Up, NEW k \in Tasks, handle_port_update_req(k) PROVE IInv'
<1>1. Typed /\ Tokens /\ Quick
  BY DEF IInv
<1> DEFINE i == sock[k]
           q == conn[i].s2c
           p == Head(q)
<1>2. i \in DOMAIN conn /\ conn[i].owner = k /\ i # ssock /\ i # sock[Main] /\ k # Main
      /\ k \in Owners /\ Main \in Owners
  BY <1>1, SockFacts, OwnerFacts
<1>3. /\ tpc[k] = "recv" /\ q # << >>
      /\ port' = [port EXCEPT ![k] = p, ![Main] = p] /\ need' = (need \/ last[Main] # p)
      /\ conn' = [conn EXCEPT ![i].s2c = Tail(q)]
      /\ tpc' = [tpc EXCEPT ![k] = "reconnect"]
      /\ UNCHANGED << server, last, sock, mpc, old, cmd, gaveup, quick >>
  BY DEF handle_port_update_req
<1>4. q \in Seq(Int) /\ Tail(q) \in Seq(Int) /\ p \in Int
  <2>1. q \in Seq(Int)
    BY <1>1, <1>2, SockFacts, ConnFacts
  <2> HIDE DEF q
  <2> QED BY <1>3, <2>1
<1> HIDE DEF i, q, p
<1>5. /\ Frame({i}) /\ DOMAIN conn' = DOMAIN conn /\ conn'[i].s2c = Tail(q)
      /\ conn'[i].state = conn[i].state /\ conn'[i].open = conn[i].open /\ conn'[i].owner = k
  <2>1. conn \in Seq(ConnType)
    BY <1>1 DEF Typed
  <2>2. /\ Frame({i}) /\ DOMAIN conn' = DOMAIN conn /\ conn'[i].s2c = Tail(q)
        /\ conn'[i].state = conn[i].state /\ conn'[i].open = conn[i].open
    BY <1>2, <1>3, <1>4, <2>1, SetS2C
  <2> QED BY <1>2, <2>2 DEF Frame
<1>6. Typed'
  <2>1. conn'[ssock].state = "session"
    BY <1>1, <1>2, <1>5, SockFacts DEF Frame, Alike
  <2>2. conn' \in Seq(ConnType) /\ SocketsRight'
    BY <1>1, <1>3, <1>5, <2>1, SocketsKept DEF server
  <2>3. port' \in [Owners -> Int] /\ need' \in BOOLEAN
        /\ tpc' \in [Tasks -> {"recv", "reconnect", "nonblock", "ended"}]
    BY <1>1, <1>3, <1>4 DEF Typed
  <2> QED BY <1>1, <1>3, <2>2, <2>3 DEF Typed, server
<1>7. Tokens'
  BY <1>1, <1>2, <1>3, <1>5, MainTokens DEF server
<1>8. Quick'
  <2> SUFFICES ASSUME quick
               PROVE  /\ session' # "ended" /\ Up' /\ StatesQuick'
                      /\ \A j \in Tasks : TaskQuick(j)'
                      /\ MainQuick' /\ PortQuick'
    BY <1>3 DEF Quick
  <2>1. session # "ended" /\ Up /\ MainQuick /\ PortQuick /\ StatesQuick
        /\ \A j \in Tasks : TaskQuick(j)
    BY <1>1 DEF Quick
  <2>2. session' # "ended" /\ Up'
    BY <1>3, <2>1 DEF Up, server
  <2>3. StatesQuick'
    BY <1>2, <1>5, <2>1, StatesFrame DEF StatesQuick
  <2>4. q = << sport >> /\ ~ UnderWay(i) /\ k \notin notify /\ conn[i].open /\ tsock[k] = i
    BY <1>3, <2>1 DEF TaskQuick, i, q
  <2>5. p = sport /\ Tail(q) = << >>
    BY <2>4 DEF p
  <2>6. ASSUME NEW j \in Tasks, j # k PROVE TaskQuick(j)'
    <3>1. tpc'[j] = tpc[j] /\ port'[j] = port[j]
      BY <1>1, <1>3, <2>6, OwnerFacts DEF Typed
    <3> QED BY <1>1, <1>3, <1>5, <2>1, <2>6, <3>1, TaskFrame DEF server
  <2>7. TaskQuick(k)'
    <3>1. tpc'[k] = "reconnect" /\ port'[k] = sport
      BY <1>1, <1>2, <1>3, <2>5 DEF Typed
    <3>2. \A j \in DOMAIN conn : conn'[j].owner = k /\ UnderWay(j)' => j = i
      BY <1>5, <2>1 DEF TaskQuick, Frame, Alike, UnderWay, i
    <3> QED BY <1>3, <1>5, <2>4, <2>5, <3>1, <3>2 DEF TaskQuick, UnderWay, i, server
  <2>8. MainQuick'
    BY <1>1, <1>2, <1>3, <1>5, <2>1, MainFrame DEF server
  <2>9. PortQuick'
    <3>1. port'[Main] = sport /\ mpc \notin {"connect", "close", "clear"}
      <4>1. ~ Told
        BY <1>3 DEF Told, i, q
      <4> QED BY <1>1, <1>2, <1>3, <2>1, <2>5, <4>1 DEF Typed, PortQuick
    <3> QED BY <1>3, <2>5, <3>1 DEF PortQuick, server
  <2> QED BY <2>2, <2>3, <2>6, <2>7, <2>8, <2>9
<1> QED BY <1>6, <1>7, <1>8 DEF IInv

\* It makes the connection anew.
LEMMA task_reconnectKeeps ==
  ASSUME IInv, Up, NEW k \in Tasks, task_reconnect(k) PROVE IInv'
<1>1. Typed /\ Tokens /\ Quick
  BY DEF IInv
<1> DEFINE i == sock[k]
           n == Len(conn) + 1
<1>2. i \in DOMAIN conn /\ conn[i].owner = k /\ i # ssock /\ i # sock[Main] /\ k # Main
      /\ k \in Owners /\ Main \in Owners
  BY <1>1, SockFacts, OwnerFacts
<1>3. /\ tpc[k] = "reconnect" /\ last' = [last EXCEPT ![k] = port[k]]
      /\ tpc' = [tpc EXCEPT ![k] = "nonblock"]
      /\ UNCHANGED << server, port, need, mpc, old, cmd, gaveup, quick >>
  BY DEF task_reconnect
<1>4. last' \in [Owners -> Int] /\ last'[Main] = last[Main]
      /\ tpc' \in [Tasks -> {"recv", "reconnect", "nonblock", "ended"}]
      /\ tpc'[k] = "nonblock" /\ \A j \in Tasks : j # k => tpc'[j] = tpc[j]
  BY <1>1, <1>2, <1>3 DEF Typed
<1>5. CASE UNCHANGED << conn, sock >>
  <2>1. Typed'
    BY <1>1, <1>3, <1>4, <1>5 DEF Typed, SocketsRight, server
  <2>2. Frame({})
    BY <1>1, <1>5 DEF Frame, Alike, Typed
  <2>3. Tokens'
    BY <1>1, <1>3, <1>5, <2>2, MainTokens DEF server
  <2>4. Quick'
    <3> SUFFICES ASSUME quick
                 PROVE  /\ session' # "ended" /\ Up' /\ StatesQuick'
                        /\ \A j \in Tasks : TaskQuick(j)'
                        /\ MainQuick' /\ PortQuick'
      BY <1>3 DEF Quick
    <3>1. session # "ended" /\ Up /\ MainQuick /\ PortQuick /\ StatesQuick
          /\ \A j \in Tasks : TaskQuick(j)
      BY <1>1 DEF Quick
    <3>2. session' # "ended" /\ Up' /\ StatesQuick'
      BY <1>3, <1>5, <3>1 DEF Up, server, StatesQuick
    <3>3. ASSUME NEW j \in Tasks, j # k PROVE TaskQuick(j)'
      BY <1>1, <1>3, <1>4, <1>5, <2>2, <3>1, <3>3, TaskFrame DEF server
    <3>4. TaskQuick(k)'
      BY <1>3, <1>4, <1>5, <3>1 DEF TaskQuick, UnderWay, server
    <3>5. MainQuick'
      BY <1>1, <1>3, <1>4, <1>5, <2>2, <3>1, MainFrame DEF server
    <3>6. PortQuick'
      BY <1>3, <1>4, <1>5, <3>1, PortFrame DEF server
    <3> QED BY <3>2, <3>3, <3>4, <3>5, <3>6
  <2> QED BY <2>1, <2>3, <2>4 DEF IInv
<1>6. CASE make_connect(k, [conn EXCEPT ![i].open = FALSE])
  <2> DEFINE s == [conn EXCEPT ![i].open = FALSE]
  <2>1. /\ s \in Seq(ConnType) /\ DOMAIN s = DOMAIN conn /\ Len(s) = Len(conn)
        /\ \A j \in DOMAIN conn : j # i => s[j] = conn[j]
        /\ s[i].s2c = conn[i].s2c /\ s[i].state = conn[i].state /\ s[i].owner = conn[i].owner
    BY <1>1, <1>2, SockFacts, SetOpen
  <2>2. conn' = Append(s, NewConn(k, "backlog", port[k])) /\ sock' = [sock EXCEPT ![k] = n]
    BY <1>6, <2>1 DEF make_connect
  <2> HIDE DEF s
  <2>3. port[k] \in Int
    BY <1>1, <1>2 DEF Typed
  <2>4. /\ n \notin DOMAIN conn /\ conn' \in Seq(ConnType) /\ DOMAIN conn' = DOMAIN conn \cup {n}
        /\ \A j \in DOMAIN conn : conn'[j] = s[j]
        /\ conn'[n].owner = k /\ conn'[n].state = "backlog" /\ conn'[n].open
        /\ conn'[n].c2s = << >> /\ conn'[n].s2c = << >>
    BY <1>2, <2>1, <2>2, <2>3, Connected
  <2> HIDE DEF n, i
  <2>5. Frame({i, n}) /\ conn'[i].owner = k
    BY <1>2, <2>1, <2>4 DEF Frame, Alike
  <2>6. /\ sock' \in [Owners -> DOMAIN conn'] /\ sock'[k] = n
        /\ \A o \in Owners : o # k => sock'[o] = sock[o]
    BY <1>1, <1>2, <2>2, <2>4 DEF Typed, SocketsRight
  <2>7. Typed'
    <3>1. ssock \in DOMAIN conn' /\ conn'[ssock].owner = Main /\ conn'[ssock].state = "session"
      BY <1>1, <1>2, <2>1, <2>4, SockFacts
    <3>2. \A o \in Owners : conn'[sock'[o]].owner = o
      BY <1>1, <2>4, <2>5, <2>6 DEF Typed, SocketsRight, Frame
    <3>3. tsock \in [Tasks -> DOMAIN conn'] /\ \A j \in Tasks : conn'[tsock[j]].owner = j
      BY <1>1, <2>4, <2>5 DEF Typed, SocketsRight, Frame
    <3>4. old \in DOMAIN conn' /\ conn'[old].owner = Main
      BY <1>1, <2>4, <2>5 DEF Typed, SocketsRight, Frame
    <3>5. SocketsRight'
      BY <1>3, <2>6, <3>1, <3>2, <3>3, <3>4 DEF SocketsRight, server
    <3> QED BY <1>1, <1>3, <1>4, <2>4, <3>5 DEF Typed, server
  <2>8. Tokens'
    BY <1>1, <1>2, <1>3, <2>4, <2>5, <2>6, MainTokens DEF server
  <2>9. Quick'
    <3> SUFFICES ASSUME quick
                 PROVE  /\ session' # "ended" /\ Up' /\ StatesQuick'
                        /\ \A j \in Tasks : TaskQuick(j)'
                        /\ MainQuick' /\ PortQuick'
      BY <1>3 DEF Quick
    <3>1. session # "ended" /\ Up /\ MainQuick /\ PortQuick /\ StatesQuick
          /\ \A j \in Tasks : TaskQuick(j)
      BY <1>1 DEF Quick
    <3>2. session' # "ended" /\ Up'
      BY <1>3, <3>1 DEF Up, server
    <3>3. StatesQuick'
      BY <1>2, <2>1, <2>4, <2>5, <3>1, StatesFrame DEF StatesQuick
    <3>4. ASSUME NEW j \in Tasks, j # k PROVE TaskQuick(j)'
      <4>1. sock'[j] = sock[j]
        BY <2>6, <3>4, OwnerFacts
      <4> QED BY <1>1, <1>3, <1>4, <2>4, <2>5, <3>1, <3>4, <4>1, TaskFrame DEF server
    <3>5. TaskQuick(k)'
      <4>1. k \notin notify /\ ~ UnderWay(i)
        BY <1>3, <3>1 DEF TaskQuick, i
      <4>2. \A j \in DOMAIN conn' : conn'[j].owner = k /\ UnderWay(j)' => j = n
        BY <1>2, <2>1, <2>4, <3>1, <4>1 DEF TaskQuick, UnderWay, i
      <4> QED BY <1>3, <1>4, <2>4, <2>6, <4>1, <4>2 DEF TaskQuick, UnderWay, server
    <3>6. MainQuick'
      BY <1>1, <1>2, <1>3, <1>4, <2>4, <2>5, <2>6, <3>1, MainFrame DEF server
    <3>7. PortQuick'
      <4>1. conn'[sock'[k]].s2c = conn[sock[k]].s2c
        BY <1>3, <2>4, <2>6, <3>1 DEF TaskQuick
      <4>2. \A j \in Tasks : j # k => conn'[sock'[j]].s2c = conn[sock[j]].s2c
        <5>1. \A j \in Tasks : j # k => sock'[j] = sock[j] /\ sock[j] \in DOMAIN conn /\ sock[j] # i
          BY <1>1, <1>2, <2>6, SockFacts, OwnerFacts
        <5> QED BY <2>1, <2>4, <5>1
      <4> QED BY <1>2, <1>3, <1>4, <3>1, <4>1, <4>2, PortFrame DEF server
    <3> QED BY <3>2, <3>3, <3>4, <3>5, <3>6, <3>7
  <2> QED BY <2>7, <2>8, <2>9 DEF IInv
<1> QED BY <1>5, <1>6 DEF task_reconnect

\* The step that leaves all connections as they are, O_NONBLOCK apart, and
\* moves task handlers and the command thread between places of no account.
LEMMA StillKeeps ==
  ASSUME IInv, Up, Frame({}), Typed',
         UNCHANGED << server, port, sock, quick, gaveup, need, cmd, last, old >>,
         mpc' = mpc \/ (/\ mpc # "wait" /\ mpc' # "mismatch"
                        /\ mpc' \notin {"connect", "close", "clear", "aborted"} /\ mpc # "close"),
         \A k \in Tasks : tpc'[k] = tpc[k] \/ (tpc[k] = "nonblock" /\ tpc'[k] = "recv")
                                           \/ ~ quick
  PROVE  IInv'
<1>1. Typed /\ Tokens /\ Quick
  BY DEF IInv
<1>2. Tokens'
  BY <1>1, MainTokens DEF server, Up
<1>3. Quick'
  <2> SUFFICES ASSUME quick
               PROVE  /\ session' # "ended" /\ Up' /\ StatesQuick'
                      /\ \A j \in Tasks : TaskQuick(j)'
                      /\ MainQuick' /\ PortQuick'
    BY DEF Quick
  <2>1. session # "ended" /\ Up /\ MainQuick /\ PortQuick /\ StatesQuick
        /\ \A j \in Tasks : TaskQuick(j)
    BY <1>1 DEF Quick
  <2>2. session' # "ended" /\ Up'
    BY <2>1 DEF Up, server
  <2>3. StatesQuick'
    BY <2>1, StatesFrame
  <2>4. \A i \in DOMAIN conn : i \in DOMAIN conn' /\ Alike(conn'[i], conn[i])
    BY DEF Frame
  <2>5. DOMAIN conn' = DOMAIN conn
    BY DEF Frame
  <2>6. ASSUME NEW k \in Tasks PROVE TaskQuick(k)'
    <3>1. sock[k] \in DOMAIN conn
      BY <1>1, SockFacts
    <3>2. tpc'[k] = tpc[k] \/ (tpc[k] = "nonblock" /\ tpc'[k] = "recv")
      OBVIOUS
    <3> QED BY <2>1, <2>4, <2>5, <3>1, <3>2 DEF TaskQuick, UnderWay, Alike, server
  <2>7. MainQuick'
    BY <1>1, <2>1, MainFrame DEF server
  <2>8. \A k \in Tasks : conn'[sock[k]].s2c = conn[sock[k]].s2c
    BY <1>1, <2>4, SockFacts DEF Alike
  <2>9. PortQuick'
    BY <2>1, <2>8, PortFrame DEF server
  <2> QED BY <2>2, <2>3, <2>6, <2>7, <2>9
<1> QED BY <1>2, <1>3 DEF IInv

LEMMA task_set_nonblockKeeps ==
  ASSUME IInv, Up, NEW k \in Tasks, task_set_nonblock(k) PROVE IInv'
<1>1. Typed
  BY DEF IInv
<1>2. /\ tpc[k] = "nonblock" /\ tpc' = [tpc EXCEPT ![k] = "recv"]
      /\ conn' = [conn EXCEPT ![sock[Main]].nonblock = TRUE]
      /\ UNCHANGED << server, port, last, sock, need, mpc, old, cmd, gaveup, quick >>
  BY DEF task_set_nonblock
<1>3. Frame({})
  BY <1>1, <1>2, SockFacts, SetNonblock
<1>4. Typed'
  <2>1. conn'[ssock].state = "session"
    BY <1>1, <1>3, SockFacts DEF Frame, Alike
  <2>2. conn' \in Seq(ConnType) /\ SocketsRight'
    BY <1>1, <1>2, <1>3, <2>1, SocketsKept DEF server
  <2> QED BY <1>1, <1>2, <2>2 DEF Typed, server
<1>5. \A j \in Tasks : tpc'[j] = tpc[j] \/ (tpc[j] = "nonblock" /\ tpc'[j] = "recv")
  BY <1>1, <1>2 DEF Typed
<1> QED BY <1>2, <1>3, <1>4, <1>5, StillKeeps

LEMMA task_endKeeps ==
  ASSUME IInv, Up, NEW k \in Tasks, task_end(k) PROVE IInv'
<1>1. Typed /\ Quick
  BY DEF IInv
<1>2. /\ conn[sock[k]].state = "reset" /\ tpc' = [tpc EXCEPT ![k] = "ended"]
      /\ UNCHANGED << conn, server, port, last, sock, need, mpc, old, cmd, gaveup, quick >>
  BY DEF task_end
<1>3. Frame({})
  BY <1>1, <1>2 DEF Frame, Alike, Typed
<1>4. Typed'
  BY <1>1, <1>2 DEF Typed, SocketsRight, server
<1>5. ~ quick
  BY <1>1, <1>2, SockFacts DEF Quick, StatesQuick
<1> QED BY <1>2, <1>3, <1>4, <1>5, StillKeeps

-----------------------------------------------------------------------------
LEMMA execute_cmdKeeps ==
  ASSUME IInv, Up, execute_cmd PROVE IInv'
<1>1. Typed /\ Tokens /\ Quick
  BY DEF IInv
<1>2. /\ mpc = "prompt" /\ mpc' \in {"check", "send"} /\ cmd' = cmd + 1
      /\ UNCHANGED << conn, server, port, last, sock, need, old, tpc, gaveup, quick >>
  BY DEF execute_cmd, MainStep
<1>3. Typed'
  BY <1>1, <1>2 DEF Typed, SocketsRight, server
<1>4. Tokens'
  <2>1. Quiet => Quiet'
    BY <1>2 DEF Quiet, Live, server
  <2> QED BY <1>1, <1>2, <2>1 DEF Tokens
<1>5. Quick'
  <2>1. (Up => Up') /\ (StatesQuick => StatesQuick') /\ (MainQuick => MainQuick')
    BY <1>2 DEF Up, StatesQuick, MainQuick, UnderWay, server
  <2>2. \A k \in Tasks : TaskQuick(k) => TaskQuick(k)'
    BY <1>2 DEF TaskQuick, UnderWay, server
  <2>3. PortQuick => PortQuick'
    BY <1>2 DEF PortQuick, server
  <2> QED BY <1>1, <1>2, <2>1, <2>2, <2>3 DEF Quick, server
<1> QED BY <1>3, <1>4, <1>5 DEF IInv

\* In a quick schedule the client knows the server's port by now.
LEMMA do_reconnectKeeps ==
  ASSUME IInv, Up, do_reconnect PROVE IInv'
<1>1. Typed /\ Tokens /\ Quick
  BY DEF IInv
<1>2. /\ mpc = "check" /\ mpc' = (IF last[Main] = port[Main] THEN "clear" ELSE "connect")
      /\ old' = sock[Main] /\ (quick => Told)
      /\ UNCHANGED << conn, server, port, last, sock, need, cmd, tpc, gaveup, quick >>
  BY DEF do_reconnect, MainStep
<1>3. Typed'
  <2>1. sock[Main] \in DOMAIN conn /\ conn[sock[Main]].owner = Main
    BY <1>1, SockFacts
  <2> QED BY <1>1, <1>2, <2>1 DEF Typed, SocketsRight, server
<1>4. Tokens'
  <2>1. Quiet => Quiet'
    BY <1>2 DEF Quiet, Live, server
  <2> QED BY <1>1, <1>2, <2>1 DEF Tokens
<1>5. Quick'
  <2>1. (Up => Up') /\ (StatesQuick => StatesQuick') /\ (MainQuick => MainQuick')
    BY <1>2 DEF Up, StatesQuick, MainQuick, UnderWay, server
  <2>2. \A k \in Tasks : TaskQuick(k) => TaskQuick(k)'
    BY <1>2 DEF TaskQuick, UnderWay, server
  <2>3. quick /\ PortQuick => PortQuick'
    <3> SUFFICES ASSUME quick, PortQuick PROVE PortQuick'
      OBVIOUS
    <3>1. Told /\ 1 \in Tasks
      BY <1>2, OwnerFacts
    <3>2. port[Main] = sport
      BY <3>1 DEF PortQuick, Told
    <3>3. Told'
      BY <1>2, <3>1 DEF Told, server
    <3> QED BY <1>2, <3>2, <3>3 DEF PortQuick, server
  <2> QED BY <1>1, <1>2, <2>1, <2>2, <2>3 DEF Quick, server
<1> QED BY <1>3, <1>4, <1>5 DEF IInv

\* The new main connection, beside the old one.
LEMMA main_connectKeeps ==
  ASSUME IInv, Up, main_connect PROVE IInv'
<1>1. Typed /\ Tokens /\ Quick
  BY DEF IInv
<1> DEFINE n == Len(conn) + 1
<1>2. /\ mpc = "connect" /\ mpc' = "close" /\ port[Main] = sport
      /\ conn' = Append(conn, NewConn(Main, "backlog", port[Main]))
      /\ sock' = [sock EXCEPT ![Main] = n]
      /\ UNCHANGED << server, port, last, need, old, cmd, tpc, gaveup, quick >>
  BY DEF main_connect, MainStep, CanConnect, make_connect
<1>3. /\ n \notin DOMAIN conn /\ conn' \in Seq(ConnType) /\ DOMAIN conn' = DOMAIN conn \cup {n}
      /\ \A j \in DOMAIN conn : conn'[j] = conn[j]
      /\ conn'[n].owner = Main /\ conn'[n].state = "backlog" /\ conn'[n].open
      /\ conn'[n].c2s = << >> /\ conn'[n].s2c = << >> /\ conn'[n].at = sport
  <2>1. port[Main] \in Int /\ Main \in Owners /\ conn \in Seq(ConnType)
    BY <1>1, OwnerFacts DEF Typed
  <2> QED BY <1>2, <2>1, Connected
<1> HIDE DEF n
<1>4. /\ sock' \in [Owners -> DOMAIN conn'] /\ sock'[Main] = n
      /\ \A k \in Tasks : sock'[k] = sock[k]
      /\ \A o \in Owners : o # Main => sock'[o] = sock[o]
  BY <1>1, <1>2, <1>3, OwnerFacts DEF Typed, SocketsRight
<1>5. Frame({n})
  BY <1>3 DEF Frame, Alike
<1>6. Typed'
  <2>1. ssock \in DOMAIN conn' /\ conn'[ssock].owner = Main /\ conn'[ssock].state = "session"
    BY <1>1, <1>3, SockFacts
  <2>2. \A o \in Owners : conn'[sock'[o]].owner = o
    BY <1>1, <1>3, <1>4 DEF Typed, SocketsRight
  <2>3. tsock \in [Tasks -> DOMAIN conn'] /\ \A j \in Tasks : conn'[tsock[j]].owner = j
    BY <1>1, <1>3 DEF Typed, SocketsRight
  <2>4. old \in DOMAIN conn' /\ conn'[old].owner = Main
    BY <1>1, <1>3 DEF Typed, SocketsRight
  <2>5. SocketsRight'
    BY <1>2, <1>4, <2>1, <2>2, <2>3, <2>4 DEF SocketsRight, server
  <2> QED BY <1>1, <1>2, <1>3, <2>5 DEF Typed, server
<1>7. Tokens'
  <2>1. Quiet => Quiet'
    BY <1>2, <1>3, <1>4 DEF Quiet, Live, server
  <2> QED BY <1>1, <1>2, <2>1 DEF Tokens
<1>8. Quick'
  <2> SUFFICES ASSUME quick
               PROVE  /\ session' # "ended" /\ Up' /\ StatesQuick'
                      /\ \A j \in Tasks : TaskQuick(j)'
                      /\ MainQuick' /\ PortQuick'
    BY <1>2 DEF Quick
  <2>1. session # "ended" /\ Up /\ MainQuick /\ PortQuick /\ StatesQuick
        /\ \A j \in Tasks : TaskQuick(j)
    BY <1>1 DEF Quick
  <2>2. session' # "ended" /\ Up' /\ StatesQuick'
    BY <1>2, <1>3, <2>1 DEF Up, server, StatesQuick
  <2>3. ASSUME NEW k \in Tasks PROVE TaskQuick(k)'
    BY <1>1, <1>2, <1>3, <1>4, <1>5, <2>1, OwnerFacts, TaskFrame DEF server
  <2>4. MainQuick'
    <3>1. /\ ~ UnderWay(sock[Main]) /\ ssock = sock[Main] /\ conn[ssock].open
          /\ \A i \in DOMAIN conn : conn[i].owner = Main => ~ UnderWay(i)
      BY <1>2, <2>1 DEF MainQuick
    <3>2. ssock \in DOMAIN conn /\ old \in DOMAIN conn
      BY <1>1, SockFacts
    <3>3. \A i \in DOMAIN conn' : conn'[i].owner = Main /\ UnderWay(i)' => i = n
      BY <1>3, <3>1 DEF UnderWay
    <3> QED BY <1>2, <1>3, <1>4, <3>1, <3>2, <3>3 DEF MainQuick, UnderWay, server
  <2>5. PortQuick'
    <3>1. \A k \in Tasks : conn'[sock'[k]].s2c = conn[sock[k]].s2c
      BY <1>1, <1>3, <1>4, SockFacts
    <3> QED BY <1>2, <2>1, <3>1 DEF PortQuick, Told, server
  <2> QED BY <2>2, <2>3, <2>4, <2>5
<1> QED BY <1>6, <1>7, <1>8 DEF IInv

\* The old one is closed: in a quick schedule the session has left it.
LEMMA main_closeKeeps ==
  ASSUME IInv, Up, main_close PROVE IInv'
<1>1. Typed /\ Tokens /\ Quick
  BY DEF IInv
<1>2. /\ mpc = "close" /\ mpc' = "clear" /\ (quick => ~ UnderWay(sock[Main]))
      /\ conn' = [conn EXCEPT ![old].open = FALSE]
      /\ last' = [last EXCEPT ![Main] = port[Main]]
      /\ UNCHANGED << server, port, sock, need, old, cmd, tpc, gaveup, quick >>
  BY DEF main_close, MainStep
<1>3. /\ conn' \in Seq(ConnType) /\ DOMAIN conn' = DOMAIN conn
      /\ \A j \in DOMAIN conn : j # old => conn'[j] = conn[j]
      /\ \A j \in DOMAIN conn :
           /\ conn'[j].owner = conn[j].owner /\ conn'[j].s2c = conn[j].s2c
           /\ conn'[j].c2s = conn[j].c2s /\ conn'[j].at = conn[j].at
           /\ conn'[j].state = conn[j].state
  BY <1>1, <1>2, SockFacts, SetOpen
<1>4. Frame({old})
  BY <1>3 DEF Frame, Alike
<1>5. last' \in [Owners -> Int] /\ last'[Main] = port[Main]
  BY <1>1, <1>2, OwnerFacts DEF Typed
<1>6. Typed'
  <2>1. conn'[ssock].state = "session"
    BY <1>1, <1>3, SockFacts
  <2>2. conn' \in Seq(ConnType) /\ SocketsRight'
    BY <1>1, <1>2, <1>4, <2>1, SocketsKept DEF server
  <2> QED BY <1>1, <1>2, <1>5, <2>2 DEF Typed, server
<1>7. Tokens'
  <2>1. sock[Main] \in DOMAIN conn
    BY <1>1, SockFacts
  <2>2. Quiet => Quiet'
    BY <1>2, <1>3, <2>1 DEF Quiet, Live, server
  <2> QED BY <1>1, <1>2, <2>2 DEF Tokens
<1>8. Quick'
  <2> SUFFICES ASSUME quick
               PROVE  /\ session' # "ended" /\ Up' /\ StatesQuick'
                      /\ \A j \in Tasks : TaskQuick(j)'
                      /\ MainQuick' /\ PortQuick'
    BY <1>2 DEF Quick
  <2>1. session # "ended" /\ Up /\ MainQuick /\ PortQuick /\ StatesQuick
        /\ \A j \in Tasks : TaskQuick(j)
    BY <1>1 DEF Quick
  <2>2. session' # "ended" /\ Up' /\ StatesQuick'
    BY <1>2, <1>3, <2>1 DEF Up, server, StatesQuick
  <2>3. ASSUME NEW k \in Tasks PROVE TaskQuick(k)'
    <3>1. conn'[old].owner # k
      BY <1>1, <1>3, SockFacts, OwnerFacts
    <3> QED BY <1>1, <1>2, <1>4, <2>1, <3>1, TaskFrame DEF server
  <2>4. MainQuick'
    <3>1. /\ ssock = sock[Main] /\ old # sock[Main] /\ conn[sock[Main]].open
          /\ ~ UnderWay(sock[Main]) /\ conn[sock[Main]].at = sport
      BY <1>2, <2>1 DEF MainQuick
    <3>2. sock[Main] \in DOMAIN conn /\ port[Main] = sport
      BY <1>1, <1>2, <2>1, SockFacts DEF PortQuick
    <3>3. \A i \in DOMAIN conn' : conn'[i].owner = Main /\ UnderWay(i)' => i = sock[Main]
      BY <1>3, <2>1 DEF MainQuick, UnderWay
    <3> QED BY <1>2, <1>3, <1>5, <3>1, <3>2, <3>3 DEF MainQuick, UnderWay, server
  <2>5. PortQuick'
    <3>1. \A k \in Tasks : conn'[sock[k]].s2c = conn[sock[k]].s2c
      BY <1>1, <1>3, SockFacts
    <3> QED BY <1>2, <1>5, <2>1, <3>1 DEF PortQuick, Told, server
  <2> QED BY <2>2, <2>3, <2>4, <2>5
<1> QED BY <1>6, <1>7, <1>8 DEF IInv

LEMMA clear_needKeeps ==
  ASSUME IInv, Up, clear_need_reconnect PROVE IInv'
<1>1. Typed /\ Tokens /\ Quick
  BY DEF IInv
<1>2. /\ mpc = "clear" /\ mpc' = "send" /\ need' = FALSE
      /\ UNCHANGED << conn, server, port, last, sock, old, cmd, tpc, gaveup, quick >>
  BY DEF clear_need_reconnect, MainStep
<1>3. Typed'
  BY <1>1, <1>2 DEF Typed, SocketsRight, server
<1>4. Tokens'
  <2>1. Quiet => Quiet'
    BY <1>2 DEF Quiet, Live, server
  <2> QED BY <1>1, <1>2, <2>1 DEF Tokens
<1>5. Quick'
  <2>1. (Up => Up') /\ (StatesQuick => StatesQuick') /\ (MainQuick => MainQuick')
    BY <1>2 DEF Up, StatesQuick, MainQuick, UnderWay, server
  <2>2. \A k \in Tasks : TaskQuick(k) => TaskQuick(k)'
    BY <1>2 DEF TaskQuick, UnderWay, server
  <2>3. PortQuick => PortQuick'
    BY <1>2 DEF PortQuick, server
  <2> QED BY <1>1, <1>2, <2>1, <2>2, <2>3 DEF Quick, server
<1> QED BY <1>3, <1>4, <1>5 DEF IInv

\* A step of a command that touches what is on the main connection only.
LEMMA CommandQuick ==
  ASSUME Typed, Quick, Frame({sock[Main]}), DOMAIN conn' = DOMAIN conn,
         conn'[sock[Main]].state = conn[sock[Main]].state,
         conn'[sock[Main]].open = conn[sock[Main]].open,
         conn'[sock[Main]].at = conn[sock[Main]].at,
         UNCHANGED << server, port, last, sock, need, old, tpc, quick >>,
         mpc \in {"send", "wait"}, mpc' \in {"wait", "prompt", "mismatch"}
  PROVE  Quick'
<1> SUFFICES ASSUME quick
             PROVE  /\ session' # "ended" /\ Up' /\ StatesQuick'
                    /\ \A j \in Tasks : TaskQuick(j)'
                    /\ MainQuick' /\ PortQuick'
  BY DEF Quick
<1>1. session # "ended" /\ Up /\ MainQuick /\ PortQuick /\ StatesQuick
      /\ \A j \in Tasks : TaskQuick(j)
  BY DEF Quick
<1>2. \A j \in DOMAIN conn :
        /\ conn'[j].owner = conn[j].owner /\ conn'[j].open = conn[j].open
        /\ conn'[j].at = conn[j].at /\ conn'[j].state = conn[j].state
  BY DEF Frame, Alike
<1>3. session' # "ended" /\ Up' /\ StatesQuick'
  BY <1>1, <1>2 DEF Up, server, StatesQuick
<1>4. ASSUME NEW k \in Tasks PROVE TaskQuick(k)' /\ conn'[sock[k]].s2c = conn[sock[k]].s2c
  <2>1. sock[Main] \in DOMAIN conn /\ conn'[sock[Main]].owner # k
    BY <1>2, SockFacts, OwnerFacts
  <2>2. sock[k] \in DOMAIN conn /\ sock[k] # sock[Main]
    BY SockFacts, OwnerFacts
  <2>3. TaskQuick(k)'
    BY <1>1, <2>1, TaskFrame DEF server
  <2> QED BY <2>2, <2>3 DEF Frame, Alike
<1>5. MainQuick'
  <2>1. sock[Main] \in DOMAIN conn /\ ssock \in DOMAIN conn
    BY SockFacts
  <2> QED BY <1>1, <1>2, <2>1 DEF MainQuick, UnderWay, server
<1>6. PortQuick'
  BY <1>1, <1>4, PortFrame DEF server
<1> QED BY <1>3, <1>4, <1>5, <1>6

LEMMA send_cmdKeeps ==
  ASSUME IInv, Up, send_cmd PROVE IInv'
<1>1. Typed /\ Tokens /\ Quick
  BY DEF IInv
<1> DEFINE m == sock[Main]
           v == Append(conn[m].c2s, cmd)
<1>2. /\ mpc = "send" /\ mpc' = "wait" /\ conn[m].state # "reset"
      /\ conn' = [conn EXCEPT ![m].c2s = v]
      /\ UNCHANGED << server, port, last, sock, need, old, cmd, tpc, gaveup, quick >>
  BY DEF send_cmd, MainStep, Usable
<1>3. m \in DOMAIN conn /\ conn[m].owner = Main /\ v \in Seq(Int)
  <2>1. m \in DOMAIN conn /\ conn[m].owner = Main /\ conn[m].c2s \in Seq(Int) /\ cmd \in Int
    BY <1>1, SockFacts, ConnFacts DEF Typed
  <2> HIDE DEF m
  <2> QED BY <2>1
<1> HIDE DEF v
<1>4. /\ Frame({m}) /\ DOMAIN conn' = DOMAIN conn
      /\ conn'[m].c2s = v /\ conn'[m].s2c = conn[m].s2c /\ conn'[m].at = conn[m].at
      /\ conn'[m].state = conn[m].state /\ conn'[m].open = conn[m].open
  BY <1>1, <1>2, <1>3, SockFacts, SetC2S
<1>5. Typed'
  <2>1. conn'[ssock].state = "session"
    BY <1>1, <1>4, SockFacts DEF Frame, Alike
  <2>2. conn' \in Seq(ConnType) /\ SocketsRight'
    BY <1>1, <1>2, <1>4, <2>1, SocketsKept DEF server
  <2> QED BY <1>1, <1>2, <2>2 DEF Typed, server
<1>6. Tokens'
  <2>1. ASSUME Quiet PROVE Sent'
    <3>1. m \in Live
      BY <1>2, <1>3 DEF Live
    <3>2. conn[m].c2s = << >>
      BY <2>1, <3>1 DEF Quiet
    <3>3. v = << cmd >>
      BY <3>2 DEF v
    <3>4. \A i \in Live' : i # m => i \in Live /\ conn'[i].c2s = conn[i].c2s
      BY <1>4 DEF Live, Frame, Alike
    <3> QED BY <1>2, <1>4, <2>1, <3>3, <3>4 DEF Quiet, Sent, server
  <2> QED BY <1>1, <1>2, <2>1 DEF Tokens
<1>7. Quick'
  BY <1>1, <1>2, <1>4, CommandQuick
<1> QED BY <1>5, <1>6, <1>7 DEF IInv

\* The connection was reset: no handler ever had the command.
LEMMA cmd_failsKeeps ==
  ASSUME IInv, Up, cmd_fails PROVE IInv'
<1>1. Typed /\ Tokens /\ Quick
  BY DEF IInv
<1>2. /\ mpc = "wait" /\ mpc' = "prompt" /\ conn[sock[Main]].state = "reset"
      /\ UNCHANGED << conn, server, port, last, sock, need, old, cmd, tpc, gaveup, quick >>
  BY DEF cmd_fails, MainStep, Usable
<1>3. Typed'
  BY <1>1, <1>2 DEF Typed, SocketsRight, server
<1>4. Tokens'
  <2>1. Sent => Quiet
    BY <1>2 DEF Sent, Quiet, Live
  <2>2. ~ Handled /\ ~ Answered
    BY <1>2 DEF Handled, Answered, Reached
  <2>3. Quiet => Quiet'
    BY <1>2 DEF Quiet, Live, server
  <2> QED BY <1>1, <1>2, <2>1, <2>2, <2>3 DEF Tokens
<1>5. Quick'
  <2>1. ~ quick
    BY <1>1, <1>2, SockFacts DEF Quick, StatesQuick
  <2> QED BY <1>2, <2>1 DEF Quick
<1> QED BY <1>3, <1>4, <1>5 DEF IInv

LEMMA cmd_gives_upKeeps ==
  ASSUME IInv, Up, cmd_gives_up PROVE IInv'
<1>1. Typed /\ Tokens /\ Quick
  BY DEF IInv
<1>2. /\ mpc = "wait" /\ mpc' = "prompt" /\ gaveup' = TRUE
      /\ UNCHANGED << conn, server, port, last, sock, need, old, cmd, tpc, quick >>
  BY DEF cmd_gives_up, MainStep
<1>3. Typed'
  BY <1>1, <1>2 DEF Typed, SocketsRight, server
<1>4. Tokens'
  BY <1>2 DEF Tokens
<1>5. Frame({sock[Main]}) /\ DOMAIN conn' = DOMAIN conn
  BY <1>1, <1>2 DEF Frame, Alike, Typed
<1>6. Quick'
  BY <1>1, <1>2, <1>5, CommandQuick
<1> QED BY <1>3, <1>4, <1>6 DEF IInv

\* The client reads an answer: the one it waits for.
LEMMA recv_answerKeeps ==
  ASSUME IInv, Up, recv_answer PROVE IInv'
<1>1. Typed /\ Tokens /\ Quick
  BY DEF IInv
<1> DEFINE m == sock[Main]
           q == conn[m].s2c
<1>2. /\ mpc = "wait" /\ q # << >>
      /\ mpc' = (IF Head(q) = cmd THEN "prompt" ELSE "mismatch")
      /\ conn' = [conn EXCEPT ![m].s2c = Tail(q)]
      /\ UNCHANGED << server, port, last, sock, need, old, cmd, tpc, gaveup, quick >>
  BY DEF recv_answer
<1>3. m \in DOMAIN conn /\ conn[m].owner = Main /\ Tail(q) \in Seq(Int)
  <2>1. m \in DOMAIN conn /\ conn[m].owner = Main /\ q \in Seq(Int)
    BY <1>1, SockFacts, ConnFacts
  <2> HIDE DEF m, q
  <2> QED BY <1>2, <2>1
<1> HIDE DEF q
<1>4. /\ Frame({m}) /\ DOMAIN conn' = DOMAIN conn
      /\ conn'[m].s2c = Tail(q) /\ conn'[m].c2s = conn[m].c2s /\ conn'[m].at = conn[m].at
      /\ conn'[m].state = conn[m].state /\ conn'[m].open = conn[m].open
  BY <1>1, <1>2, <1>3, SockFacts, SetS2C
<1>5. Typed'
  <2>1. conn'[ssock].state = "session"
    BY <1>1, <1>4, SockFacts DEF Frame, Alike
  <2>2. conn' \in Seq(ConnType) /\ SocketsRight'
    BY <1>1, <1>2, <1>4, <2>1, SocketsKept DEF server
  <2> QED BY <1>1, <1>2, <2>2 DEF Typed, server
<1>6. Tokens'
  <2> SUFFICES ASSUME ~ gaveup PROVE mpc' = "prompt" /\ Quiet'
    BY <1>2 DEF Tokens
  <2>1. Answered /\ q = << cmd >>
    BY <1>1, <1>2 DEF Tokens, Quiet, Sent, Handled, Answered, q
  <2>2. Head(q) = cmd /\ Tail(q) = << >>
    BY <2>1
  <2>3. \A i \in Live' : i \in Live /\ conn'[i].c2s = conn[i].c2s
    BY <1>4 DEF Live, Frame, Alike
  <2>4. Quiet'
    BY <1>2, <1>4, <2>1, <2>2, <2>3 DEF Quiet, Answered, Reached, server
  <2> QED BY <1>2, <2>2, <2>4
<1>7. Quick'
  BY <1>1, <1>2, <1>4, CommandQuick
<1> QED BY <1>5, <1>6, <1>7 DEF IInv

\* In a quick schedule no send() of the client fails.
LEMMA client_abortsKeeps ==
  ASSUME IInv, Up, client_aborts PROVE IInv'
<1>1. Typed /\ Tokens /\ Quick
  BY DEF IInv
<1>2. /\ mpc' = "aborted"
      /\ UNCHANGED << conn, server, port, last, sock, need, old, cmd, tpc, gaveup, quick >>
  BY DEF client_aborts
<1>3. Typed'
  BY <1>1, <1>2 DEF Typed, SocketsRight, server
<1>4. Tokens'
  BY <1>2 DEF Tokens
<1>5. ASSUME quick PROVE FALSE
  <2>1. MainQuick /\ PortQuick /\ StatesQuick /\ \A k \in Tasks : TaskQuick(k)
    BY <1>1, <1>5 DEF Quick
  <2>2. ~ (mpc = "connect" /\ ~ CanConnect(Main))
    BY <2>1 DEF PortQuick, CanConnect
  <2>3. ~ (mpc = "send" /\ ~ Usable(sock[Main]))
    BY <1>1, <2>1, SockFacts DEF StatesQuick, Usable
  <2>4. \A k \in Tasks : ~ (tpc[k] = "reconnect" /\ ~ CanConnect(k))
    BY <2>1 DEF TaskQuick, CanConnect
  <2> QED BY <2>2, <2>3, <2>4 DEF client_aborts
<1> QED BY <1>2, <1>3, <1>4, <1>5 DEF IInv, Quick

-----------------------------------------------------------------------------
LEMMA IInvKept == IInv /\ [Next]_vars => IInv'
<1> SUFFICES ASSUME IInv, [Next]_vars PROVE IInv'
  OBVIOUS
<1>1. CASE UNCHANGED vars
  <2>1. /\ UNCHANGED << conn, sport, notify, ssock, tsock, session, req, quick >>
        /\ UNCHANGED << port, last, sock, need, mpc, old, cmd, tpc, gaveup >>
    BY <1>1 DEF vars, server, client
  <2>2. Typed'
    BY <2>1 DEF IInv, Typed, SocketsRight
  <2>3. Tokens'
    BY <2>1 DEF IInv, Tokens, Quiet, Sent, Handled, Answered, Reached, Live
  <2>4. Quick'
    BY <2>1 DEF IInv, Quick, StatesQuick, TaskQuick, MainQuick, PortQuick, Up, UnderWay, Told
  <2> QED BY <2>2, <2>3, <2>4 DEF IInv
<1>2. CASE Next
  <2>1. Up
    BY <1>2 DEF Next
  <2> QED BY <1>2, <2>1, port_updateKeeps, notifyKeeps, acceptKeeps, handle_reconnectKeeps,
             session_recvKeeps, session_replyKeeps, session_endKeeps, handle_port_updateKeeps,
             task_reconnectKeeps, task_set_nonblockKeeps, task_endKeeps, execute_cmdKeeps,
             do_reconnectKeeps, main_connectKeeps, main_closeKeeps, clear_needKeeps,
             send_cmdKeeps, cmd_failsKeeps, cmd_gives_upKeeps, recv_answerKeeps,
             client_abortsKeeps
          DEF Next, NewConnections, Session, MainGoesOn, Task
<1> QED BY <1>1, <1>2

LEMMA InitIInv == Init => IInv
<1> SUFFICES ASSUME Init PROVE IInv
  OBVIOUS
<1>1. K \in Nat /\ K >= 1 /\ Owners = 0 .. K /\ Tasks = 1 .. K /\ Main = 0
  BY ReconnectAssumption DEF Owners, Tasks, Main
<1>2. ASSUME NEW o \in Owners
      PROVE  LET c == NewConn(o, "session", 0) IN
             /\ c \in ConnType /\ c.owner = o /\ c.state = "session" /\ c.open /\ c.at = 0
             /\ c.c2s = << >> /\ c.s2c = << >>
  BY DEF NewConn, ConnType, States
<1>3. /\ DOMAIN conn = 1 .. (K + 1) /\ conn \in Seq(ConnType)
      /\ \A i \in DOMAIN conn : i - 1 \in Owners
      /\ \A i \in DOMAIN conn :
           /\ conn[i].owner = i - 1 /\ conn[i].state = "session" /\ conn[i].open
           /\ conn[i].at = 0 /\ conn[i].c2s = << >> /\ conn[i].s2c = << >>
  <2>1. conn = [i \in 1..(K + 1) |-> NewConn(i - 1, "session", 0)]
    BY DEF Init
  <2>2. \A i \in 1 .. (K + 1) : i - 1 \in Owners
    BY <1>1
  <2>3. \A i \in 1 .. (K + 1) : NewConn(i - 1, "session", 0) \in ConnType
    BY <1>2, <2>2
  <2>4. K + 1 \in Nat
    BY <1>1
  <2>5. conn \in Seq(ConnType)
    BY <2>1, <2>3, <2>4
  <2> QED BY <1>2, <2>1, <2>2, <2>5
<1>4. /\ sport = 0 /\ notify = {} /\ ssock = 1 /\ tsock = [k \in Tasks |-> k + 1]
      /\ session = "recv" /\ req = 0 /\ port = [o \in Owners |-> 0]
      /\ last = [o \in Owners |-> IF o = Main THEN 0 ELSE -1]
      /\ sock = [o \in Owners |-> o + 1] /\ need = FALSE /\ mpc = "prompt" /\ old = 1
      /\ cmd = 0 /\ tpc = [k \in Tasks |-> "recv"] /\ gaveup = FALSE /\ quick \in BOOLEAN
  BY DEF Init
<1>5. SocketsRight
  <2>1. 1 \in DOMAIN conn /\ conn[1].owner = Main /\ conn[1].state = "session"
    <3>1. 1 \in DOMAIN conn /\ 1 - 1 = Main
      BY <1>1, <1>3
    <3> QED BY <1>3, <3>1
  <2>2. ASSUME NEW o \in Owners PROVE o + 1 \in DOMAIN conn /\ conn[o + 1].owner = o
    <3>1. o + 1 \in 1 .. (K + 1) /\ (o + 1) - 1 = o
      BY <1>1
    <3> QED BY <1>3, <3>1
  <2>3. tsock \in [Tasks -> DOMAIN conn] /\ \A k \in Tasks : conn[tsock[k]].owner = k
    BY <1>4, <2>2, OwnerFacts
  <2>4. sock \in [Owners -> DOMAIN conn] /\ \A o \in Owners : conn[sock[o]].owner = o
    BY <1>4, <2>2
  <2> QED BY <1>4, <2>1, <2>3, <2>4 DEF SocketsRight
<1>6. Typed
  <2>1. port \in [Owners -> Int] /\ last \in [Owners -> Int] /\ sport \in Int /\ req \in Int
        /\ cmd \in Int
    BY <1>4
  <2>2. tpc \in [Tasks -> {"recv", "reconnect", "nonblock", "ended"}] /\ notify \in SUBSET Tasks
    BY <1>4
  <2>3. /\ session \in {"recv", "handle", "ended", "aborted"}
        /\ mpc \in {"prompt", "check", "connect", "close", "clear", "send", "wait",
                    "mismatch", "aborted"}
        /\ need \in BOOLEAN /\ gaveup \in BOOLEAN /\ quick \in BOOLEAN
    BY <1>4
  <2>4. conn \in Seq(ConnType)
    BY <1>3
  <2> QED BY <1>5, <2>1, <2>2, <2>3, <2>4 DEF Typed
<1>7. Tokens
  BY <1>3, <1>6, SockFacts DEF Init, Tokens, Quiet, Live
<1>8. Quick
  <2>1. \A k \in Tasks : TaskQuick(k)
    <3>1. \A k \in Tasks : tsock[k] = sock[k]
      BY <1>1 DEF Init
    <3> QED BY <1>3, <1>6, <3>1, SockFacts DEF Init, TaskQuick, UnderWay
  <2>2. MainQuick
    <3>1. sock[Main] = 1 /\ last[Main] = 0
      BY <1>1, <1>4
    <3> QED BY <1>3, <1>4, <1>6, <3>1, SockFacts DEF MainQuick, UnderWay
  <2>3. PortQuick
    BY <1>1 DEF Init, PortQuick
  <2> QED BY <1>3, <2>1, <2>2, <2>3 DEF Init, Quick, StatesQuick, Up
<1> QED BY <1>6, <1>7, <1>8 DEF IInv

\* The inductive invariant holds in every reachable state.
THEOREM ReconnectKept == Spec => []IInv
<1> QED BY InitIInv, IInvKept, PTL DEF Spec

-----------------------------------------------------------------------------
\* A command never reads the answer to another one unless one was cut short by
\* the socket a task handler made non-blocking, in every schedule.
THEOREM AnswersMatch == Spec => []NoStrayAnswer
<1>1. IInv => NoStrayAnswer
  BY DEF IInv, Tokens, NoStrayAnswer
<1> QED BY <1>1, ReconnectKept, PTL

\* When the waiting times are long enough a port update neither ends the
\* session nor aborts a process.
THEOREM SessionKept == Spec => []SessionSurvives
<1>1. IInv => SessionSurvives
  BY DEF IInv, Quick, SessionSurvives
<1> QED BY <1>1, ReconnectKept, PTL

\* And when it is over both ends of every connection hold the same socket, and
\* the main connection is at the server's port or will be moved there.
THEOREM PortKept == Spec => []PortFollowed
<1>1. IInv => PortFollowed
  <2> SUFFICES ASSUME IInv, quick, Settled
               PROVE  /\ ssock = sock[Main] /\ \A k \in Tasks : tsock[k] = sock[k]
                      /\ need \/ conn[sock[Main]].at = sport
    BY DEF PortFollowed
  <2>1. Typed /\ MainQuick /\ PortQuick /\ \A k \in Tasks : TaskQuick(k)
    BY DEF IInv, Quick
  <2>2. ssock = sock[Main]
    BY <2>1, SockFacts DEF Settled, MainQuick
  <2>3. \A k \in Tasks : tsock[k] = sock[k]
    BY <2>1, SockFacts DEF Settled, TaskQuick
  <2>4. mpc # "close" /\ Told
    BY DEF Settled, Reconnecting
  <2>5. port[Main] = sport
    BY <2>1, <2>4, OwnerFacts DEF PortQuick, Told
  <2> QED BY <2>1, <2>2, <2>3, <2>4, <2>5 DEF MainQuick, PortQuick
<1> QED BY <1>1, ReconnectKept, PTL
=============================================================================
