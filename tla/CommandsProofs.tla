--------------------------- MODULE CommandsProofs ---------------------------
(***************************************************************************)
(* The proofs about the commands of a session, for lists of any length,    *)
(* any number of commands and directories and any size of a packet, with a *)
(* codec that does not convert in place.                                   *)
(*                                                                         *)
(* The invariant says in which of a few phases the command is that the     *)
(* client waits for.  A list of T items is followed by the numbers of the  *)
(* items before each packet under way: they lead from what the client has  *)
(* shown to what the sender has left.  Until the prompt is back the phase  *)
(* also tells who can go on.                                               *)
(***************************************************************************)
EXTENDS Commands, TLAPS

\* The type of the answer to a command.
AnswerType == IF cmd.name = "ll_peer" THEN "ll" ELSE cmd.name

\* The packets of a list of T items, sent as answers of type t.
Packet(T, t) == [type : {t}, total : {T}, nr : Nat \ {0}]

\* The packets of q hold the items after a, up to and with b.
Track(q, a, b, T, t) ==
  /\ q \in Seq(Packet(T, t))
  /\ \E f \in [1 .. Len(q) + 1 -> Nat] :
       /\ f[1] = a /\ f[Len(q) + 1] = b
       /\ \A i \in 1 .. Len(q) : f[i + 1] = f[i] + q[i].nr
       /\ \A i, j \in 1 .. Len(q) + 1 : i < j => f[i] < f[j]

-----------------------------------------------------------------------------
Empty == req = << >> /\ resp = << >> /\ toPeer = << >> /\ fromPeer = << >>

SameDir == cpwd = spwd

\* Nothing of the command has been received.
Fresh == shown = 0 /\ total = -1

Prompt ==
  /\ Empty /\ spc \in {"idle", "relay"} /\ ppc = "idle" /\ SameDir /\ shown \in Nat
  /\ shown \in Listed \/ (cmd.name = "ll_peer" /\ shown = 0) \/ FileNotShown
  /\ (cmd.name = "cd" /\ ~ raced /\ cmd.dir \in Dirs) => cpwd = cmd.dir

\* The command was sent; a handler that is in a relay never reads it.
Pending ==
  /\ req = << cmd >> /\ resp = << >> /\ toPeer = << >> /\ fromPeer = << >>
  /\ spc \in {"idle", "relay"} /\ ppc = "idle" /\ SameDir /\ Fresh

\* Between chdir() and getcwd().
Getcwd ==
  /\ cmd.name = "cd" /\ cmd.dir \in Dirs /\ spc = "getcwd" /\ ppc = "idle" /\ Empty
  /\ SameDir /\ Fresh /\ (raced \/ cwd = cmd.dir)

\* What one packet without items says.
SingleRight(a) ==
  /\ a.type = AnswerType /\ a.nr = 0
  /\ cmd.name = "directcmd" => a.total = 0
  /\ cmd.name = "ll" => cmd.path.entries = 0 \/ cmd.path.kind = "file"
  /\ cmd.name = "w" => cmd.users = 0
  /\ IF cmd.name = "cd" /\ a.total \in Dirs
     THEN a.total = spwd /\ (raced \/ spwd = cmd.dir)
     ELSE SameDir /\ (cmd.name = "cd" => cmd.dir \notin Dirs)

Single ==
  /\ req = << >> /\ toPeer = << >> /\ ppc = "idle" /\ spc \in {"idle", "relay"} /\ Fresh
  /\ \E a :
       /\ SingleRight(a)
       /\ \/ resp = << a >> /\ fromPeer = << >>
          \/ resp = << >> /\ fromPeer = << a >> /\ spc = "relay"

Objects == [left : Nat, done : Nat, total : Nat, rev : Int, reversed : BOOLEAN]

\* An object of which a part is yet to be sent.
Sending(o, T) == o \in Objects /\ o.left \in 1 .. T /\ o.total = T /\ ~ o.reversed

\* How much of the list is not sent yet.
Left ==
  IF spc \in {"who", "ll", "directcmd"} THEN srv.left
  ELSE IF ppc = "ll" THEN peer.left ELSE 0

Serving(T) ==
  \/ /\ cmd.name \in {"w", "ll", "directcmd"} /\ ppc = "idle" /\ fromPeer = << >>
     /\ \/ spc = "idle"
        \/ /\ spc = (IF cmd.name = "w" THEN "who" ELSE cmd.name)
           /\ Sending(srv, T) /\ (spc = "directcmd" => srv.done = T - srv.left)
  \/ /\ cmd.name = "ll_peer" /\ spc = "relay"
     /\ ppc = "idle" \/ (ppc = "ll" /\ Sending(peer, T))

\* A list is on its way.
ListOf(T) ==
  \/ cmd.name = "w" /\ T = cmd.users
  \/ cmd.name \in {"ll", "ll_peer"} /\ T = cmd.path.entries
  \/ cmd.name = "directcmd" /\ T = cmd.len /\ total \in {-1, T}

Streaming ==
  /\ req = << >> /\ toPeer = << >> /\ SameDir
  /\ \E T \in Nat \ {0}, m \in Nat :
       /\ ListOf(T) /\ Serving(T) /\ shown < T
       /\ Track(resp, shown, m, T, AnswerType)
       /\ Track(fromPeer, m, T - Left, T, AnswerType)

\* A direct command without output.
Zero ==
  /\ cmd.name = "directcmd" /\ spc = "directcmd" /\ ppc = "idle" /\ Empty /\ SameDir /\ Fresh
  /\ srv \in Objects /\ srv.left = 0 /\ srv.done = 0 /\ srv.total = 0 /\ ~ srv.reversed

Forwarded ==
  /\ cmd.name = "ll_peer" /\ req = << >> /\ resp = << >> /\ fromPeer = << >>
  /\ toPeer = << cmd >> /\ spc = "relay" /\ ppc = "idle" /\ SameDir /\ Fresh

\* A message, and a path that is neither a file nor a directory, have no answer.
Silent ==
  cmd.name = "write" \/ (cmd.name \in {"ll", "ll_peer"} /\ cmd.path.kind = "special")

\* Nobody will answer.
Unanswered ==
  /\ Silent
  /\ req = << >> /\ resp = << >> /\ fromPeer = << >>
  /\ spc \in {"idle", "relay"} /\ ppc = "idle" /\ SameDir
  /\ toPeer = << >> \/ toPeer = << [name |-> "write"] >>

IInv ==
  /\ cmd \in Requests /\ cwd \in Dirs /\ raced \in BOOLEAN
  /\ cpc \in {"prompt", "wait"}
  /\ cpc = "prompt" => Prompt
  /\ cpc = "wait" => \/ Pending \/ Getcwd \/ Single \/ Streaming \/ Zero \/ Forwarded
                     \/ Unanswered

-----------------------------------------------------------------------------
LEMMA PacketFields ==
  ASSUME NEW T, NEW t, NEW p \in Packet(T, t)
  PROVE  /\ p.type = t /\ p.total = T /\ p.nr \in Nat /\ p.nr > 0
         /\ p = Answer(t, T, p.nr)
BY DEF Packet, Answer

\* No packets, no items.
LEMMA TrackEmpty ==
  ASSUME NEW a \in Nat, NEW T, NEW t
  PROVE  Track(<< >>, a, a, T, t)
<1>1. << >> \in Seq(Packet(T, t)) /\ Len(<< >>) = 0
  OBVIOUS
<1> DEFINE f == [i \in 1 .. Len(<< >>) + 1 |-> a]
<1>2. f \in [1 .. Len(<< >>) + 1 -> Nat] /\ f[1] = a /\ f[Len(<< >>) + 1] = a
  BY <1>1
<1> HIDE DEF f
<1>3. /\ \A i \in 1 .. Len(<< >>) : f[i + 1] = f[i] + << >>[i].nr
      /\ \A i, j \in 1 .. Len(<< >>) + 1 : i < j => f[i] < f[j]
  BY <1>1
<1> QED BY <1>1, <1>2, <1>3 DEF Track

\* The items of q are counted upwards.
LEMMA TrackLe ==
  ASSUME NEW q, NEW a, NEW b, NEW T, NEW t, Track(q, a, b, T, t)
  PROVE  /\ a \in Nat /\ b \in Nat /\ a <= b
         /\ a = b <=> q = << >>
<1>1. q \in Seq(Packet(T, t)) /\ Len(q) \in Nat /\ (Len(q) = 0 <=> q = << >>)
  BY DEF Track
<1>2. PICK f \in [1 .. Len(q) + 1 -> Nat] :
         /\ f[1] = a /\ f[Len(q) + 1] = b
         /\ \A i, j \in 1 .. Len(q) + 1 : i < j => f[i] < f[j]
  BY DEF Track
<1>3. 1 \in 1 .. Len(q) + 1 /\ Len(q) + 1 \in 1 .. Len(q) + 1
  BY <1>1
<1>4. CASE Len(q) = 0
  BY <1>1, <1>2, <1>3, <1>4
<1>5. CASE Len(q) # 0
  <2>1. f[1] < f[Len(q) + 1]
    BY <1>1, <1>2, <1>3, <1>5
  <2> QED BY <1>1, <1>2, <1>3, <1>5, <2>1
<1> QED BY <1>4, <1>5

\* A packet is sent.
LEMMA TrackPush ==
  ASSUME NEW q, NEW a, NEW b, NEW T, NEW t, Track(q, a, b, T, t), NEW n \in Nat \ {0}
  PROVE  Track(Append(q, Answer(t, T, n)), a, b + n, T, t)
<1> DEFINE p == Answer(t, T, n)
           r == Append(q, p)
<1>1. q \in Seq(Packet(T, t)) /\ Len(q) \in Nat
  BY DEF Track
<1>2. p \in Packet(T, t) /\ p.nr = n
  BY DEF Packet, Answer
<1>3. /\ r \in Seq(Packet(T, t)) /\ Len(r) = Len(q) + 1
      /\ \A i \in 1 .. Len(q) : r[i] = q[i]
      /\ r[Len(q) + 1] = p
  <2> HIDE DEF p
  <2> QED BY <1>1, <1>2
<1>4. PICK f \in [1 .. Len(q) + 1 -> Nat] :
         /\ f[1] = a /\ f[Len(q) + 1] = b
         /\ \A i \in 1 .. Len(q) : f[i + 1] = f[i] + q[i].nr
         /\ \A i, j \in 1 .. Len(q) + 1 : i < j => f[i] < f[j]
  BY DEF Track
<1> DEFINE g == [i \in 1 .. Len(r) + 1 |-> IF i = Len(q) + 2 THEN b + n ELSE f[i]]
<1>5. b \in Nat
  BY <1>1, <1>4
<1>6. /\ g \in [1 .. Len(r) + 1 -> Nat]
      /\ \A i \in 1 .. Len(q) + 1 : g[i] = f[i] /\ f[i] \in Nat
      /\ g[Len(q) + 2] = b + n
  <2>1. Len(r) + 1 = Len(q) + 2 /\ b + n \in Nat
    BY <1>1, <1>3, <1>5
  <2> HIDE DEF r
  <2>2. \A i \in 1 .. Len(r) + 1 : i = Len(q) + 2 \/ i \in 1 .. Len(q) + 1
    BY <1>1, <2>1
  <2>3. \A i \in 1 .. Len(q) + 1 : i \in 1 .. Len(r) + 1 /\ i # Len(q) + 2
    BY <1>1, <2>1
  <2>4. Len(q) + 2 \in 1 .. Len(r) + 1
    BY <1>1, <2>1
  <2> QED BY <2>1, <2>2, <2>3, <2>4
<1> HIDE DEF g, r, p
<1>7. g[1] = a /\ g[Len(r) + 1] = b + n
  BY <1>1, <1>3, <1>4, <1>6
<1>8. ASSUME NEW i \in 1 .. Len(r) PROVE g[i + 1] = g[i] + r[i].nr
  <2>1. CASE i = Len(q) + 1
    BY <1>1, <1>2, <1>3, <1>4, <1>6, <2>1
  <2>2. CASE i # Len(q) + 1
    <3>1. i \in 1 .. Len(q) /\ i \in 1 .. Len(q) + 1 /\ i + 1 \in 1 .. Len(q) + 1
      BY <1>1, <1>3, <2>2
    <3> QED BY <3>1, <1>3, <1>4, <1>6
  <2> QED BY <2>1, <2>2
<1>9. ASSUME NEW i \in 1 .. Len(r) + 1, NEW j \in 1 .. Len(r) + 1, i < j PROVE g[i] < g[j]
  <2>0. i \in 1 .. Len(q) + 1
    BY <1>1, <1>3, <1>9
  <2>1. CASE j = Len(q) + 2
    <3>1. Len(q) + 1 \in 1 .. Len(q) + 1 /\ f[Len(q) + 1] = b /\ f[i] \in Nat
      BY <1>1, <1>4, <2>0
    <3>2. f[i] <= b
      <4>1. CASE i = Len(q) + 1
        BY <3>1, <4>1
      <4>2. CASE i # Len(q) + 1
        <5>1. i < Len(q) + 1
          BY <2>0, <4>2, <1>1
        <5>2. f[i] < f[Len(q) + 1]
          BY <5>1, <3>1, <2>0, <1>4
        <5> QED BY <5>2, <3>1, <1>5
      <4> QED BY <4>1, <4>2
    <3> QED BY <3>1, <3>2, <2>0, <2>1, <1>5, <1>6
  <2>2. CASE j # Len(q) + 2
    <3>1. j \in 1 .. Len(q) + 1
      BY <1>1, <1>3, <2>2
    <3> QED BY <3>1, <2>0, <1>4, <1>6, <1>9
  <2> QED BY <2>1, <2>2
<1>10. Track(r, a, b + n, T, t)
  BY <1>3, <1>6, <1>7, <1>8, <1>9 DEF Track
<1> QED BY <1>10 DEF r, p

\* A packet is received.
LEMMA TrackPop ==
  ASSUME NEW q, NEW a, NEW b, NEW T, NEW t, Track(q, a, b, T, t), q # << >>
  PROVE  /\ Head(q) \in Packet(T, t)
         /\ Track(Tail(q), a + Head(q).nr, b, T, t)
<1> DEFINE r == Tail(q)
<1>1. q \in Seq(Packet(T, t)) /\ Len(q) \in Nat \ {0}
  BY DEF Track
<1>2. Head(q) = q[1] /\ q[1] \in Packet(T, t)
  BY <1>1
<1>3. /\ r \in Seq(Packet(T, t)) /\ Len(r) = Len(q) - 1
      /\ \A i \in 1 .. Len(r) : r[i] = q[i + 1]
  BY <1>1
<1>4. PICK f \in [1 .. Len(q) + 1 -> Nat] :
         /\ f[1] = a /\ f[Len(q) + 1] = b
         /\ \A i \in 1 .. Len(q) : f[i + 1] = f[i] + q[i].nr
         /\ \A i, j \in 1 .. Len(q) + 1 : i < j => f[i] < f[j]
  BY DEF Track
<1> DEFINE g == [i \in 1 .. Len(r) + 1 |-> f[i + 1]]
<1>5. /\ g \in [1 .. Len(r) + 1 -> Nat]
      /\ \A i \in 1 .. Len(r) + 1 : g[i] = f[i + 1]
  BY <1>1, <1>3
<1> HIDE DEF g, r
<1>6. g[1] = a + Head(q).nr /\ g[Len(r) + 1] = b
  BY <1>1, <1>2, <1>3, <1>4, <1>5
<1>7. ASSUME NEW i \in 1 .. Len(r) PROVE g[i + 1] = g[i] + r[i].nr
  <2>1. i + 1 \in 1 .. Len(q) /\ i + 1 \in 1 .. Len(r) + 1 /\ i \in 1 .. Len(r) + 1
    BY <1>1, <1>3
  <2> QED BY <2>1, <1>3, <1>4, <1>5
<1>8. ASSUME NEW i \in 1 .. Len(r) + 1, NEW j \in 1 .. Len(r) + 1, i < j PROVE g[i] < g[j]
  <2>1. i + 1 \in 1 .. Len(q) + 1 /\ j + 1 \in 1 .. Len(q) + 1 /\ i + 1 < j + 1
    BY <1>1, <1>3, <1>8
  <2> QED BY <2>1, <1>4, <1>5
<1>9. Track(r, a + Head(q).nr, b, T, t)
  BY <1>3, <1>5, <1>6, <1>7, <1>8 DEF Track
<1> QED BY <1>2, <1>9 DEF r

-----------------------------------------------------------------------------
\* What a command can be.
LEMMA PathFacts ==
  ASSUME NEW p \in Paths
  PROVE  /\ p.kind \in {"none", "file", "unreadable", "special", "dir"}
         /\ p.entries \in Nat
         /\ p.kind = "dir" => p.entries > 0
         /\ p.kind \notin {"dir", "file"} => p.entries = 0
BY CommandsAssumption DEF Paths

LEMMA RequestFacts ==
  ASSUME NEW c \in Requests
  PROVE  /\ c.name \in {"pwd", "mps", "write", "cd", "ll", "ll_peer", "w", "directcmd"}
         /\ c.name \in {"ll", "ll_peer"} => c.path \in Paths
         /\ c.name = "w" => c.users \in Nat
         /\ c.name = "directcmd" => c.len \in Nat \cup {-1}
BY CommandsAssumption DEF Requests

\* What of a list has not been sent.
LEMMA ServingLeft ==
  ASSUME NEW T \in Nat \ {0}, Serving(T)
  PROVE  /\ Left \in 0 .. T
         /\ Left = 0 => ppc = "idle" /\ spc \in {"idle", "relay"}
         /\ cmd.name \in {"w", "ll", "directcmd", "ll_peer"}
<1>1. CASE spc \in {"who", "ll", "directcmd"}
  BY <1>1 DEF Serving, Left, Sending
<1>2. CASE spc \notin {"who", "ll", "directcmd"} /\ ppc = "ll"
  BY <1>2 DEF Serving, Left, Sending
<1>3. CASE spc \notin {"who", "ll", "directcmd"} /\ ppc # "ll"
  BY <1>3 DEF Serving, Left, Sending
<1> QED BY <1>1, <1>2, <1>3

\* The phase shows in the connections and in what the handlers do.
LEMMA Phases ==
  ASSUME IInv
  PROVE  /\ req # << >> => cpc = "wait" /\ Pending
         /\ toPeer # << >> => cpc = "wait" /\ (Forwarded \/ Unanswered)
         /\ spc = "getcwd" => cpc = "wait" /\ Getcwd
         /\ spc \in {"who", "ll"} => cpc = "wait" /\ Streaming
         /\ spc = "directcmd" => cpc = "wait" /\ (Streaming \/ Zero)
         /\ ppc = "ll" => cpc = "wait" /\ Streaming
         /\ fromPeer # << >> => cpc = "wait" /\ (Single \/ Streaming)
         /\ resp # << >> => cpc = "wait" /\ (Single \/ Streaming)
<1>1. CASE cpc = "prompt"
  BY <1>1 DEF IInv, Prompt, Empty
<1>2. CASE cpc = "wait" /\ Pending
  BY <1>2 DEF Pending
<1>3. CASE cpc = "wait" /\ Getcwd
  BY <1>3 DEF Getcwd, Empty
<1>4. CASE cpc = "wait" /\ Single
  BY <1>4 DEF Single
<1>5. CASE cpc = "wait" /\ Streaming
  BY <1>5 DEF Streaming, Serving
<1>6. CASE cpc = "wait" /\ Zero
  BY <1>6 DEF Zero, Empty
<1>7. CASE cpc = "wait" /\ Forwarded
  BY <1>7 DEF Forwarded
<1>8. CASE cpc = "wait" /\ Unanswered
  BY <1>8 DEF Unanswered
<1> QED BY <1>1, <1>2, <1>3, <1>4, <1>5, <1>6, <1>7, <1>8 DEF IInv

-----------------------------------------------------------------------------
\* The client: what each of its steps leaves alone.
ReadFrame == UNCHANGED << cmd, issued, server, peers, req >>

\* A client that received a part of a list.
LEMMA ListRead ==
  ASSUME IInv, NEW T \in Nat \ {0}, NEW m \in Nat, ReadFrame,
         req = << >>, toPeer = << >>, SameDir, ListOf(T), Serving(T), shown < T,
         Track(resp, shown, m, T, AnswerType),
         Track(fromPeer, m, T - Left, T, AnswerType),
         resp # << >>, resp' = Tail(resp), cpwd' = cpwd,
         shown' = shown + Head(resp).nr,
         cpc' = IF shown' = T THEN "prompt" ELSE "wait",
         cmd.name = "directcmd" => total' = T
  PROVE  IInv' /\ shown' <= T
<1>1. /\ cmd' = cmd /\ spc' = spc /\ srv' = srv /\ spwd' = spwd /\ cwd' = cwd
      /\ raced' = raced /\ ppc' = ppc /\ peer' = peer /\ toPeer' = toPeer
      /\ fromPeer' = fromPeer /\ req' = req
  BY DEF ReadFrame, server, peers, dirs
<1>2. AnswerType' = AnswerType /\ Left' = Left /\ Serving(T)'
  BY <1>1 DEF AnswerType, Left, Serving, Sending
<1>3. Track(resp', shown', m, T, AnswerType)
  BY TrackPop
<1>4. m <= T - Left /\ T - Left \in Nat /\ (m = T - Left => fromPeer = << >>)
  BY TrackLe
<1>5. shown' \in Nat /\ shown' <= m /\ (shown' = m => resp' = << >>)
  BY <1>3, TrackLe
<1>6. /\ Left \in 0 .. T
      /\ Left = 0 => ppc = "idle" /\ spc \in {"idle", "relay"}
      /\ cmd.name \in {"w", "ll", "directcmd", "ll_peer"}
  BY ServingLeft
<1>7. shown' <= T
  BY <1>4, <1>5, <1>6
<1>8. cmd \in Requests /\ cwd \in Dirs /\ raced \in BOOLEAN
  BY DEF IInv
<1>9. CASE shown' = T
  <2>1. Left = 0 /\ m = T - Left /\ shown' = m
    BY <1>4, <1>5, <1>6, <1>9
  <2>2. Empty'
    BY <2>1, <1>1, <1>4, <1>5 DEF Empty
  <2>3. Listed' = Listed /\ SameDir' /\ T \in Listed
    BY <1>1, <1>6 DEF Listed, SameDir, ListOf
  <2>4. Prompt'
    BY <2>1, <2>2, <2>3, <1>1, <1>5, <1>6, <1>9 DEF Prompt
  <2> QED BY <2>4, <1>1, <1>7, <1>8, <1>9 DEF IInv
<1>10. CASE shown' # T
  <2>1. ListOf(T)' /\ SameDir'
    BY <1>1 DEF ListOf, SameDir
  <2>2. /\ Track(resp, shown, m, T, AnswerType)'
        /\ Track(fromPeer, m, T - Left, T, AnswerType)'
    BY <1>1, <1>2, <1>3
  <2>3. shown' < T
    BY <1>5, <1>7, <1>10
  <2>4. Streaming'
    BY <2>1, <2>2, <2>3, <1>1, <1>2 DEF Streaming
  <2> QED BY <2>4, <1>1, <1>7, <1>8, <1>10 DEF IInv
<1> QED BY <1>9, <1>10

\* A client that received its one packet.
LEMMA SingleRead ==
  ASSUME IInv, Single, resp # << >>, ReadFrame, resp' = Tail(resp),
         cpc' = "prompt", shown' = shown,
         cpwd' = IF cmd.name = "cd" /\ Head(resp).total \in Dirs
                 THEN Head(resp).total ELSE cpwd
  PROVE  IInv'
<1>1. /\ cmd' = cmd /\ spc' = spc /\ srv' = srv /\ spwd' = spwd /\ cwd' = cwd
      /\ raced' = raced /\ ppc' = ppc /\ peer' = peer /\ toPeer' = toPeer
      /\ fromPeer' = fromPeer /\ req' = req
  BY DEF ReadFrame, server, peers, dirs
<1>2. PICK a : SingleRight(a) /\ resp = << a >> /\ fromPeer = << >>
  BY DEF Single
<1>3. Head(resp) = a /\ resp' = << >>
  BY <1>2
<1>4. Empty' /\ spc' \in {"idle", "relay"} /\ ppc' = "idle" /\ shown' = 0
  BY <1>1, <1>2, <1>3 DEF Empty, Single, Fresh
<1>5. shown' \in Listed' \/ (cmd'.name = "ll_peer" /\ shown' = 0) \/ FileNotShown'
  BY <1>1, <1>2, <1>4 DEF Listed, FileNotShown, SingleRight
<1>6. /\ SameDir'
      /\ (cmd.name = "cd" /\ ~ raced /\ cmd.dir \in Dirs) => cpwd' = cmd.dir
  <2>1. CASE cmd.name = "cd" /\ a.total \in Dirs
    BY <2>1, <1>1, <1>2, <1>3 DEF SingleRight, SameDir
  <2>2. CASE ~ (cmd.name = "cd" /\ a.total \in Dirs)
    BY <2>2, <1>1, <1>2, <1>3 DEF SingleRight, SameDir
  <2> QED BY <2>1, <2>2
<1>7. Prompt'
  BY <1>1, <1>4, <1>5, <1>6 DEF Prompt
<1> QED BY <1>1, <1>7 DEF IInv

\* The two forms an answer has when the client reads it.
LEMMA ReadsRight ==
  ASSUME IInv, resp # << >>
  PROVE  /\ cpc = "wait" /\ Head(resp).type = AnswerType /\ cmd \in Requests
         /\ \/ Single /\ Head(resp).nr = 0 /\ Fresh
               /\ (cmd.name = "directcmd" => Head(resp).total = 0)
            \/ \E T \in Nat \ {0}, m \in Nat :
                 /\ req = << >> /\ toPeer = << >> /\ SameDir
                 /\ ListOf(T) /\ Serving(T) /\ shown < T
                 /\ Track(resp, shown, m, T, AnswerType)
                 /\ Track(fromPeer, m, T - Left, T, AnswerType)
                 /\ Head(resp).total = T /\ Head(resp).nr \in Nat /\ Head(resp).nr > 0
<1>1. cpc = "wait" /\ (Single \/ Streaming) /\ cmd \in Requests
  BY Phases DEF IInv
<1>2. CASE Single
  <2>1. PICK a : SingleRight(a) /\ resp = << a >>
    BY <1>2 DEF Single
  <2>2. Head(resp) = a
    BY <2>1
  <2> QED BY <1>1, <1>2, <2>1, <2>2 DEF SingleRight, Single
<1>3. CASE Streaming
  <2>1. PICK T \in Nat \ {0}, m \in Nat :
            /\ req = << >> /\ toPeer = << >> /\ SameDir
            /\ ListOf(T) /\ Serving(T) /\ shown < T
            /\ Track(resp, shown, m, T, AnswerType)
            /\ Track(fromPeer, m, T - Left, T, AnswerType)
    BY <1>3 DEF Streaming
  <2>2. Head(resp) \in Packet(T, AnswerType)
    BY <2>1, TrackPop
  <2>3. /\ Head(resp).type = AnswerType /\ Head(resp).total = T
        /\ Head(resp).nr \in Nat /\ Head(resp).nr > 0
    BY <2>2, PacketFields
  <2> QED BY <1>1, <2>1, <2>3
<1> QED BY <1>1, <1>2, <1>3

LEMMA ReturnsStep ==
  ASSUME IInv, NEW N \in SUBSET {"pwd", "mps", "cd"}, Returns(N),
         cpwd' = IF cmd.name = "cd" /\ Head(resp).total \in Dirs
                 THEN Head(resp).total ELSE cpwd
  PROVE  IInv'
<1>1. cmd.name \in {"pwd", "mps", "cd"} /\ resp # << >> /\ resp' = Tail(resp)
  BY DEF Returns, Reads
<1>2. ReadFrame /\ shown' = shown
  BY DEF Returns, Reads, ReadFrame
<1>3. Single /\ Head(resp).type = AnswerType
  BY <1>1, ReadsRight, ServingLeft
<1>4. cpc' = "prompt"
  BY <1>1, <1>3 DEF Returns, Understood, AnswerType
<1> QED BY <1>1, <1>2, <1>3, <1>4, SingleRead

LEMMA ListHandlerStep ==
  ASSUME IInv, NEW N \in SUBSET {"w", "ll", "ll_peer"}, list_handler(N)
  PROVE  IInv'
<1>1. /\ cmd.name \in {"w", "ll", "ll_peer"} /\ resp # << >> /\ resp' = Tail(resp)
      /\ cpwd' = cpwd /\ total' = total
  BY DEF list_handler, Reads
<1>2. ReadFrame
  BY DEF list_handler, Reads, ReadFrame
<1>3. Understood
  BY <1>1, ReadsRight DEF Understood, AnswerType
<1>4. CASE Single /\ Head(resp).nr = 0
  <2>1. cpc' = "prompt" /\ shown' = shown
    BY <1>3, <1>4 DEF list_handler
  <2> QED BY <2>1, <1>1, <1>2, <1>4, SingleRead
<1>5. CASE ~ (Single /\ Head(resp).nr = 0)
  <2>1. PICK T \in Nat \ {0}, m \in Nat :
                 /\ req = << >> /\ toPeer = << >> /\ SameDir
                 /\ ListOf(T) /\ Serving(T) /\ shown < T
                 /\ Track(resp, shown, m, T, AnswerType)
                 /\ Track(fromPeer, m, T - Left, T, AnswerType)
                 /\ Head(resp).total = T /\ Head(resp).nr \in Nat /\ Head(resp).nr > 0
    BY <1>1, <1>5, ReadsRight
  <2>2. shown' = shown + Head(resp).nr /\ cpc' = IF shown' = T THEN "prompt" ELSE "wait"
    BY <1>3, <2>1 DEF list_handler, Items
  <2> QED BY <2>1, <2>2, <1>1, <1>2, ListRead
<1> QED BY <1>4, <1>5

LEMMA DirectcmdStep == ASSUME IInv, execute_directcmd PROVE IInv'
<1>1. /\ cmd.name = "directcmd" /\ resp # << >> /\ resp' = Tail(resp) /\ cpwd' = cpwd
  BY DEF execute_directcmd, Reads
<1>2. ReadFrame
  BY DEF execute_directcmd, Reads, ReadFrame
<1>3. Understood
  BY <1>1, ReadsRight DEF Understood, AnswerType
<1>4. CASE Single /\ Head(resp).nr = 0 /\ Fresh /\ Head(resp).total = 0
  <2>1. shown = 0 /\ total = -1
    BY <1>4 DEF Fresh
  <2>2. cpc' = "prompt" /\ shown' = shown
    BY <1>3, <1>4, <2>1 DEF execute_directcmd
  <2> QED BY <2>2, <1>1, <1>2, <1>4, SingleRead
<1>5. CASE ~ (Single /\ Head(resp).nr = 0 /\ Fresh /\ Head(resp).total = 0)
  <2>1. PICK T \in Nat \ {0}, m \in Nat :
                 /\ req = << >> /\ toPeer = << >> /\ SameDir
                 /\ ListOf(T) /\ Serving(T) /\ shown < T
                 /\ Track(resp, shown, m, T, AnswerType)
                 /\ Track(fromPeer, m, T - Left, T, AnswerType)
                 /\ Head(resp).total = T /\ Head(resp).nr \in Nat /\ Head(resp).nr > 0
    BY <1>1, <1>5, ReadsRight
  <2>2. total \in {-1, T}
    BY <2>1, <1>1 DEF ListOf
  <2>3. /\ shown' = shown + Head(resp).nr /\ total' = T
        /\ cpc' = IF shown' = T THEN "prompt" ELSE "wait"
    BY <1>3, <2>1, <2>2 DEF execute_directcmd
  <2> QED BY <2>1, <2>3, <1>1, <1>2, ListRead
<1> QED BY <1>1, <1>4, <1>5, ReadsRight

LEMMA ClientStep == ASSUME IInv, Client PROVE IInv'
<1>1. CASE sftt_client_pwd_handler
  <2>1. cmd.name # "cd" /\ cpwd' = cpwd
    BY <1>1 DEF sftt_client_pwd_handler, Returns, Reads
  <2> QED BY <2>1, <1>1, ReturnsStep DEF sftt_client_pwd_handler
<1>2. CASE sftt_client_mps_handler
  <2>1. cmd.name # "cd" /\ cpwd' = cpwd
    BY <1>2 DEF sftt_client_mps_handler, Returns, Reads
  <2> QED BY <2>1, <1>2, ReturnsStep DEF sftt_client_mps_handler
<1>3. CASE sftt_client_cd_handler
  <2>1. cmd.name = "cd"
    BY <1>3 DEF sftt_client_cd_handler, Returns, Reads
  <2> QED BY <2>1, <1>3, ReturnsStep DEF sftt_client_cd_handler
<1>4. CASE sftt_client_ll_handler
  BY <1>4, ListHandlerStep DEF sftt_client_ll_handler
<1>5. CASE get_friend_list
  BY <1>5, ListHandlerStep DEF get_friend_list
<1>6. CASE execute_directcmd
  BY <1>6, DirectcmdStep
<1> QED BY <1>1, <1>2, <1>3, <1>4, <1>5, <1>6 DEF Client

-----------------------------------------------------------------------------
\* A command is typed: at the prompt nothing of the last one is under way.
LEMMA ExecuteStep == ASSUME IInv, NEW c \in Requests, execute_cmd(c) PROVE IInv'
<1>1. Prompt /\ cwd \in Dirs
  BY DEF IInv, execute_cmd
<1>2. /\ cmd' = c /\ shown' = 0 /\ total' = -1 /\ raced' = FALSE /\ cpc' = "wait"
      /\ cpwd' = cpwd /\ spc' = spc /\ spwd' = spwd /\ cwd' = cwd /\ resp' = resp
      /\ ppc' = ppc /\ toPeer' = toPeer /\ fromPeer' = fromPeer
  BY DEF execute_cmd, peers
<1>3. req' = << c >>
  BY <1>1 DEF execute_cmd, Prompt, Empty
<1>4. Pending'
  BY <1>1, <1>2, <1>3 DEF Pending, Prompt, Empty, SameDir, Fresh
<1> QED BY <1>1, <1>2, <1>4 DEF IInv

\* chdir() of another session is only seen between chdir() and getcwd().
LEMMA OtherStep == ASSUME IInv, NEW d \in Dirs, other_session_cd(d) PROVE IInv'
<1>1. /\ cmd' = cmd /\ cpc' = cpc /\ shown' = shown /\ total' = total /\ cpwd' = cpwd
      /\ spc' = spc /\ srv' = srv /\ spwd' = spwd /\ ppc' = ppc /\ peer' = peer
      /\ toPeer' = toPeer /\ fromPeer' = fromPeer /\ req' = req /\ resp' = resp
      /\ cwd' = d /\ raced' = (raced \/ spc = "getcwd")
  BY DEF other_session_cd, client, peers
<1>2. raced' \in BOOLEAN /\ (spc = "getcwd" => raced') /\ (spc # "getcwd" => raced' = raced)
  BY <1>1 DEF IInv
<1>3. Empty' = Empty /\ SameDir' = SameDir /\ Fresh' = Fresh /\ Listed' = Listed
      /\ FileNotShown' = FileNotShown
  BY <1>1 DEF Empty, SameDir, Fresh, Listed, FileNotShown
<1>4. cpc = "prompt" => Prompt'
  BY <1>1, <1>2, <1>3 DEF IInv, Prompt
<1>5. CASE cpc = "wait" /\ Pending
  <2>1. Pending'
    BY <1>1, <1>3, <1>5 DEF Pending
  <2> QED BY <2>1, <1>1, <1>2, <1>5 DEF IInv
<1>6. CASE cpc = "wait" /\ Getcwd
  <2>1. Getcwd'
    BY <1>1, <1>2, <1>3, <1>6 DEF Getcwd
  <2> QED BY <2>1, <1>1, <1>2, <1>6 DEF IInv
<1>7. CASE cpc = "wait" /\ Single
  <2>1. \A a : SingleRight(a)' <=> SingleRight(a)
    BY <1>1, <1>2, <1>3, <1>7 DEF SingleRight, Single, AnswerType
  <2>2. Single'
    BY <1>1, <1>3, <1>7, <2>1 DEF Single
  <2> QED BY <2>2, <1>1, <1>2, <1>7 DEF IInv
<1>8. CASE cpc = "wait" /\ Streaming
  <2>1. AnswerType' = AnswerType /\ Left' = Left
    BY <1>1 DEF AnswerType, Left
  <2>2. \A T : Serving(T)' <=> Serving(T)
    BY <1>1 DEF Serving, Sending
  <2>3. \A T : ListOf(T)' <=> ListOf(T)
    BY <1>1 DEF ListOf
  <2>4. Streaming'
    BY <1>1, <1>3, <1>8, <2>1, <2>2, <2>3 DEF Streaming
  <2> QED BY <2>4, <1>1, <1>2, <1>8 DEF IInv
<1>9. CASE cpc = "wait" /\ Zero
  <2>1. Zero'
    BY <1>1, <1>3, <1>9 DEF Zero
  <2> QED BY <2>1, <1>1, <1>2, <1>9 DEF IInv
<1>10. CASE cpc = "wait" /\ Forwarded
  <2>1. Forwarded'
    BY <1>1, <1>3, <1>10 DEF Forwarded
  <2> QED BY <2>1, <1>1, <1>2, <1>10 DEF IInv
<1>11. CASE cpc = "wait" /\ Unanswered
  <2>1. Unanswered'
    BY <1>1, <1>3, <1>11 DEF Unanswered, Silent
  <2> QED BY <2>1, <1>1, <1>2, <1>11 DEF IInv
<1>12. CASE cpc = "prompt"
  BY <1>1, <1>2, <1>4, <1>12 DEF IInv
<1> QED BY <1>5, <1>6, <1>7, <1>8, <1>9, <1>10, <1>11, <1>12 DEF IInv

-----------------------------------------------------------------------------
\* The server reads a request: it is the command the client waits for.
LEMMA ServesFacts ==
  ASSUME IInv, NEW N, Serves(N)
  PROVE  /\ Pending /\ spc = "idle" /\ cpc = "wait" /\ Head(req) = cmd /\ cmd.name \in N
         /\ cmd \in Requests /\ cwd \in Dirs /\ raced \in BOOLEAN
         /\ cmd' = cmd /\ cpc' = cpc /\ shown' = shown /\ total' = total /\ cpwd' = cpwd
         /\ req' = << >>
<1>1. req # << >> /\ spc = "idle" /\ Head(req).name \in N /\ req' = Tail(req)
  BY DEF Serves
<1>2. cpc = "wait" /\ req = << cmd >>
  BY <1>1, Phases DEF Pending
<1>3. /\ cmd' = cmd /\ cpc' = cpc /\ shown' = shown /\ total' = total /\ cpwd' = cpwd
  BY DEF Serves, client
<1> QED BY <1>1, <1>2, <1>3, Phases DEF IInv

\* It answers with one packet.
LEMMA RepliesStep ==
  ASSUME IInv, NEW N, NEW a, Serves(N), resp' = Append(resp, a),
         UNCHANGED << spc, srv, peers, dirs >>, SingleRight(a)
  PROVE  IInv'
<1>1. /\ Pending /\ spc = "idle" /\ cpc = "wait"
      /\ cmd \in Requests /\ cwd \in Dirs /\ raced \in BOOLEAN
      /\ cmd' = cmd /\ cpc' = cpc /\ shown' = shown /\ total' = total /\ cpwd' = cpwd
      /\ req' = << >>
  BY ServesFacts
<1>2. /\ spc' = spc /\ srv' = srv /\ spwd' = spwd /\ ppc' = ppc /\ peer' = peer
      /\ toPeer' = toPeer /\ fromPeer' = fromPeer /\ cwd' = cwd /\ raced' = raced
  BY DEF peers, dirs
<1>3. resp' = << a >> /\ fromPeer' = << >> /\ toPeer' = << >>
  BY <1>1, <1>2 DEF Pending
<1>4. SingleRight(a)'
  BY <1>1, <1>2 DEF SingleRight, AnswerType, SameDir
<1>5. Single'
  BY <1>1, <1>2, <1>3, <1>4 DEF Single, Pending, Fresh
<1> QED BY <1>1, <1>2, <1>5 DEF IInv

\* It starts to send a list of T items.
LEMMA StartStep ==
  ASSUME IInv, NEW N, Serves(N), NEW T \in Nat \ {0}, ListOf(T),
         cmd.name \in {"w", "ll", "directcmd"},
         spc' = (IF cmd.name = "w" THEN "who" ELSE cmd.name), NEW rev \in Int,
         srv' = Object(T, rev), UNCHANGED << peers, dirs, resp >>
  PROVE  IInv'
<1>1. /\ Pending /\ spc = "idle" /\ cpc = "wait"
      /\ cmd \in Requests /\ cwd \in Dirs /\ raced \in BOOLEAN
      /\ cmd' = cmd /\ cpc' = cpc /\ shown' = shown /\ total' = total /\ cpwd' = cpwd
      /\ req' = << >>
  BY ServesFacts
<1>2. /\ spwd' = spwd /\ ppc' = ppc /\ peer' = peer /\ resp' = resp
      /\ toPeer' = toPeer /\ fromPeer' = fromPeer /\ cwd' = cwd /\ raced' = raced
  BY DEF peers, dirs
<1>3. /\ srv'.left = T /\ srv'.total = T /\ srv'.done = 0 /\ srv'.reversed = FALSE
      /\ srv' \in Objects
  BY DEF Object, Objects
<1>4. resp' = << >> /\ fromPeer' = << >> /\ toPeer' = << >> /\ ppc' = "idle" /\ shown' = 0
  BY <1>1, <1>2 DEF Pending, Fresh
<1>5. spc' \in {"who", "ll", "directcmd"} /\ Left' = T
  BY <1>3 DEF Left
<1>6. Serving(T)'
  BY <1>1, <1>3, <1>4, <1>5 DEF Serving, Sending
<1>7. ListOf(T)' /\ SameDir'
  BY <1>1, <1>2 DEF ListOf, Pending, SameDir
<1>8. /\ Track(resp, shown, 0, T, AnswerType)'
      /\ Track(fromPeer, 0, T - Left, T, AnswerType)'
  <2>1. Track(<< >>, 0, 0, T, AnswerType')
    BY TrackEmpty
  <2>2. T - Left' = 0
    BY <1>5
  <2> QED BY <2>1, <2>2, <1>4
<1>9. Streaming'
  BY <1>1, <1>4, <1>6, <1>7, <1>8 DEF Streaming
<1> QED BY <1>1, <1>2, <1>9 DEF IInv

\* What is being sent, and of which list.
LEMMA SendingFacts ==
  ASSUME IInv, spc \in {"who", "ll", "directcmd"}, ~ Zero
  PROVE  /\ cpc = "wait" /\ cmd \in Requests /\ cwd \in Dirs /\ raced \in BOOLEAN
         /\ cmd.name \in {"w", "ll", "directcmd"}
         /\ spc = IF cmd.name = "w" THEN "who" ELSE cmd.name
         /\ \E T \in Nat \ {0} :
              /\ req = << >> /\ toPeer = << >> /\ SameDir /\ ppc = "idle" /\ fromPeer = << >>
              /\ ListOf(T) /\ shown < T
              /\ srv \in Objects /\ srv.left \in 1 .. T /\ srv.total = T
              /\ ~ srv.reversed /\ (spc = "directcmd" => srv.done = T - srv.left)
              /\ Track(resp, shown, T - srv.left, T, AnswerType)
<1>1. cpc = "wait" /\ Streaming /\ cmd \in Requests /\ cwd \in Dirs /\ raced \in BOOLEAN
  BY Phases DEF IInv
<1>2. PICK T \in Nat \ {0}, m \in Nat :
         /\ req = << >> /\ toPeer = << >> /\ SameDir
         /\ ListOf(T) /\ Serving(T) /\ shown < T
         /\ Track(resp, shown, m, T, AnswerType)
         /\ Track(fromPeer, m, T - Left, T, AnswerType)
  BY <1>1 DEF Streaming
<1>3. /\ cmd.name \in {"w", "ll", "directcmd"} /\ ppc = "idle" /\ fromPeer = << >>
      /\ spc = (IF cmd.name = "w" THEN "who" ELSE cmd.name)
      /\ srv \in Objects /\ srv.left \in 1 .. T /\ srv.total = T /\ ~ srv.reversed
      /\ spc = "directcmd" => srv.done = T - srv.left
  BY <1>2 DEF Serving, Sending
<1>4. m = T - Left /\ Left = srv.left
  BY <1>2, <1>3, TrackLe DEF Left
<1> QED BY <1>1, <1>2, <1>3, <1>4

LEMMA SendStep ==
  ASSUME IInv, NEW T \in Nat \ {0}, NEW n \in Nat, n > 0, n <= srv.left,
         cpc = "wait", cmd.name \in {"w", "ll", "directcmd"},
         spc = IF cmd.name = "w" THEN "who" ELSE cmd.name,
         req = << >>, toPeer = << >>, SameDir, ppc = "idle", fromPeer = << >>,
         ListOf(T), shown < T, srv.left \in 1 .. T,
         Track(resp, shown, T - srv.left, T, AnswerType),
         resp' = Append(resp, Answer(AnswerType, T, n)),
         srv' \in Objects, srv'.left = srv.left - n, srv'.total = T, ~ srv'.reversed,
         spc = "directcmd" => srv'.done = T - srv'.left,
         spc' = (IF srv.left = n THEN "idle" ELSE spc),
         UNCHANGED << client, dirs, peers, req >>
  PROVE  IInv'
<1>1. /\ cmd' = cmd /\ cpc' = cpc /\ shown' = shown /\ total' = total /\ cpwd' = cpwd
      /\ spwd' = spwd /\ ppc' = ppc /\ peer' = peer /\ req' = req
      /\ toPeer' = toPeer /\ fromPeer' = fromPeer /\ cwd' = cwd /\ raced' = raced
  BY DEF client, peers, dirs
<1>2. ListOf(T)' /\ SameDir' /\ AnswerType' = AnswerType
  BY <1>1 DEF ListOf, SameDir, AnswerType
<1>3. Left' = srv.left - n /\ Left' \in 0 .. T
  <2>1. CASE srv.left = n
    BY <2>1, <1>1 DEF Left
  <2>2. CASE srv.left # n
    BY <2>2, <1>1 DEF Left
  <2> QED BY <2>1, <2>2
<1>4. Serving(T)'
  <2>1. CASE srv.left = n
    BY <2>1, <1>1 DEF Serving
  <2>2. CASE srv.left # n
    <3>1. srv'.left \in 1 .. T /\ spc' = spc
      BY <2>2
    <3> QED BY <3>1, <1>1 DEF Serving, Sending
  <2> QED BY <2>1, <2>2
<1>5. Track(resp', shown, (T - srv.left) + n, T, AnswerType)
  BY TrackPush
<1>6. (T - srv.left) + n = T - Left' /\ T - Left' \in Nat
  BY <1>3
<1>7. /\ Track(resp, shown, T - Left, T, AnswerType)'
      /\ Track(fromPeer, T - Left, T - Left, T, AnswerType)'
  <2>1. Track(<< >>, T - Left', T - Left', T, AnswerType')
    BY <1>6, TrackEmpty
  <2> QED BY <2>1, <1>1, <1>2, <1>5, <1>6
<1>8. Streaming'
  BY <1>1, <1>2, <1>4, <1>6, <1>7 DEF Streaming
<1> QED BY <1>1, <1>8 DEF IInv

LEMMA LesserFacts ==
  ASSUME NEW k \in Nat \ {0}, NEW b \in Nat \ {0}
  PROVE  Lesser(k, b) \in Nat /\ Lesser(k, b) > 0 /\ Lesser(k, b) <= k
BY DEF Lesser

\* Without the codec in place an object keeps what it holds.
LEMMA NotInPlace ==
  ASSUME InPlace = FALSE, NEW o, ~ o.reversed
  PROVE  /\ Holds(o) = o.total
         /\ AfterSend(o) = [o EXCEPT !.reversed = FALSE]
BY DEF Holds, AfterSend

-----------------------------------------------------------------------------
\* The handlers that answer with one packet.
LEMMA SingleSteps ==
  ASSUME IInv,
         \/ handle_pwd_req \/ handle_mp_stat_req \/ handle_cd_fails \/ handle_who_none
         \/ handle_directcmd_fails \/ handle_fwd_ll_no_peer
  PROVE  IInv'
<1>1. ASSUME NEW n, NEW a, Serves({n}), Replies(a), UNCHANGED dirs, SingleRight(a) PROVE IInv'
  <2>1. resp' = Append(resp, a) /\ UNCHANGED << spc, srv, peers, dirs >>
    BY <1>1 DEF Replies
  <2> QED BY <1>1, <2>1, RepliesStep
<1>2. ASSUME NEW n, Serves({n}) PROVE Pending /\ SameDir /\ Head(req) = cmd /\ cmd.name = n
  <2>1. Pending /\ Head(req) = cmd /\ cmd.name \in {n}
    BY <1>2, ServesFacts
  <2> QED BY <2>1 DEF Pending
<1>3. CASE handle_pwd_req
  <2>1. Serves({"pwd"}) /\ Replies(Plain("pwd")) /\ UNCHANGED dirs
    BY <1>3 DEF handle_pwd_req
  <2>2. SameDir /\ cmd.name = "pwd"
    BY <2>1, <1>2
  <2>3. SingleRight(Plain("pwd"))
    BY <2>2 DEF SingleRight, Plain, Answer, AnswerType
  <2> QED BY <2>1, <2>3, <1>1
<1>4. CASE handle_mp_stat_req
  <2>1. Serves({"mps"}) /\ Replies(Plain("mps")) /\ UNCHANGED dirs
    BY <1>4 DEF handle_mp_stat_req
  <2>2. SameDir /\ cmd.name = "mps"
    BY <2>1, <1>2
  <2>3. SingleRight(Plain("mps"))
    BY <2>2 DEF SingleRight, Plain, Answer, AnswerType
  <2> QED BY <2>1, <2>3, <1>1
<1>5. CASE handle_cd_fails
  <2>1. /\ Serves({"cd"}) /\ Replies(Answer("cd", "missing", 0)) /\ UNCHANGED dirs
        /\ Head(req).dir \notin Dirs
    BY <1>5 DEF handle_cd_fails
  <2>2. SameDir /\ cmd.name = "cd" /\ Head(req) = cmd
    BY <2>1, <1>2
  <2>3. cmd \in Requests
    BY DEF IInv
  <2>4. cmd.dir \in Dirs \cup {"missing"}
    BY <2>2, <2>3 DEF Requests
  <2>5. "missing" \notin Dirs /\ cmd.dir \notin Dirs
    BY <2>1, <2>2, <2>4
  <2>6. SingleRight(Answer("cd", "missing", 0))
    BY <2>2, <2>5 DEF SingleRight, Answer, AnswerType
  <2> QED BY <2>1, <2>6, <1>1
<1>6. CASE handle_who_none
  <2>1. /\ Serves({"w"}) /\ Replies(Plain("w")) /\ UNCHANGED dirs /\ Head(req).users = 0
    BY <1>6 DEF handle_who_none
  <2>2. SameDir /\ cmd.name = "w" /\ Head(req) = cmd
    BY <2>1, <1>2
  <2>3. SingleRight(Plain("w"))
    BY <2>1, <2>2 DEF SingleRight, Plain, Answer, AnswerType
  <2> QED BY <2>1, <2>3, <1>1
<1>7. CASE handle_directcmd_fails
  <2>1. /\ Serves({"directcmd"}) /\ Replies(Plain("directcmd")) /\ UNCHANGED dirs
    BY <1>7 DEF handle_directcmd_fails
  <2>2. SameDir /\ cmd.name = "directcmd"
    BY <2>1, <1>2
  <2>3. SingleRight(Plain("directcmd"))
    BY <2>2 DEF SingleRight, Plain, Answer, AnswerType
  <2> QED BY <2>1, <2>3, <1>1
<1>8. CASE handle_fwd_ll_no_peer
  <2>1. /\ Serves({"ll_peer"}) /\ Replies(Plain("ll")) /\ UNCHANGED dirs
    BY <1>8 DEF handle_fwd_ll_no_peer
  <2>2. SameDir /\ cmd.name = "ll_peer"
    BY <2>1, <1>2
  <2>3. SingleRight(Plain("ll"))
    BY <2>2 DEF SingleRight, Plain, Answer, AnswerType
  <2> QED BY <2>1, <2>3, <1>1
<1> QED BY <1>3, <1>4, <1>5, <1>6, <1>7, <1>8

\* cd: chdir(), then getcwd().
LEMMA CdStep == ASSUME IInv, handle_cd_req PROVE IInv'
<1>1. Serves({"cd"}) /\ Head(req).dir \in Dirs /\ cwd' = Head(req).dir /\ spc' = "getcwd"
  BY DEF handle_cd_req
<1>2. /\ Pending /\ Head(req) = cmd /\ cmd.name \in {"cd"} /\ cpc = "wait" /\ cmd \in Requests
      /\ raced \in BOOLEAN
      /\ cmd' = cmd /\ cpc' = cpc /\ shown' = shown /\ total' = total /\ cpwd' = cpwd
      /\ req' = << >>
  BY <1>1, ServesFacts
<1>3. /\ spwd' = spwd /\ raced' = raced /\ ppc' = ppc /\ toPeer' = toPeer
      /\ fromPeer' = fromPeer /\ resp' = resp
  BY DEF handle_cd_req, peers
<1>4. Getcwd'
  BY <1>1, <1>2, <1>3 DEF Getcwd, Pending, Empty, SameDir, Fresh
<1> QED BY <1>1, <1>2, <1>3, <1>4 DEF IInv

LEMMA GetcwdStep == ASSUME IInv, handle_cd_getcwd PROVE IInv'
<1>0. PICK a : a = Answer("cd", cwd, 0)
  OBVIOUS
<1>1. cpc = "wait" /\ Getcwd /\ cmd \in Requests /\ cwd \in Dirs /\ raced \in BOOLEAN
  BY Phases DEF handle_cd_getcwd, IInv
<1>2. /\ cmd' = cmd /\ cpc' = cpc /\ shown' = shown /\ total' = total /\ cpwd' = cpwd
      /\ spwd' = cwd /\ cwd' = cwd /\ raced' = raced /\ ppc' = ppc /\ toPeer' = toPeer
      /\ fromPeer' = fromPeer /\ req' = req /\ spc' = "idle" /\ resp' = Append(resp, a)
  BY <1>0 DEF handle_cd_getcwd, client, peers
<1>3. a.type = "cd" /\ a.total = cwd /\ a.nr = 0
  BY <1>0 DEF Answer
<1>4. resp' = << a >> /\ fromPeer' = << >> /\ req' = << >> /\ toPeer' = << >>
  BY <1>1, <1>2 DEF Getcwd, Empty
<1>5. SingleRight(a)'
  BY <1>1, <1>2, <1>3 DEF SingleRight, AnswerType, Getcwd
<1>6. Single'
  BY <1>1, <1>2, <1>4, <1>5 DEF Single, Getcwd, Fresh
<1> QED BY <1>1, <1>2, <1>6 DEF IInv

LEMMA WriteStep == ASSUME IInv, handle_write_req PROVE IInv'
<1>1. Serves({"write"})
  BY DEF handle_write_req
<1>2. /\ Pending /\ cpc = "wait" /\ cmd \in Requests /\ cwd \in Dirs
      /\ raced \in BOOLEAN /\ spc = "idle"
      /\ cmd' = cmd /\ cpc' = cpc /\ shown' = shown /\ total' = total /\ cpwd' = cpwd
      /\ req' = << >>
  BY <1>1, ServesFacts
<1>3. /\ spc' = spc /\ spwd' = spwd /\ cwd' = cwd /\ raced' = raced /\ ppc' = ppc
      /\ fromPeer' = fromPeer /\ resp' = resp
      /\ toPeer' = toPeer \/ toPeer' = Append(toPeer, [name |-> "write"])
  BY DEF handle_write_req, server, dirs
<1>4. toPeer' = << >> \/ toPeer' = << [name |-> "write"] >>
  <2>1. toPeer = << >>
    BY <1>2 DEF Pending
  <2> QED BY <2>1, <1>3
<1>5. Silent'
  BY <1>1, <1>2, ServesFacts DEF Silent
<1>6. Unanswered'
  BY <1>2, <1>3, <1>4, <1>5 DEF Unanswered, Pending, SameDir
<1> QED BY <1>2, <1>3, <1>6 DEF IInv

-----------------------------------------------------------------------------
\* The handlers of the server that send a list.
LEMMA ReversedInt == ASSUME NEW n PROVE Reversed(n) \subseteq Int
BY DEF Reversed, Huge

LEMMA WhoStep == ASSUME IInv, handle_who_req PROVE IInv'
<1>1. /\ Serves({"w"}) /\ Head(req).users > 0 /\ spc' = "who"
      /\ srv' = Object(Head(req).users, 0) /\ UNCHANGED << peers, dirs, resp >>
  BY DEF handle_who_req
<1>2. Head(req) = cmd /\ cmd.name \in {"w"} /\ cmd \in Requests
  BY <1>1, ServesFacts
<1>3. cmd.name = "w" /\ cmd.users \in Nat \ {0}
  BY <1>1, <1>2, RequestFacts
<1>4. ListOf(cmd.users)
  BY <1>3 DEF ListOf
<1>5. PICK T \in Nat \ {0} : T = cmd.users
  BY <1>3
<1> QED BY <1>1, <1>2, <1>3, <1>4, <1>5, StartStep

LEMMA LlStep == ASSUME IInv, handle_ll_req PROVE IInv'
<1>1. /\ Serves({"ll"}) /\ Head(req).path.kind = "dir" /\ spc' = "ll"
      /\ UNCHANGED << peers, dirs, resp >>
  BY DEF handle_ll_req
<1>2. PICK rev \in Reversed(Head(req).path.entries) : srv' = Object(Head(req).path.entries, rev)
  BY DEF handle_ll_req
<1>3. Head(req) = cmd /\ cmd.name \in {"ll"} /\ cmd \in Requests
  BY <1>1, ServesFacts
<1>4. cmd.name = "ll" /\ cmd.path \in Paths
  BY <1>3, RequestFacts
<1>5. cmd.path.entries \in Nat \ {0}
  BY <1>1, <1>3, <1>4, PathFacts
<1>6. PICK T \in Nat \ {0} : T = cmd.path.entries
  BY <1>5
<1>7. ListOf(T) /\ rev \in Int
  BY <1>2, <1>4, <1>6, ReversedInt DEF ListOf
<1> QED BY <1>1, <1>2, <1>3, <1>4, <1>6, <1>7, StartStep

LEMMA DirectcmdReqStep == ASSUME IInv, handle_directcmd_req PROVE IInv'
<1>1. /\ Serves({"directcmd"}) /\ Head(req).len >= 0 /\ spc' = "directcmd"
      /\ UNCHANGED << peers, dirs, resp >>
  BY DEF handle_directcmd_req
<1>2. PICK rev \in Reversed(Head(req).len) : srv' = Object(Head(req).len, rev)
  BY DEF handle_directcmd_req
<1>3. /\ Pending /\ Head(req) = cmd /\ cmd.name \in {"directcmd"} /\ cmd \in Requests
      /\ cwd \in Dirs /\ raced \in BOOLEAN /\ cpc = "wait"
      /\ cmd' = cmd /\ cpc' = cpc /\ shown' = shown /\ total' = total /\ cpwd' = cpwd
      /\ req' = << >>
  BY <1>1, ServesFacts
<1>4. cmd.name = "directcmd" /\ cmd.len \in Nat /\ rev \in Int
  BY <1>1, <1>2, <1>3, RequestFacts, ReversedInt
<1>5. CASE cmd.len = 0
  <2>1. srv' = Object(0, rev)
    BY <1>2, <1>3, <1>5
  <2>2. /\ srv' \in Objects /\ srv'.left = 0 /\ srv'.done = 0 /\ srv'.total = 0
        /\ srv'.reversed = FALSE
    BY <2>1, <1>4 DEF Object, Objects
  <2>3. /\ spwd' = spwd /\ ppc' = ppc /\ resp' = resp /\ toPeer' = toPeer
        /\ fromPeer' = fromPeer /\ cwd' = cwd /\ raced' = raced
    BY <1>1 DEF peers, dirs
  <2>4. Zero'
    BY <2>2, <2>3, <1>1, <1>3, <1>4 DEF Zero, Pending, Empty, SameDir, Fresh
  <2> QED BY <2>3, <2>4, <1>3 DEF IInv
<1>6. CASE cmd.len # 0
  <2>1. PICK T \in Nat \ {0} : T = cmd.len
    BY <1>4, <1>6
  <2>2. ListOf(T)
    BY <1>3, <1>4, <2>1 DEF ListOf, Pending, Fresh
  <2> QED BY <1>1, <1>2, <1>3, <1>4, <2>1, <2>2, StartStep
<1> QED BY <1>5, <1>6

\* One round of who_send.
LEMMA WhoSendStep == ASSUME IInv, who_send PROVE IInv'
<1>1. spc = "who" /\ ~ Zero
  BY DEF who_send, Zero
<1>2. PICK T \in Nat \ {0} :
              /\ req = << >> /\ toPeer = << >> /\ SameDir /\ ppc = "idle" /\ fromPeer = << >>
              /\ ListOf(T) /\ shown < T
              /\ srv \in Objects /\ srv.left \in 1 .. T /\ srv.total = T
              /\ ~ srv.reversed /\ (spc = "directcmd" => srv.done = T - srv.left)
              /\ Track(resp, shown, T - srv.left, T, AnswerType)
  BY <1>1, SendingFacts
<1>3. cpc = "wait" /\ cmd.name = "w"
  BY <1>1, SendingFacts
<1>4. PICK n \in Nat : n = Lesser(srv.left, Batch) /\ n > 0 /\ n <= srv.left
  <2>1. srv.left \in Nat \ {0} /\ Batch \in Nat \ {0}
    BY <1>2, CommandsAssumption
  <2>2. /\ Lesser(srv.left, Batch) \in Nat /\ Lesser(srv.left, Batch) > 0
        /\ Lesser(srv.left, Batch) <= srv.left
    BY <2>1, LesserFacts
  <2> QED BY <2>2
<1>5. /\ resp' = Append(resp, Answer("w", srv.total, n))
      /\ srv' = [srv EXCEPT !.left = @ - n]
      /\ spc' = (IF srv.left = n THEN "idle" ELSE "who")
      /\ UNCHANGED << client, dirs, peers, req >>
  BY <1>4 DEF who_send
<1>6. srv.left - n \in Nat /\ srv.left \in Nat /\ srv.done \in Nat /\ srv.total \in Nat
  BY <1>2, <1>4 DEF Objects
<1>7. srv' \in Objects /\ srv'.left = srv.left - n /\ srv'.total = T /\ ~ srv'.reversed
  BY <1>2, <1>5, <1>6 DEF Objects
<1>8. AnswerType = "w"
  BY <1>3 DEF AnswerType
<1> QED BY <1>1, <1>2, <1>3, <1>4, <1>5, <1>7, <1>8, SendStep

\* What a round of a listing does to its object.
LEMMA LlAfter ==
  ASSUME InPlace = FALSE, NEW T \in Nat \ {0}, NEW o \in Objects,
         o.left \in 1 .. T, o.total = T, ~ o.reversed
  PROVE  \E n \in Nat :
           /\ n > 0 /\ n <= o.left /\ ll_packet(o) = Answer("ll", T, n)
           /\ ll_after(o) \in Objects /\ ll_after(o).left = o.left - n
           /\ ll_after(o).total = T /\ ~ ll_after(o).reversed
<1>1. PICK n \in Nat : n = Lesser(o.left, Batch) /\ n > 0 /\ n <= o.left
  <2>1. o.left \in Nat \ {0} /\ Batch \in Nat \ {0}
    BY CommandsAssumption
  <2>2. /\ Lesser(o.left, Batch) \in Nat /\ Lesser(o.left, Batch) > 0
        /\ Lesser(o.left, Batch) <= o.left
    BY <2>1, LesserFacts
  <2> QED BY <2>2
<1>2. ll_packet(o) = Answer("ll", T, n)
  BY <1>1, NotInPlace DEF ll_packet
<1>3. o.left - n \in Nat
  BY <1>1
<1> DEFINE u == [o EXCEPT !.left = @ - n]
<1>4. u \in Objects /\ u.left = o.left - n /\ u.total = T /\ u.reversed = o.reversed
  BY <1>3 DEF Objects
<1>5. ll_after(o) = AfterSend(u)
  BY <1>1 DEF ll_after
<1> HIDE DEF u
<1>6. AfterSend(u) = [u EXCEPT !.reversed = FALSE]
  BY <1>4, NotInPlace
<1>7. /\ AfterSend(u) \in Objects /\ AfterSend(u).left = u.left
      /\ AfterSend(u).total = u.total /\ AfterSend(u).reversed = FALSE
  BY <1>4, <1>6 DEF Objects
<1> QED BY <1>1, <1>2, <1>4, <1>5, <1>7

LEMMA LlSendStep == ASSUME InPlace = FALSE, IInv, ll_send PROVE IInv'
<1>1. spc = "ll" /\ ~ Zero
  BY DEF ll_send, Zero
<1>2. PICK T \in Nat \ {0} :
              /\ req = << >> /\ toPeer = << >> /\ SameDir /\ ppc = "idle" /\ fromPeer = << >>
              /\ ListOf(T) /\ shown < T
              /\ srv \in Objects /\ srv.left \in 1 .. T /\ srv.total = T
              /\ ~ srv.reversed /\ (spc = "directcmd" => srv.done = T - srv.left)
              /\ Track(resp, shown, T - srv.left, T, AnswerType)
  BY <1>1, SendingFacts
<1>3. cpc = "wait" /\ cmd.name = "ll"
  BY <1>1, SendingFacts
<1>4. PICK n \in Nat :
           /\ n > 0 /\ n <= srv.left /\ ll_packet(srv) = Answer("ll", T, n)
           /\ ll_after(srv) \in Objects /\ ll_after(srv).left = srv.left - n
           /\ ll_after(srv).total = T /\ ~ ll_after(srv).reversed
  BY <1>2, LlAfter
<1>5. /\ resp' = Append(resp, Answer("ll", T, n))
      /\ srv' \in Objects /\ srv'.left = srv.left - n /\ srv'.total = T /\ ~ srv'.reversed
      /\ UNCHANGED << client, dirs, peers, req >>
  BY <1>4 DEF ll_send
<1>6. spc' = IF srv.left = n THEN "idle" ELSE "ll"
  BY <1>2, <1>4, <1>5 DEF ll_send
<1>7. AnswerType = "ll"
  BY <1>3 DEF AnswerType
<1> QED BY <1>1, <1>2, <1>3, <1>4, <1>5, <1>6, <1>7, SendStep

LEMMA DirectcmdSendStep == ASSUME InPlace = FALSE, IInv, directcmd_send PROVE IInv'
<1>1. spc = "directcmd"
  BY DEF directcmd_send
<1> DEFINE k == Lesser(srv.left, 1)
           o == [srv EXCEPT !.left = @ - k, !.done = @ + k]
<1>2. /\ resp' = Append(resp, Answer("directcmd", Holds(srv), k))
      /\ spc' = (IF DirectcmdMore(o) THEN "directcmd" ELSE "idle")
      /\ srv' = AfterSend(o)
      /\ UNCHANGED << client, dirs, peers, req >>
  BY DEF directcmd_send
<1>3. ASSUME NEW T \in Nat, srv \in Objects, srv.left \in 0 .. T, srv.total = T,
             ~ srv.reversed, srv.done = T - srv.left
      PROVE  /\ k \in Nat /\ k <= srv.left /\ (srv.left > 0 => k = 1)
             /\ srv' \in Objects /\ srv'.left = srv.left - k /\ srv'.total = T
             /\ ~ srv'.reversed /\ srv'.done = T - srv'.left
             /\ resp' = Append(resp, Answer("directcmd", T, k))
             /\ spc' = (IF srv.left = k THEN "idle" ELSE "directcmd")
  <2>1. k \in Nat /\ k <= srv.left /\ (srv.left > 0 => k = 1)
    BY <1>3 DEF Lesser
  <2> HIDE DEF k
  <2>2. srv.left - k \in Nat /\ srv.done + k \in Nat /\ srv.left \in Nat
    BY <1>3, <2>1
  <2>3. /\ o \in Objects /\ o.left = srv.left - k /\ o.done = srv.done + k
        /\ o.total = T /\ o.reversed = srv.reversed
    BY <1>3, <2>2 DEF Objects
  <2> HIDE DEF o
  <2>4. AfterSend(o) = [o EXCEPT !.reversed = FALSE]
    BY <1>3, <2>3, NotInPlace
  <2>5. /\ AfterSend(o) \in Objects /\ AfterSend(o).left = o.left
        /\ AfterSend(o).done = o.done /\ AfterSend(o).total = T
        /\ AfterSend(o).reversed = FALSE
    BY <2>3, <2>4 DEF Objects
  <2>6. Holds(AfterSend(o)) = T /\ Holds(srv) = T
    BY <1>3, <2>5 DEF Holds
  <2>7. DirectcmdMore(o) <=> srv.left # k
    BY <1>3, <2>1, <2>2, <2>3, <2>6 DEF DirectcmdMore
  <2>8. spc' = (IF srv.left = k THEN "idle" ELSE "directcmd")
    BY <1>2, <2>7
  <2>9. srv'.done = T - srv'.left
    BY <1>2, <1>3, <2>1, <2>2, <2>3, <2>5
  <2> QED BY <1>2, <2>1, <2>3, <2>5, <2>6, <2>8, <2>9
<1> HIDE DEF k, o
<1>4. CASE Zero
  <2>1. srv \in Objects /\ srv.left \in 0 .. 0 /\ srv.total = 0 /\ ~ srv.reversed /\ srv.done = 0 - srv.left
    BY <1>4 DEF Zero
  <2>2. /\ k = 0 /\ spc' = "idle" /\ resp' = Append(resp, Answer("directcmd", 0, k))
    BY <1>3, <2>1
  <2>3. /\ cmd' = cmd /\ cpc' = cpc /\ shown' = shown /\ total' = total /\ cpwd' = cpwd
        /\ spwd' = spwd /\ ppc' = ppc /\ req' = req
        /\ toPeer' = toPeer /\ fromPeer' = fromPeer /\ cwd' = cwd /\ raced' = raced
    BY <1>2 DEF client, peers, dirs
  <2>4. PICK a : a = Answer("directcmd", 0, 0)
    OBVIOUS
  <2>5. resp' = << a >>
    BY <2>2, <2>4, <1>4 DEF Zero, Empty
  <2>6. a.type = "directcmd" /\ a.total = 0 /\ a.nr = 0
    BY <2>4 DEF Answer
  <2>7. SingleRight(a)'
    BY <2>3, <2>6, <1>4 DEF SingleRight, AnswerType, Zero, SameDir
  <2>8. Single'
    BY <2>2, <2>3, <2>5, <2>7, <1>4 DEF Single, Zero, Empty, Fresh
  <2>9. cpc = "wait"
    BY <1>1, Phases
  <2> QED BY <2>3, <2>8, <2>9 DEF IInv
<1>5. CASE ~ Zero
  <2>1. PICK T \in Nat \ {0} :
              /\ req = << >> /\ toPeer = << >> /\ SameDir /\ ppc = "idle" /\ fromPeer = << >>
              /\ ListOf(T) /\ shown < T
              /\ srv \in Objects /\ srv.left \in 1 .. T /\ srv.total = T
              /\ ~ srv.reversed /\ (spc = "directcmd" => srv.done = T - srv.left)
              /\ Track(resp, shown, T - srv.left, T, AnswerType)
    BY <1>1, <1>5, SendingFacts
  <2>2. cpc = "wait" /\ cmd.name = "directcmd"
    BY <1>1, <1>5, SendingFacts
  <2>3. /\ k = 1 /\ k <= srv.left
        /\ srv' \in Objects /\ srv'.left = srv.left - k /\ srv'.total = T
        /\ ~ srv'.reversed /\ srv'.done = T - srv'.left
        /\ resp' = Append(resp, Answer("directcmd", T, k))
        /\ spc' = (IF srv.left = k THEN "idle" ELSE "directcmd")
    BY <1>1, <1>3, <2>1
  <2>4. AnswerType = "directcmd"
    BY <2>2 DEF AnswerType
  <2>5. PICK n \in Nat : n = k /\ n > 0
    BY <2>3
  <2> QED BY <1>1, <1>2, <2>1, <2>2, <2>3, <2>4, <2>5, SendStep
<1> QED BY <1>4, <1>5

-----------------------------------------------------------------------------
\* What is not a directory takes at most one packet, without entries.
LEMMA LlSingle ==
  ASSUME NEW p \in Paths, p.kind # "dir"
  PROVE  \/ ll_single(p) = << >> /\ p.kind = "special"
         \/ \E a : ll_single(p) = << a >> /\ a.type = "ll" /\ a.nr = 0
<1>1. p.kind \in {"none", "file", "unreadable", "special"}
  BY PathFacts
<1>2. CASE p.kind \in {"none", "unreadable"}
  <2>1. ll_single(p) = << Answer("ll", -1, 0) >>
    BY <1>2 DEF ll_single
  <2> QED BY <2>1 DEF Answer
<1>3. CASE p.kind = "file"
  <2>1. ll_single(p) = << Answer("ll", 1, 0) >>
    BY <1>3 DEF ll_single
  <2> QED BY <2>1 DEF Answer
<1>4. CASE p.kind = "special"
  BY <1>4 DEF ll_single
<1> QED BY <1>1, <1>2, <1>3, <1>4

LEMMA LlSingleStep == ASSUME IInv, handle_ll_req_single PROVE IInv'
<1>1. /\ Serves({"ll"}) /\ Head(req).path.kind # "dir"
      /\ resp' = resp \o ll_single(Head(req).path) /\ UNCHANGED << spc, srv, peers, dirs >>
  BY DEF handle_ll_req_single, server
<1>2. /\ Pending /\ spc = "idle" /\ Head(req) = cmd /\ cmd.name \in {"ll"} /\ cpc = "wait"
      /\ cmd \in Requests /\ cwd \in Dirs /\ raced \in BOOLEAN
      /\ cmd' = cmd /\ cpc' = cpc /\ shown' = shown /\ total' = total /\ cpwd' = cpwd
      /\ req' = << >>
  BY <1>1, ServesFacts
<1>3. cmd.name = "ll" /\ cmd.path \in Paths /\ cmd.path.kind # "dir"
  BY <1>1, <1>2, RequestFacts
<1>4. (cmd.path.entries = 0 \/ cmd.path.kind = "file") /\ resp = << >> /\ SameDir
  BY <1>2, <1>3, PathFacts DEF Pending
<1>5. CASE ll_single(cmd.path) = << >>
  <2>1. resp' = << >>
    BY <1>1, <1>2, <1>4, <1>5
  <2>2. /\ spc' = spc /\ spwd' = spwd /\ ppc' = ppc /\ toPeer' = toPeer
        /\ fromPeer' = fromPeer /\ cwd' = cwd /\ raced' = raced
    BY <1>1 DEF peers, dirs
  <2>3. Silent'
    <3>1. cmd.path.kind = "special"
      BY <1>3, <1>5, LlSingle
    <3> QED BY <1>2, <1>3, <3>1 DEF Silent
  <2>4. Unanswered'
    BY <1>2, <2>1, <2>2, <2>3 DEF Unanswered, Pending, SameDir
  <2> QED BY <1>2, <2>2, <2>4 DEF IInv
<1>6. CASE ll_single(cmd.path) # << >>
  <2>1. PICK a : ll_single(cmd.path) = << a >> /\ a.type = "ll" /\ a.nr = 0
    BY <1>3, <1>6, LlSingle
  <2>2. resp' = Append(resp, a)
    BY <1>1, <1>2, <1>4, <2>1
  <2>3. SingleRight(a)
    BY <1>3, <1>4, <2>1 DEF SingleRight, AnswerType
  <2> QED BY <1>1, <2>2, <2>3, RepliesStep
<1> QED BY <1>5, <1>6

\* The listing of a peer's directory is passed on to the peer.
LEMMA FwdStep == ASSUME IInv, handle_fwd_ll_req PROVE IInv'
<1>1. Serves({"ll_peer"}) /\ toPeer' = Append(toPeer, Head(req)) /\ spc' = "relay"
  BY DEF handle_fwd_ll_req
<1>2. /\ Pending /\ spc = "idle" /\ Head(req) = cmd /\ cmd.name \in {"ll_peer"} /\ cpc = "wait"
      /\ cmd \in Requests /\ cwd \in Dirs /\ raced \in BOOLEAN
      /\ cmd' = cmd /\ cpc' = cpc /\ shown' = shown /\ total' = total /\ cpwd' = cpwd
      /\ req' = << >>
  BY <1>1, ServesFacts
<1>3. /\ spwd' = spwd /\ ppc' = ppc /\ fromPeer' = fromPeer /\ cwd' = cwd /\ raced' = raced
      /\ resp' = resp
  BY DEF handle_fwd_ll_req, dirs
<1>4. toPeer' = << cmd >>
  BY <1>1, <1>2 DEF Pending
<1>5. Forwarded'
  BY <1>1, <1>2, <1>3, <1>4 DEF Forwarded, Pending, SameDir, Fresh
<1> QED BY <1>2, <1>3, <1>5 DEF IInv

\* The relay moves a packet from one connection to the other.
LEMMA RelayStep == ASSUME IInv, fwd_ll_relay PROVE IInv'
<1>1. /\ spc = "relay" /\ fromPeer # << >>
      /\ resp' = Append(resp, Head(fromPeer)) /\ fromPeer' = Tail(fromPeer)
  BY DEF fwd_ll_relay
<1>2. /\ cmd' = cmd /\ cpc' = cpc /\ shown' = shown /\ total' = total /\ cpwd' = cpwd
      /\ spc' = spc /\ srv' = srv /\ spwd' = spwd /\ cwd' = cwd /\ raced' = raced
      /\ ppc' = ppc /\ peer' = peer /\ toPeer' = toPeer /\ req' = req
  BY DEF fwd_ll_relay, client, server, dirs
<1>3. /\ cpc = "wait" /\ cmd \in Requests /\ cwd \in Dirs /\ raced \in BOOLEAN
      /\ Single \/ Streaming
  BY <1>1, Phases DEF IInv
<1>4. CASE Single
  <2>1. PICK a : SingleRight(a) /\ resp = << >> /\ fromPeer = << a >>
    BY <1>1, <1>4 DEF Single
  <2>2. resp' = << a >> /\ fromPeer' = << >>
    BY <1>1, <2>1
  <2>3. SingleRight(a)'
    BY <1>2, <2>1 DEF SingleRight, AnswerType, SameDir
  <2>4. Single'
    BY <1>2, <1>4, <2>2, <2>3 DEF Single, Fresh
  <2> QED BY <1>2, <1>3, <2>4 DEF IInv
<1>5. CASE Streaming
  <2>1. PICK T \in Nat \ {0}, m \in Nat :
            /\ req = << >> /\ toPeer = << >> /\ SameDir
            /\ ListOf(T) /\ Serving(T) /\ shown < T
            /\ Track(resp, shown, m, T, AnswerType)
            /\ Track(fromPeer, m, T - Left, T, AnswerType)
    BY <1>5 DEF Streaming
  <2>2. Head(fromPeer) \in Packet(T, AnswerType)
    BY <1>1, <2>1, TrackPop
  <2>3. PICK n \in Nat : n = Head(fromPeer).nr /\ n > 0 /\ Head(fromPeer) = Answer(AnswerType, T, n)
    BY <2>2, PacketFields
  <2>4. Track(fromPeer', m + n, T - Left, T, AnswerType)
    BY <1>1, <2>1, <2>3, TrackPop
  <2>5. Track(resp', shown, m + n, T, AnswerType)
    <3>1. n \in Nat \ {0} /\ resp' = Append(resp, Answer(AnswerType, T, n))
      BY <1>1, <2>3
    <3> QED BY <2>1, <3>1, TrackPush
  <2>6. AnswerType' = AnswerType /\ Left' = Left /\ ListOf(T)' /\ SameDir'
    BY <1>2, <2>1 DEF AnswerType, Left, ListOf, SameDir
  <2>7. Serving(T)'
    <3>1. cmd.name = "ll_peer"
      BY <1>1, <2>1 DEF Serving
    <3> QED BY <1>1, <1>2, <2>1, <3>1 DEF Serving, Sending
  <2>8. m + n \in Nat
    OBVIOUS
  <2>9. /\ Track(resp, shown, m + n, T, AnswerType)'
        /\ Track(fromPeer, m + n, T - Left, T, AnswerType)'
    BY <1>2, <2>4, <2>5, <2>6
  <2>10. Streaming'
    BY <1>2, <2>1, <2>6, <2>7, <2>8, <2>9 DEF Streaming
  <2> QED BY <1>2, <1>3, <2>10 DEF IInv
<1> QED BY <1>3, <1>4, <1>5

-----------------------------------------------------------------------------
\* The peer reads a request: a message, or the command that was passed on.
LEMMA PeerFacts ==
  ASSUME IInv, NEW n, PeerServes(n)
  PROVE  /\ cpc = "wait" /\ cmd \in Requests /\ cwd \in Dirs /\ raced \in BOOLEAN
         /\ toPeer' = << >>
         /\ (Forwarded /\ Head(toPeer) = cmd) \/ (Unanswered /\ n = "write")
         /\ cmd' = cmd /\ cpc' = cpc /\ shown' = shown /\ total' = total /\ cpwd' = cpwd
         /\ spc' = spc /\ srv' = srv /\ spwd' = spwd /\ cwd' = cwd /\ raced' = raced
         /\ req' = req /\ resp' = resp
<1>1. toPeer # << >> /\ Head(toPeer).name = n /\ toPeer' = Tail(toPeer)
  BY DEF PeerServes
<1>2. cpc = "wait" /\ (Forwarded \/ Unanswered)
  BY <1>1, Phases
<1>3. /\ cmd' = cmd /\ cpc' = cpc /\ shown' = shown /\ total' = total /\ cpwd' = cpwd
      /\ spc' = spc /\ srv' = srv /\ spwd' = spwd /\ cwd' = cwd /\ raced' = raced
      /\ req' = req /\ resp' = resp
  BY DEF PeerServes, client, server, dirs
<1>4. CASE Forwarded
  <2>1. toPeer = << cmd >>
    BY <1>4 DEF Forwarded
  <2>2. Head(toPeer) = cmd /\ toPeer' = << >>
    BY <1>1, <2>1
  <2> QED BY <1>2, <1>3, <1>4, <2>2 DEF IInv
<1>5. CASE Unanswered
  <2>1. toPeer = << [name |-> "write"] >>
    BY <1>1, <1>5 DEF Unanswered
  <2>2. n = "write" /\ toPeer' = << >>
    BY <1>1, <2>1
  <2> QED BY <1>2, <1>3, <1>5, <2>2 DEF IInv
<1> QED BY <1>2, <1>4, <1>5

LEMMA PeerWriteStep == ASSUME IInv, handle_peer_write_req PROVE IInv'
<1>1. PeerServes("write") /\ ppc' = ppc /\ fromPeer' = fromPeer
  BY DEF handle_peer_write_req
<1>2. Head(toPeer).name = "write"
  BY <1>1 DEF PeerServes
<1>3. /\ cpc = "wait" /\ cmd \in Requests /\ cwd \in Dirs /\ raced \in BOOLEAN
      /\ toPeer' = << >>
      /\ (Forwarded /\ Head(toPeer) = cmd) \/ Unanswered
      /\ cmd' = cmd /\ cpc' = cpc /\ cpwd' = cpwd
      /\ spc' = spc /\ spwd' = spwd /\ cwd' = cwd /\ raced' = raced
      /\ req' = req /\ resp' = resp
  BY <1>1, PeerFacts
<1>4. Unanswered
  BY <1>2, <1>3 DEF Forwarded
<1>5. Unanswered'
  BY <1>1, <1>3, <1>4 DEF Unanswered, Silent, SameDir
<1> QED BY <1>3, <1>5 DEF IInv

LEMMA PeerSingleStep == ASSUME IInv, handle_peer_ll_req_single PROVE IInv'
<1>1. /\ PeerServes("ll_peer") /\ Head(toPeer).path.kind # "dir"
      /\ fromPeer' = fromPeer \o ll_single(Head(toPeer).path)
      /\ ppc' = ppc /\ peer' = peer
  BY DEF handle_peer_ll_req_single
<1>2. /\ cpc = "wait" /\ cmd \in Requests /\ cwd \in Dirs /\ raced \in BOOLEAN
      /\ toPeer' = << >> /\ Forwarded /\ Head(toPeer) = cmd
      /\ cmd' = cmd /\ cpc' = cpc /\ shown' = shown /\ total' = total /\ cpwd' = cpwd
      /\ spc' = spc /\ srv' = srv /\ spwd' = spwd /\ cwd' = cwd /\ raced' = raced
      /\ req' = req /\ resp' = resp
  BY <1>1, PeerFacts
<1>3. cmd.name = "ll_peer" /\ cmd.path \in Paths /\ cmd.path.kind # "dir" /\ fromPeer = << >>
  BY <1>1, <1>2, RequestFacts DEF Forwarded
<1>4. CASE ll_single(cmd.path) = << >>
  <2>1. fromPeer' = << >>
    BY <1>1, <1>2, <1>3, <1>4
  <2>2. Silent'
    <3>1. cmd.path.kind = "special"
      BY <1>3, <1>4, LlSingle
    <3> QED BY <1>2, <1>3, <3>1 DEF Silent
  <2>3. Unanswered'
    BY <1>1, <1>2, <2>1, <2>2 DEF Unanswered, Forwarded, SameDir
  <2> QED BY <1>2, <2>3 DEF IInv
<1>5. CASE ll_single(cmd.path) # << >>
  <2>1. PICK a : ll_single(cmd.path) = << a >> /\ a.type = "ll" /\ a.nr = 0
    BY <1>3, <1>5, LlSingle
  <2>2. fromPeer' = << a >>
    BY <1>1, <1>2, <1>3, <2>1
  <2>3. SingleRight(a)'
    BY <1>2, <1>3, <2>1 DEF SingleRight, AnswerType, Forwarded, SameDir
  <2>4. Single'
    BY <1>1, <1>2, <2>2, <2>3 DEF Single, Forwarded, Fresh
  <2> QED BY <1>2, <2>4 DEF IInv
<1> QED BY <1>4, <1>5

LEMMA PeerLlStep == ASSUME IInv, handle_peer_ll_req PROVE IInv'
<1>1. /\ PeerServes("ll_peer") /\ Head(toPeer).path.kind = "dir"
      /\ ppc' = "ll" /\ fromPeer' = fromPeer
  BY DEF handle_peer_ll_req
<1>2. /\ cpc = "wait" /\ cmd \in Requests /\ cwd \in Dirs /\ raced \in BOOLEAN
      /\ toPeer' = << >> /\ Forwarded /\ Head(toPeer) = cmd
      /\ cmd' = cmd /\ cpc' = cpc /\ shown' = shown /\ total' = total /\ cpwd' = cpwd
      /\ spc' = spc /\ srv' = srv /\ spwd' = spwd /\ cwd' = cwd /\ raced' = raced
      /\ req' = req /\ resp' = resp
  BY <1>1, PeerFacts
<1>3. PICK rev \in Reversed(Head(toPeer).path.entries) : peer' = Object(Head(toPeer).path.entries, rev)
  BY DEF handle_peer_ll_req
<1>4. cmd.name = "ll_peer" /\ cmd.path \in Paths /\ cmd.path.kind = "dir"
  BY <1>1, <1>2, RequestFacts DEF Forwarded
<1>5. PICK T \in Nat \ {0} : T = cmd.path.entries
  BY <1>4, PathFacts
<1>6. rev \in Int /\ peer' = Object(T, rev)
  BY <1>2, <1>3, <1>5, ReversedInt
<1>7. peer' \in Objects /\ peer'.left = T /\ peer'.total = T /\ peer'.reversed = FALSE
  BY <1>6 DEF Object, Objects
<1>8. spc' = "relay" /\ resp' = << >> /\ fromPeer' = << >> /\ req' = << >> /\ shown' = 0 /\ SameDir'
  BY <1>1, <1>2 DEF Forwarded, SameDir, Fresh
<1>9. Left' = T /\ ListOf(T)'
  BY <1>1, <1>2, <1>4, <1>5, <1>7, <1>8 DEF Left, ListOf
<1>10. Serving(T)'
  BY <1>1, <1>2, <1>4, <1>7, <1>8 DEF Serving, Sending
<1>11. /\ Track(resp, shown, 0, T, AnswerType)'
       /\ Track(fromPeer, 0, T - Left, T, AnswerType)'
  <2>1. Track(<< >>, 0, 0, T, AnswerType')
    BY TrackEmpty
  <2>2. T - Left' = 0
    BY <1>9
  <2> QED BY <2>1, <2>2, <1>8
<1>12. Streaming'
  BY <1>2, <1>8, <1>9, <1>10, <1>11 DEF Streaming
<1> QED BY <1>2, <1>12 DEF IInv

LEMMA PeerSendStep == ASSUME InPlace = FALSE, IInv, peer_ll_send PROVE IInv'
<1>1. ppc = "ll"
  BY DEF peer_ll_send
<1>2. /\ cmd' = cmd /\ cpc' = cpc /\ shown' = shown /\ total' = total /\ cpwd' = cpwd
      /\ spc' = spc /\ srv' = srv /\ spwd' = spwd /\ cwd' = cwd /\ raced' = raced
      /\ toPeer' = toPeer /\ req' = req /\ resp' = resp
  BY DEF peer_ll_send, client, server, dirs
<1>3. cpc = "wait" /\ cmd \in Requests /\ cwd \in Dirs /\ raced \in BOOLEAN /\ Streaming
  BY <1>1, Phases DEF IInv
<1>4. PICK T \in Nat \ {0}, m \in Nat :
            /\ req = << >> /\ toPeer = << >> /\ SameDir
            /\ ListOf(T) /\ Serving(T) /\ shown < T
            /\ Track(resp, shown, m, T, AnswerType)
            /\ Track(fromPeer, m, T - Left, T, AnswerType)
  BY <1>3 DEF Streaming
<1>5. /\ cmd.name = "ll_peer" /\ spc = "relay"
      /\ peer \in Objects /\ peer.left \in 1 .. T /\ peer.total = T /\ ~ peer.reversed
  BY <1>1, <1>4 DEF Serving, Sending
<1>6. PICK n \in Nat :
           /\ n > 0 /\ n <= peer.left /\ ll_packet(peer) = Answer("ll", T, n)
           /\ ll_after(peer) \in Objects /\ ll_after(peer).left = peer.left - n
           /\ ll_after(peer).total = T /\ ~ ll_after(peer).reversed
  BY <1>5, LlAfter
<1>7. /\ fromPeer' = Append(fromPeer, Answer("ll", T, n))
      /\ peer' \in Objects /\ peer'.left = peer.left - n /\ peer'.total = T /\ ~ peer'.reversed
      /\ ppc' = (IF peer'.left = 0 THEN "idle" ELSE "ll")
  BY <1>6 DEF peer_ll_send
<1>8. AnswerType = "ll" /\ AnswerType' = AnswerType /\ ListOf(T)' /\ SameDir' /\ Left = peer.left
  BY <1>1, <1>2, <1>4, <1>5 DEF AnswerType, ListOf, SameDir, Left
<1>9. Left' = Left - n /\ T - Left' = (T - Left) + n
  <2>1. CASE peer'.left = 0
    BY <2>1, <1>2, <1>5, <1>6, <1>7, <1>8 DEF Left
  <2>2. CASE peer'.left # 0
    BY <2>2, <1>2, <1>5, <1>6, <1>7, <1>8 DEF Left
  <2> QED BY <2>1, <2>2
<1>10. Serving(T)'
  <2>1. CASE peer'.left = 0
    BY <2>1, <1>2, <1>5, <1>7 DEF Serving
  <2>2. CASE peer'.left # 0
    <3>1. peer'.left \in 1 .. T /\ ppc' = "ll"
      BY <2>2, <1>5, <1>6, <1>7
    <3> QED BY <3>1, <1>2, <1>5, <1>7 DEF Serving, Sending
  <2> QED BY <2>1, <2>2
<1>11. Track(fromPeer', m, (T - Left) + n, T, AnswerType)
  <2>1. n \in Nat \ {0} /\ fromPeer' = Append(fromPeer, Answer(AnswerType, T, n))
    BY <1>6, <1>7, <1>8
  <2> QED BY <1>4, <2>1, TrackPush
<1>12. /\ Track(resp, shown, m, T, AnswerType)'
       /\ Track(fromPeer, m, T - Left, T, AnswerType)'
  BY <1>2, <1>4, <1>8, <1>9, <1>11
<1>13. Streaming'
  BY <1>2, <1>4, <1>8, <1>10, <1>12 DEF Streaming
<1> QED BY <1>2, <1>3, <1>13 DEF IInv

-----------------------------------------------------------------------------
LEMMA ServerStep == ASSUME InPlace = FALSE, IInv, Server PROVE IInv'
BY SingleSteps, CdStep, GetcwdStep, WriteStep, WhoStep, LlStep, DirectcmdReqStep,
   WhoSendStep, LlSendStep, DirectcmdSendStep, LlSingleStep, FwdStep, RelayStep
   DEF Server

LEMMA PeerStep == ASSUME InPlace = FALSE, IInv, Peer PROVE IInv'
BY PeerWriteStep, PeerSingleStep, PeerLlStep, PeerSendStep DEF Peer

LEMMA InitRight == ASSUME Init PROVE IInv
<1>1. /\ cpc = "prompt" /\ cmd = [name |-> "pwd"] /\ shown = 0 /\ cwd \in Dirs
      /\ raced = FALSE /\ spwd = cpwd /\ spc = "idle" /\ ppc = "idle" /\ Empty
  BY DEF Init, Empty
<1>2. cmd \in Requests /\ cmd.name = "pwd"
  BY <1>1 DEF Requests
<1>3. Listed = Nat
  BY <1>2 DEF Listed
<1> QED BY <1>1, <1>2, <1>3 DEF IInv, Prompt, SameDir

LEMMA StutterRight == ASSUME IInv, UNCHANGED vars PROVE IInv'
<1>1. /\ cmd' = cmd /\ cpc' = cpc /\ shown' = shown /\ total' = total /\ cpwd' = cpwd
      /\ spc' = spc /\ srv' = srv /\ spwd' = spwd /\ cwd' = cwd /\ raced' = raced
      /\ ppc' = ppc /\ peer' = peer /\ toPeer' = toPeer /\ fromPeer' = fromPeer
      /\ req' = req /\ resp' = resp
  BY DEF vars, client, server, dirs, peers
<1>2. Empty' = Empty /\ SameDir' = SameDir /\ Fresh' = Fresh /\ Listed' = Listed
      /\ FileNotShown' = FileNotShown
  BY <1>1 DEF Empty, SameDir, Fresh, Listed, FileNotShown
<1>3. Prompt' = Prompt /\ Pending' = Pending /\ Getcwd' = Getcwd /\ Zero' = Zero
  BY <1>1, <1>2 DEF Prompt, Pending, Getcwd, Zero
<1>4. Forwarded' = Forwarded /\ Unanswered' = Unanswered
  BY <1>1, <1>2 DEF Forwarded, Unanswered, Silent
<1>5. Single' <=> Single
  <2>1. \A a : SingleRight(a)' <=> SingleRight(a)
    BY <1>1, <1>2 DEF SingleRight, AnswerType
  <2> QED BY <1>1, <1>2, <2>1 DEF Single
<1>6. Streaming' <=> Streaming
  <2>1. AnswerType' = AnswerType /\ Left' = Left
    BY <1>1 DEF AnswerType, Left
  <2>2. \A T : Serving(T)' <=> Serving(T)
    BY <1>1 DEF Serving, Sending
  <2>3. \A T : ListOf(T)' <=> ListOf(T)
    BY <1>1 DEF ListOf
  <2> QED BY <1>1, <1>2, <2>1, <2>2, <2>3 DEF Streaming
<1> QED BY <1>1, <1>3, <1>4, <1>5, <1>6 DEF IInv

\* The command the client waits for is in one of the phases, whatever the
\* handlers of the server, of the client and of the peer do in which order.
THEOREM CommandsKept == ASSUME InPlace = FALSE PROVE Spec => []IInv
<1>1. Init => IInv
  BY InitRight
<1>2. IInv /\ [Next]_vars => IInv'
  <2> SUFFICES ASSUME IInv, [Next]_vars PROVE IInv'
    OBVIOUS
  <2>1. CASE \E c \in Requests : execute_cmd(c)
    BY <2>1, ExecuteStep
  <2>2. CASE \E d \in Dirs : other_session_cd(d)
    BY <2>2, OtherStep
  <2>3. CASE Client
    BY <2>3, ClientStep
  <2>4. CASE Server
    BY <2>4, ServerStep
  <2>5. CASE Peer
    BY <2>5, PeerStep
  <2>6. CASE UNCHANGED vars
    BY <2>6, StutterRight
  <2> QED BY <2>1, <2>2, <2>3, <2>4, <2>5, <2>6 DEF Next
<1> QED BY <1>1, <1>2, PTL DEF Spec

\* When the prompt is back the answer has been read to its last packet and
\* nobody is still sending it (the handlers of src/client.c, which take the
\* next packet for the answer to their command).
THEOREM PromptQuiet == ASSUME InPlace = FALSE PROVE Spec => []QuietAtPrompt
<1>1. IInv => QuietAtPrompt
  BY DEF IInv, Prompt, Empty, QuietAtPrompt
<1> QED BY <1>1, CommandsKept, PTL

\* A listing of a directory shows every entry once, and w every user, for every
\* number of entries and every size of a packet (handle_ll_req, handle_who_req and
\* the loops of sftt_client_ll_handler and get_friend_list); the listing of a single
\* file, which has one entry, shows none.
THEOREM ListsComplete == ASSUME InPlace = FALSE PROVE Spec => []ListingComplete
<1>1. IInv => ListingComplete
  BY DEF IInv, Prompt, ListingComplete
<1> QED BY <1>1, CommandsKept, PTL

\* Client and server agree on the working directory at the prompt, and cd led
\* where it was asked to (handle_cd_req, sftt_client_cd_handler).
THEOREM DirectoryAgreed == ASSUME InPlace = FALSE PROVE Spec => []CdArrives
<1>1. IInv => CdArrives
  BY DEF IInv, Prompt, SameDir, CdArrives
<1> QED BY <1>1, CommandsKept, PTL

-----------------------------------------------------------------------------
\* A command that is answered keeps somebody busy until its prompt is back: an
\* answer has arrived, the session's handler can read the command, send or hand
\* on a packet, or the peer can read the command or send.
SomebodyAnswers ==
  cpc = "wait" /\ Answered =>
    \/ resp # << >>
    \/ spc = "idle" /\ req # << >>
    \/ spc \in {"getcwd", "who", "directcmd", "ll"}
    \/ spc = "relay" /\ fromPeer # << >>
    \/ ppc = "idle" /\ toPeer # << >>
    \/ ppc = "ll"

\* A command that is not read yet is later than the one that is relayed.
Later ==
  /\ issued \in Nat /\ relayed \in Nat /\ relayed <= issued
  /\ req # << >> => relayed < issued

LEMMA LaterInit == Init => Later
BY DEF Init, Later

LEMMA LaterStep == ASSUME IInv, Later, [Next]_vars PROVE Later'
<1>1. CASE \E c \in Requests : execute_cmd(c)
  BY <1>1 DEF execute_cmd, Later
<1>2. CASE \E d \in Dirs : other_session_cd(d)
  BY <1>2 DEF other_session_cd, client, Later
<1>3. CASE Client
  <2>1. issued' = issued /\ relayed' = relayed /\ req' = req
    BY <1>3 DEF Client, sftt_client_pwd_handler, sftt_client_mps_handler, sftt_client_cd_handler,
                sftt_client_ll_handler, get_friend_list, execute_directcmd, Returns,
                list_handler, Reads, server
  <2> QED BY <2>1 DEF Later
<1>4. CASE Server
  <2>1. ASSUME NEW names, Serves(names) PROVE issued' = issued /\ req' = << >> /\ req # << >>
    BY <2>1, ServesFacts DEF Serves, client
  <2>2. \/ \E names : Serves(names) /\ (relayed' = relayed \/ relayed' = issued)
        \/ issued' = issued /\ relayed' = relayed /\ req' = req
    BY <1>4 DEF Server, handle_pwd_req, handle_mp_stat_req, handle_cd_fails, handle_cd_req,
                handle_cd_getcwd, handle_who_none, handle_who_req, who_send, handle_write_req,
                handle_directcmd_fails, handle_directcmd_req, directcmd_send,
                handle_ll_req_single, handle_ll_req, ll_send, handle_fwd_ll_no_peer,
                handle_fwd_ll_req, fwd_ll_relay, Replies, client, server
  <2> QED BY <2>1, <2>2 DEF Later
<1>5. CASE Peer
  <2>1. issued' = issued /\ relayed' = relayed /\ req' = req
    BY <1>5 DEF Peer, handle_peer_write_req, handle_peer_ll_req_single, handle_peer_ll_req,
                peer_ll_send, PeerServes, client, server
  <2> QED BY <2>1 DEF Later
<1>6. CASE UNCHANGED vars
  BY <1>6 DEF vars, client, server, Later
<1> QED BY <1>1, <1>2, <1>3, <1>4, <1>5, <1>6 DEF Next

LEMMA Busy == ASSUME IInv, Later PROVE SomebodyAnswers
<1> SUFFICES ASSUME cpc = "wait", Answered
             PROVE  \/ resp # << >>
                    \/ spc = "idle" /\ req # << >>
                    \/ spc \in {"getcwd", "who", "directcmd", "ll"}
                    \/ spc = "relay" /\ fromPeer # << >>
                    \/ ppc = "idle" /\ toPeer # << >>
                    \/ ppc = "ll"
  BY DEF SomebodyAnswers
<1>1. CASE Pending
  <2>1. req # << >> /\ spc \in {"idle", "relay"}
    BY <1>1 DEF Pending
  <2>2. spc # "relay"
    BY <2>1 DEF Later, Answered
  <2> QED BY <2>1, <2>2
<1>2. CASE Getcwd \/ Zero
  BY <1>2 DEF Getcwd, Zero
<1>3. CASE Single
  BY <1>3 DEF Single
<1>4. CASE Streaming
  <2>1. PICK T \in Nat \ {0}, m \in Nat :
           /\ Serving(T) /\ shown < T
           /\ Track(resp, shown, m, T, AnswerType)
           /\ Track(fromPeer, m, T - Left, T, AnswerType)
    BY <1>4 DEF Streaming
  <2>2. CASE resp = << >> /\ fromPeer = << >>
    <3>1. shown = m /\ m = T - Left
      BY <2>1, <2>2, TrackLe
    <3>2. Left # 0
      BY <2>1, <3>1
    <3> QED BY <2>1, <3>2 DEF Left, Serving
  <2>3. CASE fromPeer # << >> /\ resp = << >>
    <3>1. spc = "relay"
      BY <2>1, <2>3 DEF Serving
    <3> QED BY <2>3, <3>1
  <2> QED BY <2>2, <2>3
<1>5. CASE Forwarded
  BY <1>5 DEF Forwarded
<1>6. CASE Unanswered
  BY <1>6 DEF Unanswered, Silent, Answered
<1> QED BY <1>1, <1>2, <1>3, <1>4, <1>5, <1>6 DEF IInv

\* No command that has an answer leaves everybody waiting: until the client has
\* its prompt back, some handler of src/client.c or src/server.c has a packet to
\* read or to send, for lists of any length.
THEOREM AnswerArrives == ASSUME InPlace = FALSE PROVE Spec => []SomebodyAnswers
<1>1. IInv /\ Later /\ [Next]_vars => Later'
  BY LaterStep
<1>2. IInv /\ Later => SomebodyAnswers
  BY Busy
<1> QED BY <1>1, <1>2, LaterInit, CommandsKept, PTL DEF Spec
=============================================================================
