------------------------- MODULE PutTransferProofs -------------------------
(***************************************************************************)
(* The proofs about the put command, for any number of entries and any     *)
(* sizes: a file the receiver accepted has the sender's content, whatever  *)
(* failed on the way and whichever the codec; and, when nothing fails and  *)
(* the codec leaves the object it sends alone, every packet is understood, *)
(* every entry arrives, the put implements FileCopy, somebody can always   *)
(* go on, and the relay is freed unless the last file was unchanged.       *)
(*                                                                         *)
(* The check of the md5 alone does not give that: the md5 could be of      *)
(* another file of the list, or the file could be written to again.  The   *)
(* invariant is about the stream of requests, over both hops: its names    *)
(* come in the order of the list, and an md5 directly follows the name of  *)
(* its file.  The relay keeps the stream unless it refuses a request, and  *)
(* it refuses only the first.                                              *)
(***************************************************************************)
EXTENDS PutTransfer, SequenceTheorems, TLAPS

Packet == [kind : {"name", "md5", "block"}, idx : Entry, off : Nat,
           n : Nat, reply : BOOLEAN, stop : BOOLEAN, last : BOOLEAN, total : Int]

Reply == [status : {"OK", "CONT", "ERR"}, to : Packet \union {Announcement}]

Object == [total_files : Nat, file_idx : Nat, total_size : Nat, is_last : BOOLEAN]

\* TypeOK by variables.
FilesTyped ==
  /\ size \in [Entry -> Sizes \union {Dir}]
  /\ disk \in [Entry -> Int]
  /\ \A i \in Entry : disk[i] \in {Absent, Other} \union Nat
                      /\ (IsDir(i) => disk[i] \in {Absent, 0})
  /\ stored \subseteq Entry

SenderTyped ==
  /\ s \in [pc : {"name", "nameResp", "md5", "md5Resp", "block", "blockResp", "done"},
            idx : 0 .. N, off : Nat]
  /\ s.pc # "done" => s.idx \in Entry
  /\ nonblock \in BOOLEAN
  /\ verdict \in [Entry -> {"none", "skipped", "sent", "failed"}]

RelayTyped == relay \in [pc : {"loop", "recv", "resp"}, pkt : Packet]

ReceiverTyped ==
  r \in [pc : {"loop", "next", "md5", "block", "moved"}, name : Entry \union {Junk},
        md5 : Entry \union {Junk}, last : BOOLEAN, got : Nat, total : Int]

QueuesTyped == req \in [1 .. 2 -> Seq(Packet)] /\ resp \in [1 .. 2 -> Seq(Reply)]

Typed == FilesTyped /\ SenderTyped /\ RelayTyped /\ ReceiverTyped /\ QueuesTyped

\* The sender's object holds what was put into it, if sending leaves it alone.
ObjRight ==
  /\ obj \in Object
  /\ ~ InPlace =>
       /\ obj.total_files = N
       /\ s.pc # "done" => obj.file_idx = s.idx
       /\ s.pc \notin {"name", "done"} => /\ obj.is_last = Last(s.idx)
                                         /\ obj.total_size = size[s.idx] % UInt

UpdateRight ==
  /\ update \in {NotYet, Taken} \cup Nat
  /\ ~ (PortUpdate /\ ToPeer) => update = NotYet

\* The requests the receiver has not taken, the next one first.
Stream == req[2] \o req[1]

IsName(p) == p.kind = "name"

\* The names of q come in the order of the list and each md5 after its name.
StreamRight(q) ==
  /\ \A a, b \in 1 .. Len(q) : a < b /\ IsName(q[a]) /\ IsName(q[b]) => q[a].idx < q[b].idx
  /\ \A k \in 1 .. Len(q) : k > 1 /\ q[k].kind = "md5" =>
        IsName(q[k - 1]) /\ q[k - 1].idx = q[k].idx

\* Entry j is one whose name the sender has sent.
Begun(j) == j <= s.idx /\ (s.pc = "name" => j < s.idx)

SenderRight(q) ==
  /\ \A k \in 1 .. Len(q) : IsName(q[k]) => Begun(q[k].idx)
  /\ s.pc \in {"nameResp", "md5"} =>
       IF q = << >> THEN r.pc = "md5" /\ r.name # Junk => r.name = s.idx
       ELSE IsName(q[Len(q)]) /\ q[Len(q)].idx = s.idx
  /\ s.pc \in {"md5", "md5Resp", "block", "blockResp"} => ~ IsDir(s.idx)
  /\ s.pc = "block" => s.off <= size[s.idx]
  /\ s.pc \in {"name", "nameResp", "md5", "md5Resp"} => s.off = 0

\* The receiver, inside a file, has the md5 of that file or none of the list.
ReceiverRight(q) ==
  /\ q # << >> /\ q[1].kind = "md5" /\ r.pc = "md5" /\ r.name # Junk => r.name = q[1].idx
  /\ r.pc = "block" /\ r.name # Junk /\ r.md5 # Junk => r.md5 = r.name
  /\ r.pc \in {"md5", "block"} /\ r.name # Junk => r.name \notin stored /\ ~ IsDir(r.name)
  /\ \A j \in stored \cup {r.name} :
       /\ Begun(j)
       /\ \A k \in 1 .. Len(q) : IsName(q[k]) => j < q[k].idx

\* The sender sends nothing more.
Ended ==
  \/ s.pc = "done"
  \/ s.pc = "nameResp" /\ Last(s.idx) /\ IsDir(s.idx)
  \/ s.pc = "blockResp" /\ Last(s.idx)

\* The relay ends with p.
Stops(p) == p.stop /\ ~ InPlace

\* One name under way, the first entry's.
FirstName(q) == \E p \in Packet : q = << p >> /\ p.kind = "name" /\ p.idx = 0

\* Outside handle_fwd_put_req only the first request can arrive.
RelayRight ==
  /\ relay.pc = "loop" =>
       \/ /\ req[1] = << >>
          /\ \/ Ended
             \/ s.pc = "nameResp" /\ resp[1] # << >> /\ Head(resp[1]).status = "ERR"
             \/ s.pc = "name" /\ s.idx = 0 /\ req[2] = << >> /\ resp[1] = << >> /\ r.pc = "loop"
                /\ update = NotYet
       \/ /\ FirstName(req[1]) /\ update = NotYet /\ req[2] = << >> /\ resp[1] = << >>
          /\ s.pc \in {"nameResp", "done"} /\ r.pc = "loop"
  /\ \A k \in 1 .. Len(req[1]) : Stops(req[1][k]) => k = Len(req[1]) /\ Ended
  /\ relay.pc = "resp" /\ Stops(relay.pkt) => req[1] = << >> /\ Ended

IInv ==
  /\ Typed /\ ObjRight /\ UpdateRight
  /\ StreamRight(Stream) /\ SenderRight(Stream) /\ ReceiverRight(Stream)
  /\ IF ToPeer THEN RelayRight ELSE req[2] = << >>
  /\ NoSilentCorruption

-----------------------------------------------------------------------------
LEMMA TypedIsTypeOK == Typed /\ obj \in Object /\ update \in {NotYet, Taken} \cup Nat <=> TypeOK
BY DEF Typed, TypeOK, FilesTyped, SenderTyped, RelayTyped, ReceiverTyped, QueuesTyped,
       Packet, Reply, Object

LEMMA EntryFacts ==
  ASSUME NEW i
  PROVE  /\ i \in Entry <=> i \in Nat /\ i < N
         /\ N \in Nat /\ N > 0 /\ 0 \in Entry
         /\ i \in Entry => i # Junk /\ i \in Int /\ (Last(i) <=> i + 1 = N)
         /\ i \in Entry /\ ~ Last(i) => i + 1 \in Entry
BY PutAssumption DEF Entry, Junk, Last

\* The integers of the object.
LEMMA UIntFacts == UInt \in Nat /\ UInt > 0 /\ N < UInt /\ IntMax < UInt /\ N \in Nat
BY PutAssumption DEF UInt

LEMMA Reversed == ASSUME NEW u \in Nat PROVE htonl(u) \in Nat
<1>1. Byte \in Nat /\ Byte > 0
  BY PutAssumption
<1>2. u % Byte \in Nat /\ u \div Byte \in Nat
  BY <1>1
<1>3. PICK a \in Nat, b \in Nat : a = u % Byte /\ b = u \div Byte
  BY <1>2
<1>4. a * Byte \in Nat
  BY <1>1
<1> QED BY <1>3, <1>4 DEF htonl

LEMMA ObjectFields ==
  ASSUME NEW o \in Object
  PROVE  /\ o.total_files \in Nat /\ o.file_idx \in Nat /\ o.total_size \in Nat
         /\ o.is_last \in BOOLEAN /\ LastFile(o) \in BOOLEAN /\ AsInt(o.total_size) \in Int
<1>1. o.total_files \in Nat /\ o.file_idx \in Nat /\ o.total_size \in Nat /\ o.is_last \in BOOLEAN
  BY DEF Object
<1> QED BY <1>1, UIntFacts DEF LastFile, AsInt

LEMMA SentObject ==
  ASSUME NEW o \in Object
  PROVE  AfterSend(o) \in Object /\ (~ InPlace => AfterSend(o) = o)
<1>1. PICK a \in Nat, b \in Nat, c \in Nat :
        a = htonl(o.total_files) /\ b = htonl(o.file_idx) /\ c = htonl(o.total_size)
  BY ObjectFields, Reversed
<1>2. InPlace => AfterSend(o) = [o EXCEPT !.total_files = a, !.file_idx = b, !.total_size = c]
  BY <1>1 DEF AfterSend
<1>3. [o EXCEPT !.total_files = a, !.file_idx = b, !.total_size = c] \in Object
  BY DEF Object
<1>4. ~ InPlace => AfterSend(o) = o
  BY DEF AfterSend
<1> QED BY <1>2, <1>3, <1>4

LEMMA NewObject ==
  ASSUME NEW o \in Object, s.idx \in Entry, FilesTyped
  PROVE  /\ NewEntry(o) \in Object
         /\ NewEntry(o).total_files = o.total_files /\ NewEntry(o).file_idx = o.file_idx
         /\ NewEntry(o).is_last = LastFile(o) /\ NewEntry(o).total_size = size[s.idx] % UInt
         /\ size[s.idx] % UInt \in Nat
<1>1. size[s.idx] \in Int
  <2>1. size[s.idx] \in Sizes \cup {Dir} /\ Sizes \subseteq Nat
    BY PutAssumption DEF FilesTyped
  <2>2. Dir \in Int
    BY DEF Dir
  <2>3. PICK z : z = size[s.idx]
    OBVIOUS
  <2>4. z \in Sizes \/ z = Dir
    BY <2>1, <2>3
  <2>5. z \in Sizes => z \in Nat
    BY <2>1, Zenon
  <2>6. z \in Int
    BY <2>2, <2>4, <2>5
  <2> QED BY <2>3, <2>6
<1>2. size[s.idx] % UInt \in Nat
  BY <1>1, UIntFacts
<1>3. PICK c \in Nat, l \in BOOLEAN : c = size[s.idx] % UInt /\ l = LastFile(o)
  BY <1>2, ObjectFields
<1>4. NewEntry(o) = [o EXCEPT !.is_last = l, !.total_size = c]
  BY <1>3 DEF NewEntry
<1> QED BY <1>2, <1>3, <1>4 DEF Object

\* The object numbers the entries as the list does.
LEMMA LastIs ==
  ASSUME NEW o, NEW i \in Entry, o.total_files = N, o.file_idx = i
  PROVE  LastFile(o) = Last(i)
<1>1. i \in Nat /\ i < N
  BY EntryFacts
<1>2. i + 1 < UInt /\ i + 1 \in Nat
  BY <1>1, UIntFacts
<1>3. (i + 1) % UInt = i + 1
  BY <1>2, UIntFacts
<1>4. N - 1 = i <=> i + 1 = N
  BY <1>1, UIntFacts
<1> QED BY <1>3, <1>4 DEF LastFile, Last

\* Each of the three packets is one.
LEMMA Packets ==
  ASSUME NEW i \in Entry, NEW o \in Object
  PROVE  /\ NamePacket(i, o) \in Packet /\ Md5Packet(i, o) \in Packet
         /\ NamePacket(i, o).kind = "name" /\ NamePacket(i, o).idx = i
         /\ NamePacket(i, o).stop = (o.is_last /\ IsDir(i))
         /\ NamePacket(i, o).reply = TRUE
         /\ Md5Packet(i, o).kind = "md5" /\ Md5Packet(i, o).idx = i /\ ~ Md5Packet(i, o).stop
<1>1. /\ (o.is_last /\ IsDir(i)) \in BOOLEAN /\ NameLen \in Nat /\ Md5Len \in Nat /\ 0 \in Nat
      /\ LastFile(o) \in BOOLEAN /\ AsInt(o.total_size) \in Int
  BY PutAssumption, ObjectFields DEF IsDir
<1>2. NamePacket(i, o) \in Packet
  BY <1>1 DEF NamePacket, Packet
<1>3. Md5Packet(i, o) \in Packet
  BY <1>1 DEF Md5Packet, Packet
<1> QED BY <1>2, <1>3 DEF NamePacket, Md5Packet

LEMMA BlockPackets ==
  ASSUME NEW i \in Entry, NEW off \in Nat, NEW n \in Nat, NEW eof \in BOOLEAN, NEW o \in Object
  PROVE  /\ BlockPacket(i, off, n, eof, o) \in Packet
         /\ BlockPacket(i, off, n, eof, o).kind = "block"
         /\ BlockPacket(i, off, n, eof, o).stop = (o.is_last /\ eof)
         /\ BlockPacket(i, off, n, eof, o).reply = (o.is_last /\ eof)
         /\ BlockPacket(i, off, n, eof, o).idx = i /\ BlockPacket(i, off, n, eof, o).off = off
         /\ BlockPacket(i, off, n, eof, o).n = n
<1>1. (o.is_last /\ eof) \in BOOLEAN /\ LastFile(o) \in BOOLEAN /\ AsInt(o.total_size) \in Int
  BY ObjectFields
<1> QED BY <1>1 DEF BlockPacket, Packet

LEMMA PacketFields ==
  ASSUME NEW p \in Packet
  PROVE  /\ p.kind \in {"name", "md5", "block"} /\ p.idx \in Entry /\ p.off \in Nat
         /\ p.n \in Nat /\ p.reply \in BOOLEAN /\ p.stop \in BOOLEAN
         /\ p.last \in BOOLEAN /\ p.total \in Int
BY DEF Packet

LEMMA Replies ==
  ASSUME NEW p \in Packet \cup {Announcement}, NEW st \in {"OK", "CONT", "ERR"}
  PROVE  Answer(p, st) \in Reply /\ Answer(p, st).status = st /\ Answer(p, st).to = p
BY DEF Answer, Reply

-----------------------------------------------------------------------------
\* The stream of requests.
LEMMA StreamTyped ==
  ASSUME QueuesTyped
  PROVE  /\ req[1] \in Seq(Packet) /\ req[2] \in Seq(Packet)
         /\ resp[1] \in Seq(Reply) /\ resp[2] \in Seq(Reply)
         /\ Stream \in Seq(Packet)
BY DEF QueuesTyped, Stream

\* The sender appends to it.
LEMMA StreamSend ==
  ASSUME QueuesTyped, NEW p \in Packet, Send(p)
  PROVE  /\ Stream' = Append(Stream, p) /\ req' \in [1 .. 2 -> Seq(Packet)]
         /\ req'[1] = Append(req[1], p) /\ req'[2] = req[2]
<1>1. /\ req'[1] = Append(req[1], p) /\ req'[2] = req[2]
      /\ req[1] \in Seq(Packet) /\ req[2] \in Seq(Packet)
      /\ req' \in [1 .. 2 -> Seq(Packet)]
  BY DEF QueuesTyped, Send
<1>2. ASSUME NEW u \in Seq(Packet), NEW v \in Seq(Packet)
      PROVE  u \o Append(v, p) = Append(u \o v, p)
  OBVIOUS
<1> QED BY <1>1, <1>2 DEF Stream

\* An element moves from the head of v to the end of u.
LEMMA MoveHead ==
  ASSUME NEW S, NEW u \in Seq(S), NEW v \in Seq(S), v # << >>
  PROVE  Append(u, Head(v)) \o Tail(v) = u \o v
<1> DEFINE x == Append(u, Head(v))
           y == Tail(v)
<1>1. Len(u) \in Nat /\ Len(v) \in Nat /\ Len(v) > 0
  OBVIOUS
<1>2. /\ x \in Seq(S) /\ Len(x) = Len(u) + 1 /\ x[Len(u) + 1] = v[1]
      /\ \A i \in 1 .. Len(u) : x[i] = u[i]
  OBVIOUS
<1>3. /\ y \in Seq(S) /\ Len(y) = Len(v) - 1
      /\ \A i \in 1 .. Len(v) - 1 : y[i] = v[i + 1]
  BY <1>1
<1> HIDE DEF x, y
<1>4. x \o y \in Seq(S) /\ u \o v \in Seq(S)
  BY <1>2, <1>3
<1>5. Len(x \o y) = Len(u) + Len(v) /\ Len(u \o v) = Len(u) + Len(v)
  <2>1. Len(x \o y) = Len(x) + Len(y) /\ Len(u \o v) = Len(u) + Len(v)
    BY <1>2, <1>3, ConcatProperties
  <2>2. Len(x) + Len(y) = Len(u) + Len(v)
    BY <1>1, <1>2, <1>3
  <2> QED BY <2>1, <2>2
<1>6. ASSUME NEW i \in 1 .. Len(u) + Len(v) PROVE (x \o y)[i] = (u \o v)[i]
  <2>1. (x \o y)[i] = IF i <= Len(x) THEN x[i] ELSE y[i - Len(x)]
    BY <1>1, <1>2, <1>3
  <2>2. (u \o v)[i] = IF i <= Len(u) THEN u[i] ELSE v[i - Len(u)]
    BY <1>1
  <2>3. CASE i <= Len(u)
    BY <2>1, <2>2, <2>3, <1>1, <1>2
  <2>4. CASE i = Len(u) + 1
    BY <2>1, <2>2, <2>4, <1>1, <1>2
  <2>5. CASE i > Len(u) + 1
    <3>1. PICK k \in 1 .. Len(v) - 1 : i = Len(u) + 1 + k
      <4>1. i - Len(u) - 1 \in 1 .. Len(v) - 1 /\ i = Len(u) + 1 + (i - Len(u) - 1)
        BY <1>1, <2>5
      <4> QED BY <4>1
    <3>2. i - Len(x) = k /\ i - Len(u) = k + 1 /\ ~ (i <= Len(x)) /\ ~ (i <= Len(u))
      BY <1>1, <1>2, <3>1
    <3>3. (x \o y)[i] = y[k] /\ (u \o v)[i] = v[k + 1]
      BY <2>1, <2>2, <3>2
    <3>4. y[k] = v[k + 1]
      BY <1>3
    <3> QED BY <3>3, <3>4
  <2>6. i <= Len(u) \/ i = Len(u) + 1 \/ i > Len(u) + 1
    BY <1>1
  <2> QED BY <2>3, <2>4, <2>5, <2>6
<1>7. x \o y = u \o v
  BY <1>4, <1>5, <1>6, SeqEqual
<1> QED BY <1>7 DEF x, y

\* The relay leaves it alone.
LEMMA StreamForward ==
  ASSUME QueuesTyped, req[1] # << >>,
         req' = [req EXCEPT ![1] = Tail(@), ![2] = Append(@, Head(req[1]))]
  PROVE  /\ Stream' = Stream /\ req' \in [1 .. 2 -> Seq(Packet)]
         /\ req'[1] = Tail(req[1]) /\ Head(req[1]) \in Packet
<1>1. /\ req[1] \in Seq(Packet) /\ req[2] \in Seq(Packet) /\ req \in [1 .. 2 -> Seq(Packet)]
  BY DEF QueuesTyped
<1>2. /\ Head(req[1]) \in Packet /\ Tail(req[1]) \in Seq(Packet)
      /\ Append(req[2], Head(req[1])) \in Seq(Packet)
  BY <1>1
<1>3. req' = [req EXCEPT ![1] = Tail(req[1]), ![2] = Append(req[2], Head(req[1]))]
  OBVIOUS
<1>4. /\ req'[1] = Tail(req[1]) /\ req'[2] = Append(req[2], Head(req[1]))
      /\ req' \in [1 .. 2 -> Seq(Packet)]
  <2> DEFINE S == Seq(Packet)
             x == Tail(req[1])
             y == Append(req[2], Head(req[1]))
  <2>1. req \in [1 .. 2 -> S] /\ x \in S /\ y \in S /\ req' = [req EXCEPT ![1] = x, ![2] = y]
    BY <1>1, <1>2, <1>3
  <2> HIDE DEF S, x, y
  <2>2. req'[1] = x /\ req'[2] = y /\ req' \in [1 .. 2 -> S]
    BY ONLY <2>1
  <2> QED BY <2>2 DEF S, x, y
<1>5. Append(req[2], Head(req[1])) \o Tail(req[1]) = req[2] \o req[1]
  BY <1>1, MoveHead
<1> QED BY <1>2, <1>4, <1>5 DEF Stream

\* The receiver takes its head.
LEMMA StreamTake ==
  ASSUME QueuesTyped, ~ ToPeer => req[2] = << >>, req[Hop] # << >>,
         req' = [req EXCEPT ![Hop] = Tail(@)]
  PROVE  /\ Stream # << >> /\ Head(Stream) = Head(req[Hop]) /\ Stream' = Tail(Stream)
         /\ Head(Stream) \in Packet /\ req' \in [1 .. 2 -> Seq(Packet)]
         /\ ToPeer => req'[1] = req[1]
         /\ ~ ToPeer => req'[2] = << >>
<1>1. /\ req[1] \in Seq(Packet) /\ req[2] \in Seq(Packet)
  BY DEF QueuesTyped
<1>2. ToPeer \in BOOLEAN
  BY PutAssumption
<1>3. CASE ToPeer
  <2>1. Hop = 2
    BY <1>3 DEF Hop
  <2>2. /\ req'[2] = Tail(req[2]) /\ req'[1] = req[1] /\ req' \in [1 .. 2 -> Seq(Packet)]
        /\ req[2] # << >>
    BY <1>1, <2>1 DEF QueuesTyped
  <2>3. ASSUME NEW u \in Seq(Packet), NEW v \in Seq(Packet), u # << >>
        PROVE  /\ u \o v # << >> /\ Head(u \o v) = Head(u) /\ Tail(u) \o v = Tail(u \o v)
               /\ Head(u) \in Packet
    <3> DEFINE x == Tail(u) \o v
               y == Tail(u \o v)
    <3>0. Len(u) \in Nat /\ Len(u) > 0 /\ Len(v) \in Nat
      BY <2>3
    <3>1. u \o v \in Seq(Packet) /\ Len(u \o v) = Len(u) + Len(v) /\ u \o v # << >>
      BY <3>0, <2>3
    <3>2. Head(u \o v) = Head(u) /\ Head(u) \in Packet
      BY <3>0, <3>1, <2>3
    <3>3. x \in Seq(Packet) /\ y \in Seq(Packet) /\ Len(x) = Len(u) + Len(v) - 1
          /\ Len(y) = Len(u) + Len(v) - 1
      BY <3>0, <3>1, <2>3
    <3>4. ASSUME NEW i \in 1 .. Len(u) + Len(v) - 1 PROVE x[i] = y[i]
      BY <3>0, <3>1, <2>3
    <3> HIDE DEF x, y
    <3>5. x = y
      BY <3>0, <3>3, <3>4, SeqEqual
    <3> QED BY <3>1, <3>2, <3>5 DEF x, y
  <2> QED BY <1>1, <1>3, <2>1, <2>2, <2>3 DEF Stream
<1>4. CASE ~ ToPeer
  <2>1. Hop = 1
    BY <1>4 DEF Hop
  <2>2. /\ req'[1] = Tail(req[1]) /\ req'[2] = << >> /\ req' \in [1 .. 2 -> Seq(Packet)]
        /\ req[1] # << >>
    BY <1>1, <1>4, <2>1 DEF QueuesTyped
  <2>3. ASSUME NEW v \in Seq(Packet), v # << >>
        PROVE  << >> \o v = v /\ << >> \o Tail(v) = Tail(v) /\ Head(v) \in Packet
    BY <2>3
  <2> QED BY <1>1, <1>4, <2>1, <2>2, <2>3 DEF Stream
<1> QED BY <1>2, <1>3, <1>4

-----------------------------------------------------------------------------
LEMMA PushRight ==
  ASSUME NEW q \in Seq(Packet), NEW p \in Packet, StreamRight(q),
         \A k \in 1 .. Len(q) : IsName(q[k]) /\ IsName(p) => q[k].idx < p.idx,
         p.kind = "md5" /\ q # << >> => IsName(q[Len(q)]) /\ q[Len(q)].idx = p.idx
  PROVE  StreamRight(Append(q, p))
<1> DEFINE x == Append(q, p)
<1>1. /\ Len(q) \in Nat /\ Len(x) = Len(q) + 1 /\ x[Len(q) + 1] = p
      /\ \A k \in 1 .. Len(q) : x[k] = q[k]
      /\ Len(q) = 0 <=> q = << >>
  OBVIOUS
<1> HIDE DEF x
<1>2. ASSUME NEW a \in 1 .. Len(x), NEW b \in 1 .. Len(x), a < b, IsName(x[a]), IsName(x[b])
      PROVE  x[a].idx < x[b].idx
  <2>1. a \in 1 .. Len(q) /\ x[a] = q[a]
    BY <1>1, <1>2
  <2>2. CASE b = Len(q) + 1
    BY <1>1, <1>2, <2>1, <2>2
  <2>3. CASE b # Len(q) + 1
    <3>1. b \in 1 .. Len(q) /\ x[b] = q[b]
      BY <1>1, <1>2, <2>3
    <3> QED BY <1>2, <2>1, <3>1 DEF StreamRight
  <2> QED BY <2>2, <2>3
<1>3. ASSUME NEW k \in 1 .. Len(x), k > 1, x[k].kind = "md5"
      PROVE  IsName(x[k - 1]) /\ x[k - 1].idx = x[k].idx
  <2>1. k - 1 \in 1 .. Len(q) /\ x[k - 1] = q[k - 1]
    BY <1>1, <1>3
  <2>2. CASE k = Len(q) + 1
    <3>1. k - 1 = Len(q) /\ q # << >> /\ x[k] = p
      BY <1>1, <1>3, <2>2
    <3> QED BY <1>3, <2>1, <3>1
  <2>3. CASE k # Len(q) + 1
    <3>1. k \in 1 .. Len(q) /\ x[k] = q[k]
      BY <1>1, <1>3, <2>3
    <3> QED BY <1>3, <2>1, <3>1 DEF StreamRight
  <2> QED BY <2>2, <2>3
<1>4. StreamRight(x)
  BY <1>2, <1>3 DEF StreamRight
<1> QED BY <1>4 DEF x

LEMMA TailFacts ==
  ASSUME NEW S, NEW u \in Seq(S), u # << >>
  PROVE  /\ Len(u) \in Nat /\ Len(u) > 0 /\ Head(u) = u[1] /\ u[1] \in S
         /\ Tail(u) \in Seq(S) /\ Len(Tail(u)) = Len(u) - 1
         /\ \A k \in 1 .. Len(Tail(u)) : Tail(u)[k] = u[k + 1]
         /\ Len(Tail(u)) = 0 <=> Tail(u) = << >>
<1> DEFINE x == Tail(u)
<1>1. Len(u) \in Nat /\ Len(u) > 0 /\ Head(u) = u[1] /\ u[1] \in S
  OBVIOUS
<1>2. x \in Seq(S) /\ Len(x) = Len(u) - 1
  BY <1>1
<1>3. \A k \in 1 .. Len(x) : x[k] = u[k + 1]
  BY <1>1
<1> HIDE DEF x
<1>4. Len(x) = 0 <=> x = << >>
  BY <1>2, EmptySeq
<1> QED BY <1>1, <1>2, <1>3, <1>4 DEF x

LEMMA PopRight ==
  ASSUME NEW q \in Seq(Packet), q # << >>, StreamRight(q)
  PROVE  /\ StreamRight(Tail(q)) /\ Tail(q) \in Seq(Packet)
         /\ \A k \in 1 .. Len(Tail(q)) : \E j \in 1 .. Len(q) : Tail(q)[k] = q[j]
         /\ IsName(q[1]) => \A k \in 1 .. Len(Tail(q)) :
               IsName(Tail(q)[k]) => q[1].idx < Tail(q)[k].idx
         /\ Tail(q) # << >> /\ Tail(q)[1].kind = "md5" => IsName(q[1]) /\ q[1].idx = Tail(q)[1].idx
         /\ Tail(q) # << >> => Tail(q)[Len(Tail(q))] = q[Len(q)]
         /\ Tail(q) = << >> => q[Len(q)] = q[1]
         /\ Head(q) = q[1] /\ 1 \in 1 .. Len(q)
<1> DEFINE x == Tail(q)
<1>1. /\ Len(q) \in Nat /\ Len(q) > 0 /\ Len(x) = Len(q) - 1
      /\ \A k \in 1 .. Len(x) : x[k] = q[k + 1]
      /\ (Len(x) = 0 <=> x = << >>) /\ x \in Seq(Packet)
      /\ Head(q) = q[1]
  BY TailFacts
<1> HIDE DEF x
<1>2. \A k \in 1 .. Len(x) : k + 1 \in 1 .. Len(q) /\ k + 1 > 1 /\ 1 < k + 1
  BY <1>1
<1>3. 1 \in 1 .. Len(q)
  BY <1>1
<1>4. StreamRight(x)
  <2>1. ASSUME NEW a \in 1 .. Len(x), NEW b \in 1 .. Len(x), a < b, IsName(x[a]), IsName(x[b])
        PROVE  x[a].idx < x[b].idx
    <3>1. a + 1 < b + 1 /\ x[a] = q[a + 1] /\ x[b] = q[b + 1]
      BY <1>1, <2>1
    <3> QED BY <1>2, <2>1, <3>1 DEF StreamRight
  <2>2. ASSUME NEW k \in 1 .. Len(x), k > 1, x[k].kind = "md5"
        PROVE  IsName(x[k - 1]) /\ x[k - 1].idx = x[k].idx
    <3>1. /\ k - 1 \in 1 .. Len(x) /\ (k - 1) + 1 = k /\ (k + 1) - 1 = k
          /\ x[k] = q[k + 1] /\ x[k - 1] = q[k]
      BY <1>1, <2>2
    <3>2. IsName(q[(k + 1) - 1]) /\ q[(k + 1) - 1].idx = q[k + 1].idx
      BY <1>2, <2>2, <3>1 DEF StreamRight
    <3> QED BY <3>1, <3>2
  <2> QED BY <2>1, <2>2 DEF StreamRight
<1>5. \A k \in 1 .. Len(x) : \E j \in 1 .. Len(q) : x[k] = q[j]
  BY <1>1, <1>2
<1>6. IsName(q[1]) => \A k \in 1 .. Len(x) : IsName(x[k]) => q[1].idx < x[k].idx
  BY <1>1, <1>2, <1>3 DEF StreamRight
<1>7. x # << >> /\ x[1].kind = "md5" => IsName(q[1]) /\ q[1].idx = x[1].idx
  <2> SUFFICES ASSUME x # << >>, x[1].kind = "md5" PROVE IsName(q[1]) /\ q[1].idx = x[1].idx
    OBVIOUS
  <2>1. 2 \in 1 .. Len(q) /\ x[1] = q[2] /\ 2 > 1 /\ 2 - 1 = 1
    BY <1>1
  <2>2. IsName(q[2 - 1]) /\ q[2 - 1].idx = q[2].idx
    BY <2>1 DEF StreamRight
  <2> QED BY <2>1, <2>2
<1>8. x # << >> => x[Len(x)] = q[Len(q)]
  BY <1>1
<1>9. x = << >> => q[Len(q)] = q[1]
  <2>1. x = << >> => Len(q) = 1
    BY <1>1
  <2> QED BY <2>1
<1> QED BY <1>1, <1>3, <1>4, <1>5, <1>6, <1>7, <1>8, <1>9 DEF x

-----------------------------------------------------------------------------
\* The facts of the invariant that the steps need.
LEMMA IndexFacts ==
  ASSUME Typed
  PROVE  /\ s.idx \in Nat /\ s.idx <= N /\ (s.pc # "done" => s.idx \in Entry)
         /\ r.name \in Int /\ r.md5 \in Int /\ r.last \in BOOLEAN
         /\ \A j \in stored \cup {r.name} : j \in Int
         /\ \A k \in 1 .. Len(Stream) : Stream[k] \in Packet /\ Stream[k].idx \in Nat
                                        /\ Stream[k].idx \in Entry
         /\ Stream \in Seq(Packet)
<1>1. N \in Nat
  BY PutAssumption
<1>2. s.idx \in Nat /\ s.idx <= N /\ (s.pc # "done" => s.idx \in Entry)
  BY <1>1 DEF Typed, SenderTyped
<1>3. /\ r.name \in Entry \cup {Junk} /\ r.md5 \in Entry \cup {Junk} /\ r.last \in BOOLEAN
      /\ stored \subseteq Entry
  BY DEF Typed, ReceiverTyped, FilesTyped
<1>4. Entry \subseteq Nat /\ Entry \subseteq Int /\ Junk \in Int
  BY EntryFacts DEF Junk
<1>5. Stream \in Seq(Packet)
  BY StreamTyped DEF Typed
<1>6. \A k \in 1 .. Len(Stream) : Stream[k] \in Packet
  BY <1>5
<1>7. \A k \in 1 .. Len(Stream) : Stream[k].idx \in Entry
  BY <1>6, PacketFields
<1>8. r.name \in Int /\ r.md5 \in Int /\ \A j \in stored \cup {r.name} : j \in Int
  <2> HIDE DEF Entry, Junk
  <2>1. r.name \in Int /\ r.md5 \in Int /\ stored \subseteq Int
    BY <1>3, <1>4
  <2> QED BY <2>1
<1> QED BY <1>2, <1>3, <1>4, <1>5, <1>6, <1>7, <1>8

LEMMA BegunLater ==
  ASSUME Typed, s'.idx \in Nat, s.idx <= s'.idx, s'.pc = "name" => s.idx < s'.idx,
         NEW j \in Int, Begun(j)
  PROVE  Begun(j)'
BY IndexFacts DEF Begun

-----------------------------------------------------------------------------
\* What the steps of the sender leave alone.
SenderFrame == UNCHANGED << size, disk, nonblock, relay, r, update, stored >>

\* What the sender has to see to when it moves on.
Advance ==
  /\ s'.idx \in Nat /\ s.idx <= s'.idx /\ (s'.pc = "name" => s.idx < s'.idx)
  /\ SenderTyped'
  /\ s'.pc \in {"md5", "md5Resp", "block", "blockResp"} => ~ IsDir(s'.idx)
  /\ s'.pc = "block" => s'.off <= size[s'.idx]
  /\ s'.pc \in {"name", "nameResp", "md5", "md5Resp"} => s'.off = 0

\* It takes an answer, or gives up.
LEMMA SenderTakes ==
  ASSUME IInv, SenderFrame, req' = req, resp' \in [1 .. 2 -> Seq(Reply)], Advance,
         ObjRight', s'.pc # "nameResp",
         s'.pc = "md5" => s.pc = "nameResp" /\ s'.idx = s.idx,
         ToPeer => RelayRight'
  PROVE  IInv'
<1>1. /\ size' = size /\ disk' = disk /\ relay' = relay /\ r' = r /\ stored' = stored
      /\ nonblock' = nonblock /\ update' = update
  BY DEF SenderFrame
<1>2. Stream' = Stream /\ req'[2] = req[2]
  BY DEF Stream
<1>3. Typed'
  BY <1>1 DEF IInv, Typed, FilesTyped, RelayTyped, ReceiverTyped, QueuesTyped, Advance, IsDir
<1>4. Typed /\ StreamRight(Stream) /\ SenderRight(Stream) /\ ReceiverRight(Stream)
  BY DEF IInv
<1>5. ASSUME NEW j \in Int, Begun(j) PROVE Begun(j)'
  BY <1>4, <1>5, BegunLater DEF Advance
<1>6. PICK q : q = Stream
  OBVIOUS
<1>7. \A k \in 1 .. Len(q) : q[k].idx \in Int
  BY <1>4, <1>6, IndexFacts
<1>8. \A k \in 1 .. Len(q) : IsName(q[k]) => Begun(q[k].idx)'
  BY <1>4, <1>5, <1>6, <1>7 DEF SenderRight
<1>9. SenderRight(q)'
  <2>1. s'.pc \in {"nameResp", "md5"} =>
         IF q = << >> THEN r'.pc = "md5" /\ r'.name # Junk => r'.name = s'.idx
         ELSE IsName(q[Len(q)]) /\ q[Len(q)].idx = s'.idx
    BY <1>1, <1>4, <1>6 DEF SenderRight
  <2> QED BY <1>1, <1>8, <2>1 DEF SenderRight, Advance, IsDir
<1>10. ReceiverRight(q)'
  <2>1. \A j \in stored \cup {r.name} : Begun(j)'
    BY <1>4, <1>5, IndexFacts DEF ReceiverRight
  <2> QED BY <1>1, <1>4, <1>6, <2>1 DEF ReceiverRight, IsDir
<1>11. StreamRight(Stream)' /\ SenderRight(Stream)' /\ ReceiverRight(Stream)'
  BY <1>2, <1>4, <1>6, <1>9, <1>10
<1>12. NoSilentCorruption'
  BY <1>1 DEF IInv, NoSilentCorruption, Whole, IsDir
<1>13. UpdateRight'
  BY <1>1 DEF IInv, UpdateRight
<1> QED BY <1>2, <1>3, <1>11, <1>12, <1>13 DEF IInv

\* It sends a request.
LEMMA SenderSends ==
  ASSUME IInv, SenderFrame, NEW p \in Packet, Send(p), resp' = resp, Advance, ObjRight',
         p.idx = s.idx,
         IsName(p) => s.pc = "name",
         p.kind = "md5" => s.pc = "md5",
         s'.pc # "md5",
         s'.pc = "nameResp" => IsName(p) /\ s'.idx = s.idx,
         s'.pc = "nameResp" \/ ~ IsName(p),
         ToPeer => RelayRight'
  PROVE  IInv'
<1>1. /\ size' = size /\ disk' = disk /\ relay' = relay /\ r' = r /\ stored' = stored
      /\ nonblock' = nonblock /\ update' = update
  BY DEF SenderFrame
<1>2. Typed /\ StreamRight(Stream) /\ SenderRight(Stream) /\ ReceiverRight(Stream)
  BY DEF IInv
<1>3. QueuesTyped
  BY <1>2 DEF Typed
<1>4. /\ Stream' = Append(Stream, p) /\ req' \in [1 .. 2 -> Seq(Packet)] /\ req'[2] = req[2]
  BY <1>3, StreamSend
<1>5. Typed'
  BY <1>1, <1>2, <1>4 DEF Typed, FilesTyped, RelayTyped, ReceiverTyped, QueuesTyped, Advance, IsDir
<1>6. PICK q \in Seq(Packet) : q = Stream
  BY <1>3, StreamTyped
<1>7. PICK x : x = Append(q, p)
  OBVIOUS
<1>8. /\ Len(q) \in Nat /\ Len(x) = Len(q) + 1 /\ x[Len(q) + 1] = p /\ x # << >>
      /\ \A k \in 1 .. Len(q) : x[k] = q[k]
      /\ Len(q) = 0 <=> q = << >>
  BY <1>7
<1>9. \A k \in 1 .. Len(x) : (k \in 1 .. Len(q) /\ x[k] = q[k]) \/ x[k] = p
  BY <1>8
<1>10. \A k \in 1 .. Len(q) : q[k].idx \in Int
  BY <1>2, <1>6, IndexFacts
<1>11. p.idx \in Int /\ s.idx \in Int /\ s'.idx \in Int
  BY <1>2, IndexFacts DEF Advance
<1>12. StreamRight(x)
  <2>1. \A k \in 1 .. Len(q) : IsName(q[k]) /\ IsName(p) => q[k].idx < p.idx
    BY <1>2, <1>6, <1>10, <1>11 DEF SenderRight, Begun
  <2>2. p.kind = "md5" /\ q # << >> => IsName(q[Len(q)]) /\ q[Len(q)].idx = p.idx
    BY <1>2, <1>6 DEF SenderRight
  <2> QED BY <1>2, <1>6, <1>7, <2>1, <2>2, PushRight
<1>13. ASSUME NEW j \in Int, Begun(j) PROVE Begun(j)'
  BY <1>2, <1>13, BegunLater DEF Advance
<1>14. SenderRight(x)'
  <2>1. ASSUME NEW k \in 1 .. Len(x), IsName(x[k]) PROVE Begun(x[k].idx)'
    <3>1. CASE k \in 1 .. Len(q) /\ x[k] = q[k]
      BY <1>2, <1>6, <1>10, <1>13, <2>1, <3>1 DEF SenderRight
    <3>2. CASE x[k] = p
      <4>1. s'.pc = "nameResp" /\ s'.idx = s.idx
        BY <2>1, <3>2
      <4> QED BY <3>2, <4>1, <1>11 DEF Begun
    <3> QED BY <1>9, <3>1, <3>2
  <2>2. s'.pc \in {"nameResp", "md5"} => IsName(x[Len(x)]) /\ x[Len(x)].idx = s'.idx
    BY <1>8
  <2> QED BY <1>1, <1>8, <2>1, <2>2 DEF SenderRight, Advance, IsDir
<1>15. ReceiverRight(x)'
  <2>1. \A j \in stored \cup {r.name} : Begun(j)'
    BY <1>2, <1>13, IndexFacts DEF ReceiverRight
  <2>2. ASSUME NEW j \in stored \cup {r.name}, NEW k \in 1 .. Len(x), IsName(x[k])
        PROVE  j < x[k].idx
    <3>1. CASE k \in 1 .. Len(q) /\ x[k] = q[k]
      BY <1>2, <1>6, <2>2, <3>1 DEF ReceiverRight
    <3>2. CASE x[k] = p
      BY <1>2, <2>2, <3>2 DEF ReceiverRight, Begun
    <3> QED BY <1>9, <3>1, <3>2
  <2>3. x[1].kind = "md5" /\ r.pc = "md5" /\ r.name # Junk => r.name = x[1].idx
    <3>1. CASE q = << >>
      <4>1. x[1] = p
        BY <1>8, <3>1
      <4> QED BY <1>2, <1>6, <3>1, <4>1 DEF SenderRight
    <3>2. CASE q # << >>
      <4>1. x[1] = q[1]
        BY <1>8, <3>2
      <4> QED BY <1>2, <1>6, <3>2, <4>1 DEF ReceiverRight
    <3> QED BY <3>1, <3>2
  <2> QED BY <1>1, <1>2, <1>6, <2>1, <2>2, <2>3 DEF ReceiverRight, IsDir
<1>16. StreamRight(Stream)' /\ SenderRight(Stream)' /\ ReceiverRight(Stream)'
  BY <1>4, <1>6, <1>7, <1>12, <1>14, <1>15
<1>17. NoSilentCorruption'
  BY <1>1 DEF IInv, NoSilentCorruption, Whole, IsDir
<1>18. UpdateRight'
  BY <1>1 DEF IInv, UpdateRight
<1> QED BY <1>4, <1>5, <1>16, <1>17, <1>18 DEF IInv

\* The fields of the sender after each of its ways on.
LEMMA NextFileFacts ==
  ASSUME IInv, SenderFrame, s.pc # "done", NEW v \in {"skipped", "sent"},
         s.pc # "name", NEW o \in {obj, AfterSend(obj)}, NextFile(v, o)
  PROVE  /\ Advance /\ ObjRight' /\ s'.pc \in {"done", "name"} /\ (Last(s.idx) => s'.pc = "done")
<1>1. s.idx \in Entry /\ s.idx \in Nat /\ SenderTyped /\ nonblock' = nonblock
  BY IndexFacts DEF IInv, Typed, SenderFrame
<1>2. /\ s'.pc = (IF Last(s.idx) THEN "done" ELSE "name") /\ s'.idx = s.idx + 1 /\ s'.off = 0
      /\ s' = [pc |-> s'.pc, idx |-> s'.idx, off |-> s'.off]
  BY DEF NextFile
<1>3. s'.idx \in 0 .. N /\ (s'.pc # "done" => s'.idx \in Entry) /\ s'.idx \in Nat
  BY <1>1, <1>2, EntryFacts
<1>4. verdict' \in [Entry -> {"none", "skipped", "sent", "failed"}]
  BY <1>1 DEF NextFile, SenderTyped
<1>5. s' \in [pc : {"name", "nameResp", "md5", "md5Resp", "block", "blockResp", "done"},
              idx : 0 .. N, off : Nat]
  BY <1>2, <1>3
<1>6. SenderTyped'
  BY <1>1, <1>3, <1>4, <1>5 DEF SenderTyped
<1>7. ObjRight'
  <2>1. /\ o \in Object /\ (~ InPlace => o = obj) /\ size' = size
        /\ obj' = [o EXCEPT !.file_idx = (@ + 1) % UInt]
    BY SentObject DEF IInv, ObjRight, SenderFrame, NextFile
  <2>2. o.file_idx \in Nat
    BY <2>1, ObjectFields
  <2>3. PICK k \in Nat : k = (o.file_idx + 1) % UInt
    BY <2>2, UIntFacts
  <2>4. /\ obj' \in Object /\ obj'.file_idx = k /\ obj'.total_files = o.total_files
    <3>1. obj' = [o EXCEPT !.file_idx = k]
      BY <2>1, <2>3
    <3> QED BY <2>1, <3>1 DEF Object
  <2>5. ~ InPlace => obj'.total_files = N /\ obj'.file_idx = s'.idx
    <3>1. SUFFICES ASSUME ~ InPlace PROVE obj'.total_files = N /\ obj'.file_idx = s'.idx
      OBVIOUS
    <3>2. o.total_files = N /\ o.file_idx = s.idx
      BY <2>1, <3>1 DEF IInv, ObjRight
    <3>3. s.idx + 1 < UInt
      BY <1>1, UIntFacts, EntryFacts
    <3>4. (s.idx + 1) % UInt = s.idx + 1
      BY <1>1, <3>3, UIntFacts
    <3> QED BY <1>2, <2>3, <2>4, <3>2, <3>4
  <2> QED BY <1>2, <2>4, <2>5 DEF ObjRight
<1> QED BY <1>1, <1>2, <1>3, <1>6, <1>7 DEF Advance

LEMMA GiveUpFacts ==
  ASSUME IInv, SenderFrame, s.pc # "done", GiveUp
  PROVE  Advance /\ ObjRight' /\ s'.pc = "done"
<1>1. s.idx \in Entry /\ s.idx \in Nat /\ SenderTyped /\ nonblock' = nonblock
  BY IndexFacts DEF IInv, Typed, SenderFrame
<1>2. s'.pc = "done" /\ s'.idx = s.idx
      /\ s' \in [pc : {"name", "nameResp", "md5", "md5Resp", "block", "blockResp", "done"},
                 idx : 0 .. N, off : Nat]
  BY <1>1 DEF GiveUp, SenderTyped
<1>3. verdict' \in [Entry -> {"none", "skipped", "sent", "failed"}]
  BY <1>1 DEF GiveUp, SenderTyped
<1>4. SenderTyped'
  BY <1>1, <1>2, <1>3 DEF SenderTyped
<1>5. ObjRight'
  BY <1>2 DEF IInv, ObjRight, GiveUp
<1> QED BY <1>1, <1>2, <1>4, <1>5 DEF Advance

\* A step to c inside the same file, and one to the next block.
MovesTo(c) == s' = [s EXCEPT !.pc = c] /\ verdict' = verdict

ReadsOn(n) == s' = [s EXCEPT !.off = @ + n] /\ verdict' = verdict

\* The object keeps what it was filled with.
ObjKept == obj' \in {obj, AfterSend(obj), [obj EXCEPT !.total_size = size[s.idx] % UInt]}

LEMMA ObjSteps ==
  ASSUME IInv, size' = size, s.pc # "done", s'.idx = s.idx, s'.pc \notin {"name", "done"},
         (ObjKept /\ s.pc # "name") \/ (obj' = AfterSend(NewEntry(obj)) /\ s.pc = "name")
  PROVE  ObjRight'
<1>1. obj \in Object /\ s.idx \in Entry /\ FilesTyped
  BY IndexFacts DEF IInv, ObjRight, Typed
<1>2. CASE ObjKept /\ s.pc # "name"
  <2>1. PICK c \in Nat : c = size[s.idx] % UInt
    BY <1>1, NewObject
  <2>2. [obj EXCEPT !.total_size = c] \in Object
    BY <1>1 DEF Object
  <2>3. ~ InPlace => obj.total_size = c
    BY <1>2, <2>1 DEF IInv, ObjRight
  <2>4. ~ InPlace => [obj EXCEPT !.total_size = c] = obj
    BY <1>1, <2>3 DEF Object
  <2>5. obj' \in Object /\ (~ InPlace => obj' = obj)
    BY <1>1, <1>2, <2>1, <2>2, <2>4, SentObject DEF ObjKept
  <2> QED BY <1>2, <2>5 DEF IInv, ObjRight, Last
<1>3. CASE obj' = AfterSend(NewEntry(obj)) /\ s.pc = "name"
  <2>1. PICK o : o = NewEntry(obj)
    OBVIOUS
  <2>2. /\ o \in Object /\ o.total_files = obj.total_files /\ o.file_idx = obj.file_idx
        /\ o.is_last = LastFile(obj) /\ o.total_size = size[s.idx] % UInt
    BY <1>1, <2>1, NewObject
  <2>3. obj' \in Object /\ (~ InPlace => obj' = o)
    BY <1>3, <2>1, <2>2, SentObject
  <2>4. ~ InPlace => obj.total_files = N /\ obj.file_idx = s.idx
    BY <1>3 DEF IInv, ObjRight
  <2>5. ~ InPlace => LastFile(obj) = Last(s.idx)
    BY <1>1, <2>4, LastIs
  <2> QED BY <2>2, <2>3, <2>4, <2>5 DEF ObjRight, Last
<1> QED BY <1>2, <1>3

LEMMA StepFacts ==
  ASSUME IInv, SenderFrame, s.pc # "done",
         NEW c \in {"nameResp", "md5", "md5Resp", "block", "blockResp"}, MovesTo(c),
         c # "nameResp" => ~ IsDir(s.idx),
         c # "blockResp" => s.off = 0
  PROVE  Advance /\ s'.pc = c /\ s'.idx = s.idx
<1>1. s.idx \in Entry /\ s.idx \in Nat /\ SenderTyped /\ nonblock' = nonblock /\ size' = size
      /\ verdict' = verdict
  BY IndexFacts DEF IInv, Typed, SenderFrame, MovesTo
<1>2. s'.pc = c /\ s'.idx = s.idx /\ s'.off = s.off
      /\ s' \in [pc : {"name", "nameResp", "md5", "md5Resp", "block", "blockResp", "done"},
                 idx : 0 .. N, off : Nat]
  <2>1. s \in [pc : {"name", "nameResp", "md5", "md5Resp", "block", "blockResp", "done"},
                 idx : 0 .. N, off : Nat]
    BY <1>1 DEF SenderTyped
  <2> QED BY <2>1 DEF MovesTo
<1>3. SenderTyped'
  BY <1>1, <1>2 DEF SenderTyped
<1>4. ~ IsDir(s.idx) => size[s.idx] \in Nat
  BY <1>1, PutAssumption DEF IInv, Typed, FilesTyped, IsDir
<1> QED BY <1>1, <1>2, <1>3, <1>4 DEF Advance, IsDir

LEMMA ReadFacts ==
  ASSUME IInv, SenderFrame, s.pc = "block", NEW n \in Nat, ReadsOn(n),
         s.off + n <= size[s.idx]
  PROVE  Advance /\ s'.pc = "block" /\ s'.idx = s.idx
<1>1. s.idx \in Entry /\ s.idx \in Nat /\ SenderTyped /\ nonblock' = nonblock /\ size' = size
      /\ verdict' = verdict
  BY IndexFacts DEF IInv, Typed, SenderFrame, ReadsOn
<1>2. s'.pc = "block" /\ s'.idx = s.idx /\ s'.off = s.off + n
      /\ s' \in [pc : {"name", "nameResp", "md5", "md5Resp", "block", "blockResp", "done"},
                 idx : 0 .. N, off : Nat]
  <2>1. /\ s \in [pc : {"name", "nameResp", "md5", "md5Resp", "block", "blockResp", "done"},
                   idx : 0 .. N, off : Nat]
        /\ s.off \in Nat /\ s.off + n \in Nat
    BY <1>1 DEF SenderTyped
  <2> QED BY <2>1 DEF ReadsOn
<1>3. SenderTyped'
  BY <1>1, <1>2 DEF SenderTyped
<1>4. ~ IsDir(s.idx)
  BY DEF IInv, SenderRight
<1> QED BY <1>1, <1>2, <1>3, <1>4 DEF Advance, IsDir

\* Taking an answer.
LEMMA ReceivedFacts ==
  ASSUME IInv, NEW S, Received(S)
  PROVE  /\ resp' \in [1 .. 2 -> Seq(Reply)] /\ resp[1] # << >> /\ Head(resp[1]).status \in S
<1>1. resp \in [1 .. 2 -> Seq(Reply)] /\ resp[1] # << >> /\ Head(resp[1]).status \in S
      /\ resp' = [resp EXCEPT ![1] = Tail(@)]
  BY DEF IInv, Typed, QueuesTyped, Received
<1>2. resp[1] \in Seq(Reply)
  BY <1>1
<1>3. Tail(resp[1]) \in Seq(Reply)
  BY <1>1, <1>2
<1> QED BY <1>1, <1>3

\* Once the sender has ended it stays so, and the relay's part is kept.
LEMMA RelayTakes ==
  ASSUME IInv, ToPeer, SenderFrame, req' = req, resp[1] = << >> => resp' = resp,
         s'.pc # "done" =>
           /\ ~ Ended
           /\ s.pc = "nameResp" => resp[1] # << >> /\ Head(resp[1]).status # "ERR"
           /\ s.pc # "name"
  PROVE  RelayRight'
<1>1. relay' = relay /\ r' = r /\ size' = size /\ RelayRight /\ update' = update
  BY DEF SenderFrame, IInv
<1>2. CASE s'.pc = "done"
  <2>1. Ended'
    BY <1>2 DEF Ended
  <2>3. relay'.pc = "loop" =>
          \/ req'[1] = << >>
          \/ /\ FirstName(req'[1]) /\ req'[2] = << >> /\ update' = NotYet
             /\ resp'[1] = << >> /\ r'.pc = "loop"
    BY <1>1 DEF RelayRight, FirstName
  <2> QED BY <1>1, <1>2, <2>1, <2>3 DEF RelayRight
<1>3. CASE s'.pc # "done"
  <2>1. ~ Ended /\ relay.pc # "loop"
    BY <1>1, <1>3 DEF RelayRight, Ended
  <2> QED BY <1>1, <2>1 DEF RelayRight
<1> QED BY <1>2, <1>3

\* The sender is not done and has not ended: the relay is inside its loop and
\* holds no request that stops it.
LEMMA RelaySends ==
  ASSUME IInv, ToPeer, SenderFrame, NEW p \in Packet, Send(p),
         s.pc \in {"md5", "block"}, Stops(p) => Ended'
  PROVE  RelayRight'
<1>1. relay' = relay /\ r' = r /\ size' = size /\ RelayRight /\ QueuesTyped
  BY DEF SenderFrame, IInv, Typed
<1>2. ~ Ended /\ relay.pc # "loop"
  BY <1>1 DEF RelayRight, Ended
<1>3. req'[1] = Append(req[1], p) /\ req[1] \in Seq(Packet)
  BY <1>1, StreamSend, StreamTyped
<1>4. \A k \in 1 .. Len(req[1]) : ~ Stops(req[1][k])
  BY <1>1, <1>2 DEF RelayRight
<1>5. relay.pc = "resp" => ~ Stops(relay.pkt)
  BY <1>1, <1>2 DEF RelayRight
<1>6. \A k \in 1 .. Len(req'[1]) : Stops(req'[1][k]) => k = Len(req'[1]) /\ Stops(p)
  <2>1. PICK u \in Seq(Packet) : u = req[1]
    BY <1>3
  <2>2. PICK x : x = Append(u, p)
    OBVIOUS
  <2>3. Len(x) = Len(u) + 1 /\ x[Len(u) + 1] = p /\ \A k \in 1 .. Len(u) : x[k] = u[k]
    BY <2>2
  <2>4. \A k \in 1 .. Len(x) : k \in 1 .. Len(u) \/ k = Len(x)
    BY <2>3
  <2>5. \A k \in 1 .. Len(x) : Stops(x[k]) => k = Len(x) /\ Stops(p)
    BY <1>4, <2>1, <2>3, <2>4
  <2> QED BY <1>3, <2>1, <2>2, <2>5
<1> QED BY <1>1, <1>2, <1>5, <1>6 DEF RelayRight

LEMMA SendNameStep == ASSUME IInv, SenderFrame, send_file_name_by_put_req PROVE IInv'
<1> DEFINE p == NamePacket(s.idx, NewEntry(obj))
<1>1. /\ s.pc = "name" /\ Send(p) /\ s' = [s EXCEPT !.pc = "nameResp"]
      /\ verdict' = verdict /\ resp' = resp /\ obj' = AfterSend(NewEntry(obj))
  BY DEF send_file_name_by_put_req
<1>2. s.idx \in Entry /\ SenderRight(Stream) /\ QueuesTyped /\ FilesTyped /\ obj \in Object
  BY <1>1, IndexFacts DEF IInv, Typed, ObjRight
<1>3. p \in Packet /\ p.kind = "name" /\ p.idx = s.idx /\ (Stops(p) => Last(s.idx) /\ IsDir(s.idx))
  <2>1. NewEntry(obj) \in Object /\ NewEntry(obj).is_last = LastFile(obj)
    BY <1>2, NewObject
  <2>2. ~ InPlace => obj.total_files = N /\ obj.file_idx = s.idx
    BY <1>1 DEF IInv, ObjRight
  <2>3. ~ InPlace => LastFile(obj) = Last(s.idx)
    BY <1>2, <2>2, LastIs
  <2> QED BY <1>2, <2>1, <2>3, Packets DEF Stops
<1>4. Advance /\ s'.pc = "nameResp" /\ s'.idx = s.idx
  <2>1. s.off = 0
    BY <1>1, <1>2 DEF SenderRight
  <2>2. MovesTo("nameResp")
    BY <1>1 DEF MovesTo
  <2> QED BY <1>1, <2>1, <2>2, StepFacts
<1>7. ObjRight'
  BY <1>1, <1>4, ObjSteps DEF SenderFrame
<1>5. CASE ToPeer
  <2>1. relay' = relay /\ r' = r /\ size' = size /\ RelayRight /\ update' = update
    BY <1>5 DEF SenderFrame, IInv
  <2>2. /\ ~ Ended
        /\ relay.pc = "loop" => /\ req[1] = << >> /\ s.idx = 0 /\ req[2] = << >>
                                /\ resp[1] = << >> /\ r.pc = "loop" /\ update = NotYet
    BY <1>1, <2>1 DEF RelayRight, Ended
  <2>3. req'[1] = Append(req[1], p) /\ req'[2] = req[2] /\ req[1] \in Seq(Packet)
    BY <1>1, <1>2, <1>3, StreamSend, StreamTyped
  <2>4. \A k \in 1 .. Len(req[1]) : ~ Stops(req[1][k])
    BY <2>1, <2>2 DEF RelayRight
  <2>5. relay.pc = "resp" => ~ Stops(relay.pkt)
    BY <2>1, <2>2 DEF RelayRight
  <2>6. Stops(p) => Ended'
    BY <1>3, <1>4, <2>1 DEF Ended, IsDir
  <2>7. \A k \in 1 .. Len(req'[1]) : Stops(req'[1][k]) => k = Len(req'[1]) /\ Stops(p)
    <3>1. PICK u \in Seq(Packet) : u = req[1]
      BY <2>3
    <3>2. PICK y : y = p
      OBVIOUS
    <3>3. PICK x : x = Append(u, y)
      OBVIOUS
    <3>4. Len(x) = Len(u) + 1 /\ x[Len(u) + 1] = y /\ \A k \in 1 .. Len(u) : x[k] = u[k]
      BY <3>3
    <3>5. \A k \in 1 .. Len(x) : k \in 1 .. Len(u) \/ k = Len(x)
      BY <3>4
    <3>6. \A k \in 1 .. Len(x) : Stops(x[k]) => k = Len(x) /\ Stops(y)
      BY <2>4, <3>1, <3>4, <3>5
    <3> QED BY <2>3, <3>1, <3>2, <3>3, <3>6
  <2>8. relay.pc = "loop" => FirstName(req'[1])
    <3>1. PICK y \in Packet : y = p
      BY <1>3
    <3>2. Append(<< >>, y) = << y >>
      OBVIOUS
    <3> QED BY <1>3, <2>2, <2>3, <3>1, <3>2 DEF FirstName
  <2>9. RelayRight'
    BY <1>1, <1>4, <2>1, <2>2, <2>3, <2>5, <2>6, <2>7, <2>8 DEF RelayRight
  <2> HIDE DEF p
  <2> QED BY <1>1, <1>3, <1>4, <1>7, <2>9, SenderSends DEF IsName
<1>6. CASE ~ ToPeer
  <2> HIDE DEF p
  <2> QED BY <1>1, <1>3, <1>4, <1>6, <1>7, SenderSends DEF IsName
<1> QED BY <1>5, <1>6

LEMMA RecvNameStep == ASSUME IInv, SenderFrame, recv_name_resp PROVE IInv'
<1>1. s.pc = "nameResp" /\ req' = req
  BY DEF recv_name_resp
<1>2. SenderRight(Stream)
  BY DEF IInv
<1>3. CASE Received({"CONT", "ERR"}) /\ GiveUp
  <2>1. Advance /\ ObjRight' /\ s'.pc = "done" /\ resp[1] # << >> /\ resp' \in [1 .. 2 -> Seq(Reply)]
    BY <1>1, <1>3, GiveUpFacts, ReceivedFacts
  <2>2. ToPeer => RelayRight'
    BY <1>1, <2>1, RelayTakes
  <2> QED BY <1>1, <2>1, <2>2, SenderTakes
<1>4. CASE Received({"OK"}) /\ IsDir(s.idx) /\ NextFile("sent", obj)
  <2>1. /\ Advance /\ ObjRight' /\ s'.pc \in {"done", "name"} /\ (Last(s.idx) => s'.pc = "done")
        /\ resp[1] # << >> /\ Head(resp[1]).status = "OK" /\ resp' \in [1 .. 2 -> Seq(Reply)]
    BY <1>1, <1>4, NextFileFacts, ReceivedFacts
  <2>2. s'.pc # "done" => ~ Ended
    BY <1>1, <2>1 DEF Ended
  <2>3. ToPeer => RelayRight'
    BY <1>1, <2>1, <2>2, RelayTakes
  <2> QED BY <1>1, <2>1, <2>3, SenderTakes
<1>5. CASE Received({"OK"}) /\ ~IsDir(s.idx) /\ MovesTo("md5") /\ obj' = obj
  <2>1. s.off = 0
    BY <1>1, <1>2 DEF SenderRight
  <2>2. /\ Advance /\ s'.pc = "md5" /\ s'.idx = s.idx
        /\ resp[1] # << >> /\ Head(resp[1]).status = "OK" /\ resp' \in [1 .. 2 -> Seq(Reply)]
    BY <1>1, <1>5, <2>1, StepFacts, ReceivedFacts
  <2>3. ~ Ended
    BY <1>1, <1>5 DEF Ended
  <2>4. ToPeer => RelayRight'
    BY <1>1, <2>2, <2>3, RelayTakes
  <2>5. ObjRight'
    <3>1. ObjKept /\ size' = size
      BY <1>1, <1>5, <2>2 DEF ObjKept, SenderFrame
    <3>2. /\ s.pc \notin {"name", "done"} /\ s'.pc \notin {"name", "done"} /\ s'.idx = s.idx
          /\ ((ObjKept /\ s.pc # "name") \/ (obj' = AfterSend(NewEntry(obj)) /\ s.pc = "name"))
      BY <1>1, <1>5, <2>2, <3>1
    <3> QED BY <3>1, <3>2, ObjSteps
  <2> QED BY <1>1, <2>2, <2>4, <2>5, SenderTakes
<1> QED BY <1>3, <1>4, <1>5 DEF recv_name_resp, MovesTo

LEMMA SendMd5Step == ASSUME IInv, SenderFrame, send_file_md5_by_put_req PROVE IInv'
<1>1. s.pc = "md5" /\ resp' = resp
  BY DEF send_file_md5_by_put_req
<1>2. SenderRight(Stream) /\ s.idx \in Entry
  BY <1>1, IndexFacts DEF IInv
<1>3. CASE Send(Md5Packet(s.idx, obj)) /\ MovesTo("md5Resp") /\ obj' = AfterSend(obj)
  <2> DEFINE p == Md5Packet(s.idx, obj)
  <2>1. p \in Packet /\ p.kind = "md5" /\ p.idx = s.idx /\ ~ Stops(p)
    BY <1>2, Packets DEF IInv, ObjRight, Stops
  <2>2. s.off = 0 /\ ~ IsDir(s.idx)
    BY <1>1, <1>2 DEF SenderRight
  <2>3. Advance /\ s'.pc = "md5Resp" /\ s'.idx = s.idx
    BY <1>1, <1>3, <2>2, StepFacts
  <2>4. Send(p)
    BY <1>3
  <2> HIDE DEF p
  <2>5. ToPeer => RelayRight'
    BY <1>1, <2>1, <2>4, RelaySends
  <2>6. ObjRight'
    <3>1. ObjKept /\ size' = size
      BY <1>1, <1>3, <2>3 DEF ObjKept, SenderFrame
    <3>2. /\ s.pc \notin {"name", "done"} /\ s'.pc \notin {"name", "done"} /\ s'.idx = s.idx
          /\ ((ObjKept /\ s.pc # "name") \/ (obj' = AfterSend(NewEntry(obj)) /\ s.pc = "name"))
      BY <1>1, <1>3, <2>3, <3>1
    <3> QED BY <3>1, <3>2, ObjSteps
  <2> QED BY <1>1, <2>1, <2>3, <2>4, <2>5, <2>6, SenderSends DEF IsName
<1>4. CASE GiveUp /\ req' = req
  <2>1. Advance /\ ObjRight' /\ s'.pc = "done" /\ resp' \in [1 .. 2 -> Seq(Reply)]
    BY <1>1, <1>4, GiveUpFacts DEF IInv, Typed, QueuesTyped
  <2>2. ToPeer => RelayRight'
    BY <1>1, <1>4, <2>1, RelayTakes
  <2> QED BY <1>4, <2>1, <2>2, SenderTakes
<1> QED BY <1>3, <1>4 DEF send_file_md5_by_put_req, MovesTo

LEMMA RecvMd5RespStep == ASSUME IInv, SenderFrame, recv_md5_resp PROVE IInv'
<1>1. s.pc = "md5Resp" /\ req' = req /\ ~ Ended
  BY DEF recv_md5_resp, Ended
<1>2. SenderRight(Stream) /\ s.idx \in Entry
  BY <1>1, IndexFacts DEF IInv
<1>3. CASE Received({"OK"}) /\ NextFile("skipped", obj)
  <2>1. /\ Advance /\ ObjRight' /\ s'.pc \in {"done", "name"} /\ resp[1] # << >>
        /\ resp' \in [1 .. 2 -> Seq(Reply)]
    BY <1>1, <1>3, NextFileFacts, ReceivedFacts
  <2>2. ToPeer => RelayRight'
    BY <1>1, <2>1, RelayTakes
  <2> QED BY <1>1, <2>1, <2>2, SenderTakes
<1>4. CASE Received({"CONT", "ERR"}) /\ MovesTo("block")
         /\ obj' = [obj EXCEPT !.total_size = size[s.idx] % UInt]
  <2>1. s.off = 0 /\ ~ IsDir(s.idx)
    BY <1>1, <1>2 DEF SenderRight
  <2>3. /\ Advance /\ s'.pc = "block" /\ s'.idx = s.idx /\ resp[1] # << >> /\ resp' \in [1 .. 2 -> Seq(Reply)]
    BY <1>1, <1>4, <2>1, StepFacts, ReceivedFacts
  <2>4. ToPeer => RelayRight'
    BY <1>1, <2>3, RelayTakes
  <2>5. ObjRight'
    <3>1. ObjKept /\ size' = size
      BY <1>1, <1>4, <2>3 DEF ObjKept, SenderFrame
    <3>2. /\ s.pc \notin {"name", "done"} /\ s'.pc \notin {"name", "done"} /\ s'.idx = s.idx
          /\ ((ObjKept /\ s.pc # "name") \/ (obj' = AfterSend(NewEntry(obj)) /\ s.pc = "name"))
      BY <1>1, <1>4, <2>3, <3>1
    <3> QED BY <3>1, <3>2, ObjSteps
  <2> QED BY <1>1, <2>3, <2>4, <2>5, SenderTakes
<1>5. CASE Received({"CONT", "ERR"}) /\ GiveUp
  <2>1. Advance /\ ObjRight' /\ s'.pc = "done" /\ resp[1] # << >> /\ resp' \in [1 .. 2 -> Seq(Reply)]
    BY <1>1, <1>5, GiveUpFacts, ReceivedFacts
  <2>2. ToPeer => RelayRight'
    BY <1>1, <2>1, RelayTakes
  <2> QED BY <1>1, <2>1, <2>2, SenderTakes
<1> QED BY <1>3, <1>4, <1>5 DEF recv_md5_resp, MovesTo

LEMMA SendContentStep == ASSUME IInv, SenderFrame, send_file_content_by_put_req PROVE IInv'
<1> DEFINE left == size[s.idx] - s.off
           n == IF left < B THEN left ELSE B
           eof == n < B
           p == BlockPacket(s.idx, s.off, n, eof, obj)
<1>1. /\ s.pc = "block" /\ Send(p) /\ resp' = resp
      /\ \/ ~eof /\ ReadsOn(n) /\ obj' = AfterSend(obj)
         \/ eof /\ p.reply /\ MovesTo("blockResp") /\ obj' = AfterSend(obj)
         \/ eof /\ ~p.reply /\ NextFile("sent", AfterSend(obj))
  BY DEF send_file_content_by_put_req, ReadsOn, MovesTo
<1>2. SenderRight(Stream) /\ s.idx \in Entry /\ s.off \in Nat
  BY <1>1, IndexFacts DEF IInv, Typed, SenderTyped
<1>3. ~ IsDir(s.idx) /\ s.off <= size[s.idx]
  BY <1>1, <1>2 DEF SenderRight
<1>4. size[s.idx] \in Nat
  BY <1>2, <1>3, PutAssumption DEF IInv, Typed, FilesTyped, IsDir
<1>5. n \in Nat /\ eof \in BOOLEAN /\ s.off + n \in Nat /\ s.off + n <= size[s.idx]
  BY <1>2, <1>3, <1>4, PutAssumption
<1> HIDE DEF n, eof, left
<1>6. /\ p \in Packet /\ p.kind = "block" /\ p.idx = s.idx
      /\ p.stop = p.reply /\ (Stops(p) => Last(s.idx) /\ eof)
  <2>1. obj \in Object /\ (~ InPlace => obj.is_last = Last(s.idx))
    BY <1>1 DEF IInv, ObjRight
  <2>2. /\ p \in Packet /\ p.kind = "block" /\ p.idx = s.idx
        /\ p.stop = (obj.is_last /\ eof) /\ p.reply = (obj.is_last /\ eof)
    BY <1>2, <1>5, <2>1, BlockPackets
  <2> HIDE DEF p
  <2> QED BY <2>1, <2>2 DEF Stops
<1> HIDE DEF p
<1>7. CASE ~eof /\ ReadsOn(n) /\ obj' = AfterSend(obj)
  <2>2. Advance /\ s'.pc = "block" /\ s'.idx = s.idx
    BY <1>1, <1>5, <1>7, ReadFacts
  <2>3. ToPeer => RelayRight'
    BY <1>1, <1>6, <1>7, RelaySends
  <2>4. ObjRight'
    <3>1. ObjKept /\ size' = size
      BY <1>1, <1>7, <2>2 DEF ObjKept, SenderFrame
    <3>2. /\ s.pc \notin {"name", "done"} /\ s'.pc \notin {"name", "done"} /\ s'.idx = s.idx
          /\ ((ObjKept /\ s.pc # "name") \/ (obj' = AfterSend(NewEntry(obj)) /\ s.pc = "name"))
      BY <1>1, <1>7, <2>2, <3>1
    <3> QED BY <3>1, <3>2, ObjSteps
  <2> QED BY <1>1, <1>6, <2>2, <2>3, <2>4, SenderSends DEF IsName
<1>8. CASE eof /\ p.reply /\ MovesTo("blockResp") /\ obj' = AfterSend(obj)
  <2>1. Advance /\ s'.pc = "blockResp" /\ s'.idx = s.idx
    BY <1>1, <1>2, <1>3, <1>8, StepFacts
  <2>2. Stops(p) => Ended'
    BY <2>1, <1>6, <1>8 DEF Ended
  <2>3. ToPeer => RelayRight'
    BY <1>1, <1>6, <2>2, RelaySends
  <2>4. ObjRight'
    <3>1. ObjKept /\ size' = size
      BY <1>1, <1>8, <2>1 DEF ObjKept, SenderFrame
    <3>2. /\ s.pc \notin {"name", "done"} /\ s'.pc \notin {"name", "done"} /\ s'.idx = s.idx
          /\ ((ObjKept /\ s.pc # "name") \/ (obj' = AfterSend(NewEntry(obj)) /\ s.pc = "name"))
      BY <1>1, <1>8, <2>1, <3>1
    <3> QED BY <3>1, <3>2, ObjSteps
  <2> QED BY <1>1, <1>6, <2>1, <2>3, <2>4, SenderSends DEF IsName
<1>9. CASE eof /\ ~p.reply /\ NextFile("sent", AfterSend(obj))
  <2>1. Advance /\ ObjRight' /\ s'.pc \in {"done", "name"}
    BY <1>1, <1>9, NextFileFacts
  <2>2. ToPeer => RelayRight'
    BY <1>1, <1>6, <1>9, RelaySends DEF Stops
  <2> QED BY <1>1, <1>6, <2>1, <2>2, SenderSends DEF IsName
<1> QED BY <1>1, <1>7, <1>8, <1>9

LEMMA RecvBlockRespStep == ASSUME IInv, SenderFrame, recv_block_resp PROVE IInv'
<1>1. /\ s.pc = "blockResp" /\ req' = req /\ Received({"OK", "CONT", "ERR"})
      /\ NextFile("sent", obj)
  BY DEF recv_block_resp
<1>2. /\ Advance /\ ObjRight' /\ s'.pc \in {"done", "name"} /\ (Last(s.idx) => s'.pc = "done")
      /\ resp[1] # << >> /\ resp' \in [1 .. 2 -> Seq(Reply)]
  BY <1>1, NextFileFacts, ReceivedFacts
<1>3. s'.pc # "done" => ~ Ended
  BY <1>1, <1>2 DEF Ended
<1>4. ToPeer => RelayRight'
  BY <1>1, <1>2, <1>3, RelayTakes
<1> QED BY <1>1, <1>2, <1>4, SenderTakes

LEMMA RecvNoRespStep == ASSUME IInv, SenderFrame, recv_no_resp PROVE IInv'
<1>1. s.pc \in {"nameResp", "md5Resp", "blockResp"} /\ GiveUp /\ req' = req /\ resp' = resp
  BY DEF recv_no_resp
<1>2. Advance /\ ObjRight' /\ s'.pc = "done" /\ resp' \in [1 .. 2 -> Seq(Reply)]
  BY <1>1, GiveUpFacts DEF IInv, Typed, QueuesTyped
<1>3. ToPeer => RelayRight'
  BY <1>1, <1>2, RelayTakes
<1> QED BY <1>1, <1>2, <1>3, SenderTakes

LEMMA SenderStep == ASSUME IInv, send_files_by_put_req PROVE IInv'
<1>1. SenderFrame
  BY DEF send_files_by_put_req, SenderFrame
<1> QED BY <1>1, SendNameStep, RecvNameStep, SendMd5Step, RecvMd5RespStep, SendContentStep,
           RecvBlockRespStep, RecvNoRespStep DEF send_files_by_put_req

-----------------------------------------------------------------------------
\* A step that keeps the two ends and the stream.
LEMMA EndsKept ==
  ASSUME IInv, UNCHANGED << size, disk, s, obj, r, stored, verdict >>, nonblock' \in BOOLEAN,
         UpdateRight',
         Stream' = Stream, QueuesTyped', RelayTyped', ToPeer => RelayRight',
         ~ ToPeer => req'[2] = << >>
  PROVE  IInv'
<1>1. /\ size' = size /\ disk' = disk /\ s' = s /\ r' = r /\ stored' = stored
      /\ verdict' = verdict
  OBVIOUS
<1>2. Typed'
  BY <1>1 DEF IInv, Typed, FilesTyped, SenderTyped, ReceiverTyped, IsDir
<1>3. PICK q : q = Stream
  OBVIOUS
<1>4. SenderRight(q)' /\ ReceiverRight(q)' /\ StreamRight(q)
  <2>1. SenderRight(q) /\ ReceiverRight(q) /\ StreamRight(q)
    BY <1>3 DEF IInv
  <2>2. SenderRight(q)'
    BY <1>1, <2>1 DEF SenderRight, Begun, IsDir
  <2>3. ReceiverRight(q)'
    BY <1>1, <2>1 DEF ReceiverRight, Begun, IsDir
  <2> QED BY <2>1, <2>2, <2>3
<1>5. StreamRight(Stream)' /\ SenderRight(Stream)' /\ ReceiverRight(Stream)'
  BY <1>3, <1>4
<1>6. NoSilentCorruption'
  BY <1>1 DEF IInv, NoSilentCorruption, Whole, IsDir
<1>7. ObjRight'
  BY <1>1 DEF IInv, ObjRight, Last
<1> QED BY <1>2, <1>5, <1>6, <1>7 DEF IInv

LEMMA PortStep == ASSUME IInv, handle_port_update_req PROVE IInv'
<1>1. /\ size' = size /\ disk' = disk /\ s' = s /\ r' = r /\ stored' = stored
      /\ verdict' = verdict /\ req' = req /\ resp' = resp /\ relay' = relay /\ nonblock' = TRUE
      /\ update' = update /\ obj' = obj
  BY DEF handle_port_update_req
<1>2. Stream' = Stream /\ QueuesTyped' /\ RelayTyped'
  BY <1>1 DEF IInv, Typed, Stream, QueuesTyped, RelayTyped
<1>3. ToPeer => RelayRight'
  BY <1>1 DEF IInv, RelayRight, Ended, FirstName, IsDir
<1>4. UpdateRight'
  BY <1>1 DEF IInv, UpdateRight
<1> QED BY <1>1, <1>2, <1>3, <1>4, EndsKept DEF IInv

\* The announcement goes out only when the first request has been forwarded.
LEMMA NotifyStep == ASSUME IInv, notify_client_after_updating PROVE IInv'
<1>1. /\ size' = size /\ disk' = disk /\ s' = s /\ r' = r /\ stored' = stored
      /\ verdict' = verdict /\ req' = req /\ resp' = resp /\ relay' = relay
      /\ nonblock' = nonblock /\ obj' = obj /\ PortUpdate /\ ToPeer /\ update' = Len(req[2])
      /\ relay.pc # "loop" \/ req[2] # << >> \/ r.pc # "loop"
  BY DEF notify_client_after_updating
<1>2. Stream' = Stream /\ QueuesTyped' /\ RelayTyped' /\ QueuesTyped /\ nonblock' \in BOOLEAN
  BY <1>1 DEF IInv, Typed, Stream, QueuesTyped, RelayTyped, SenderTyped
<1>3. ToPeer => RelayRight'
  BY <1>1 DEF IInv, RelayRight, Ended, IsDir
<1>4. UpdateRight'
  BY <1>1, <1>2, StreamTyped DEF UpdateRight
<1> QED BY <1>1, <1>2, <1>3, <1>4, EndsKept DEF IInv

-----------------------------------------------------------------------------
\* The relay.
RelayFrame == UNCHANGED << size, disk, s, obj, nonblock, verdict, r, update, stored >>

LEMMA ForwardStep ==
  ASSUME IInv, ToPeer, RelayFrame, req[1] # << >>, Forward(Head(req[1]))
  PROVE  IInv'
<1>1. /\ size' = size /\ disk' = disk /\ s' = s /\ r' = r /\ stored' = stored
      /\ verdict' = verdict /\ nonblock' = nonblock /\ obj' = obj /\ update' = update
      /\ UpdateRight'
  BY DEF RelayFrame, IInv, UpdateRight
<1>2. QueuesTyped /\ RelayRight /\ nonblock \in BOOLEAN
  BY DEF IInv, Typed, SenderTyped
<1>3. /\ req' = [req EXCEPT ![1] = Tail(@), ![2] = Append(@, Head(req[1]))]
      /\ resp' = resp
  BY DEF Forward
<1>4. /\ Stream' = Stream /\ req' \in [1 .. 2 -> Seq(Packet)]
      /\ req'[1] = Tail(req[1]) /\ Head(req[1]) \in Packet
  BY <1>2, <1>3, StreamForward
<1>5. PICK p \in Packet : p = Head(req[1])
  BY <1>4
<1>6. /\ relay' = [pc |-> IF p.reply THEN "resp" ELSE AfterPacket(p), pkt |-> p]
      /\ p.reply \in BOOLEAN /\ p.stop \in BOOLEAN
  BY <1>5, PacketFields DEF Forward
<1>7. RelayTyped' /\ relay'.pkt = p
      /\ (relay'.pc = "loop" => Stops(p))
  BY <1>6 DEF RelayTyped, AfterPacket, Stops
<1>8. PICK u \in Seq(Packet) : u = req[1]
  BY <1>2, StreamTyped
<1>9. /\ Len(u) \in Nat /\ Len(u) > 0 /\ u[1] = p /\ Len(Tail(u)) = Len(u) - 1
      /\ \A k \in 1 .. Len(Tail(u)) : Tail(u)[k] = u[k + 1]
      /\ Len(u) = 1 => Tail(u) = << >>
  <2>1. Len(u) \in Nat /\ Len(u) > 0 /\ Head(u) = u[1] /\ Len(Tail(u)) = Len(u) - 1
        /\ (\A k \in 1 .. Len(Tail(u)) : Tail(u)[k] = u[k + 1])
        /\ (Len(Tail(u)) = 0 <=> Tail(u) = << >>)
    BY <1>8, TailFacts
  <2> QED BY <1>5, <1>8, <2>1
<1>10. Stops(p) => Tail(u) = << >> /\ Ended
  <2>1. 1 \in 1 .. Len(u)
    BY <1>9
  <2> QED BY <1>2, <1>8, <1>9, <2>1 DEF RelayRight
<1>11. Ended' = Ended
  BY <1>1 DEF Ended, IsDir
<1>12. ASSUME NEW k \in 1 .. Len(Tail(u)), Stops(Tail(u)[k]) PROVE k = Len(Tail(u)) /\ Ended
  <2>1. k + 1 \in 1 .. Len(u) /\ Stops(u[k + 1])
    BY <1>9, <1>12
  <2>2. k + 1 = Len(u) /\ Ended
    BY <1>2, <1>8, <2>1 DEF RelayRight
  <2> QED BY <1>9, <2>2
<1>13. RelayRight'
  <2>1. relay'.pc = "loop" => req'[1] = << >> /\ Ended'
    BY <1>4, <1>7, <1>8, <1>10, <1>11
  <2>2. \A k \in 1 .. Len(req'[1]) : Stops(req'[1][k]) => k = Len(req'[1]) /\ Ended'
    BY <1>4, <1>8, <1>11, <1>12
  <2>3. Stops(relay'.pkt) => req'[1] = << >> /\ Ended'
    BY <1>4, <1>7, <1>8, <1>10, <1>11
  <2> QED BY <2>1, <2>2, <2>3 DEF RelayRight
<1>14. QueuesTyped'
  BY <1>2, <1>3, <1>4 DEF QueuesTyped
<1> QED BY <1>1, <1>2, <1>4, <1>7, <1>13, <1>14, EndsKept

\* Only the first request, a name, is ever refused.
LEMMA RefuseStep ==
  ASSUME IInv, ToPeer, RelayFrame, relay.pc = "loop", req[1] # << >>, Refuse(Head(req[1]))
  PROVE  IInv'
<1>1. /\ size' = size /\ disk' = disk /\ s' = s /\ r' = r /\ stored' = stored
      /\ verdict' = verdict /\ nonblock' = nonblock /\ obj' = obj /\ update' = update
      /\ UpdateRight'
  BY DEF RelayFrame, IInv, UpdateRight
<1>2. Typed /\ QueuesTyped /\ RelayRight
  BY DEF IInv, Typed
<1>3. /\ FirstName(req[1]) /\ req[2] = << >> /\ resp[1] = << >>
      /\ s.pc \in {"nameResp", "done"} /\ r.pc = "loop"
  BY <1>2 DEF RelayRight
<1>4. PICK p \in Packet : req[1] = << p >> /\ p.kind = "name" /\ p.idx = 0
  BY <1>3 DEF FirstName
<1>5. p \in Packet /\ p.kind = "name" /\ p.idx = 0
  BY <1>4
<1>6. Head(req[1]) = p /\ Tail(req[1]) = << >>
  BY <1>3, <1>4
<1>7. PICK a : a = Answer(p, "ERR")
  OBVIOUS
<1>8. a \in Reply /\ a.status = "ERR"
  BY <1>5, <1>7, Replies
<1>9. /\ req' = [req EXCEPT ![1] = << >>]
      /\ resp' = [resp EXCEPT ![1] = Append(@, a)] /\ relay' = relay
  BY <1>6, <1>7 DEF Refuse
<1>10. << >> \in Seq(Packet) /\ << a >> \in Seq(Reply) /\ Append(<< >>, a) = << a >>
  BY <1>8
<1>11. /\ req' \in [1 .. 2 -> Seq(Packet)] /\ req'[1] = << >> /\ req'[2] = << >>
  BY <1>2, <1>3, <1>9, <1>10 DEF QueuesTyped
<1>12. resp' = [resp EXCEPT ![1] = << a >>]
  BY <1>3, <1>9, <1>10
<1>13. resp' \in [1 .. 2 -> Seq(Reply)] /\ resp'[1] = << a >>
  BY <1>2, <1>10, <1>12 DEF QueuesTyped
<1>14. Stream' = << >> /\ Stream = << p >>
  BY <1>3, <1>4, <1>11 DEF Stream
<1>15. Typed'
  BY <1>1, <1>2, <1>9, <1>11, <1>13
     DEF Typed, FilesTyped, SenderTyped, ReceiverTyped, RelayTyped, QueuesTyped, IsDir
<1>16. StreamRight(<< >>) /\ SenderRight(<< >>)' /\ ReceiverRight(<< >>)'
  <2>1. SenderRight(Stream) /\ ReceiverRight(Stream)
    BY DEF IInv
  <2>2. Len(<< >>) = 0 /\ 1 .. 0 = {}
    OBVIOUS
  <2>3. StreamRight(<< >>)
    BY <2>2 DEF StreamRight
  <2>4. SenderRight(<< >>)'
    BY <1>1, <1>3, <2>1, <2>2 DEF SenderRight, IsDir
  <2>5. ReceiverRight(<< >>)'
    BY <1>1, <1>3, <2>1, <2>2 DEF ReceiverRight, Begun
  <2> QED BY <2>3, <2>4, <2>5
<1>17. RelayRight'
  <2>1. Head(<< a >>).status = "ERR" /\ << a >> # << >>
    BY <1>8
  <2>2. s'.pc = "done" => Ended'
    BY DEF Ended
  <2> QED BY <1>1, <1>3, <1>9, <1>11, <1>13, <2>1, <2>2 DEF RelayRight
<1>18. NoSilentCorruption'
  BY <1>1 DEF IInv, NoSilentCorruption, Whole, IsDir
<1>19. ObjRight'
  BY <1>1 DEF IInv, ObjRight, Last
<1> QED BY <1>1, <1>11, <1>14, <1>15, <1>16, <1>17, <1>18, <1>19 DEF IInv

LEMMA FwdRespStep == ASSUME IInv, ToPeer, RelayFrame, FwdResp PROVE IInv'
<1>1. /\ size' = size /\ disk' = disk /\ s' = s /\ r' = r /\ stored' = stored
      /\ verdict' = verdict /\ nonblock' = nonblock /\ obj' = obj /\ update' = update
      /\ UpdateRight'
  BY DEF RelayFrame, IInv, UpdateRight
<1>2. QueuesTyped /\ RelayTyped /\ RelayRight /\ nonblock \in BOOLEAN
  BY DEF IInv, Typed, SenderTyped
<1>3. /\ relay.pc = "resp" /\ resp[2] # << >> /\ req' = req
      /\ resp' = [resp EXCEPT ![2] = Tail(@), ![1] = Append(@, Head(resp[2]))]
      /\ relay' = [relay EXCEPT !.pc = AfterPacket(relay.pkt)]
  BY DEF FwdResp
<1>4. /\ resp[1] \in Seq(Reply) /\ resp[2] \in Seq(Reply) /\ resp \in [1 .. 2 -> Seq(Reply)]
  BY <1>2 DEF QueuesTyped
<1>5. Tail(resp[2]) \in Seq(Reply) /\ Append(resp[1], Head(resp[2])) \in Seq(Reply)
  BY <1>3, <1>4
<1>6. resp' \in [1 .. 2 -> Seq(Reply)]
  <2> DEFINE S == Seq(Reply)
             x == Append(resp[1], Head(resp[2]))
             y == Tail(resp[2])
  <2>1. resp \in [1 .. 2 -> S] /\ x \in S /\ y \in S /\ resp' = [resp EXCEPT ![2] = y, ![1] = x]
    BY <1>3, <1>4, <1>5
  <2> HIDE DEF S, x, y
  <2>2. resp' \in [1 .. 2 -> S]
    BY ONLY <2>1
  <2> QED BY <2>2 DEF S
<1>7. RelayTyped' /\ relay'.pkt = relay.pkt /\ (relay'.pc = "loop" => Stops(relay.pkt))
      /\ relay'.pc # "resp"
  BY <1>2, <1>3 DEF RelayTyped, AfterPacket, Stops
<1>8. Ended' = Ended
  BY <1>1 DEF Ended, IsDir
<1>9. RelayRight'
  BY <1>2, <1>3, <1>7, <1>8 DEF RelayRight
<1>10. Stream' = Stream /\ QueuesTyped'
  BY <1>2, <1>3, <1>6 DEF Stream, QueuesTyped
<1> QED BY <1>1, <1>2, <1>7, <1>9, <1>10, EndsKept

LEMMA RelayStep == ASSUME IInv, handle_fwd_put_req PROVE IInv'
<1>1. ToPeer /\ RelayFrame
  BY DEF handle_fwd_put_req, RelayFrame
<1>2. CASE FwdStart
  BY <1>1, <1>2, ForwardStep, RefuseStep DEF FwdStart
<1>3. CASE FwdNext
  BY <1>1, <1>3, ForwardStep DEF FwdNext
<1>4. CASE FwdResp
  BY <1>1, <1>4, FwdRespStep
<1> QED BY <1>2, <1>3, <1>4 DEF handle_fwd_put_req

-----------------------------------------------------------------------------
\* The receiver.
ReceiverFrame == UNCHANGED << size, s, obj, nonblock, verdict, relay >>

\* The md5 check passes only for the file itself, where it has an entry's md5.
LEMMA SameFile ==
  ASSUME NEW name, NEW md5, NEW d
  PROVE  /\ same_file(name, md5, d) \subseteq BOOLEAN
         /\ TRUE \in same_file(name, md5, d) => md5 # Junk
         /\ TRUE \in same_file(name, md5, d) /\ name # Junk => d[name] = size[md5]
<1>1. CASE md5 = Junk
  <2>1. same_file(name, md5, d) = {FALSE}
    BY <1>1 DEF same_file
  <2> QED BY <2>1
<1>2. CASE md5 # Junk /\ name = Junk
  <2>1. same_file(name, md5, d) = IF size[md5] = 0 THEN BOOLEAN ELSE {FALSE}
    BY <1>2 DEF same_file
  <2> QED BY <1>2, <2>1
<1>3. CASE md5 # Junk /\ name # Junk
  <2>1. same_file(name, md5, d) = {d[name] = size[md5] /\ (md5 = name \/ d[name] = 0)}
    BY <1>3 DEF same_file
  <2> QED BY <1>3, <2>1
<1> QED BY <1>1, <1>2, <1>3

\* What the receiver has to see to: p is the request it took.
Sound(p) ==
  /\ FilesTyped' /\ ReceiverTyped' /\ NoSilentCorruption'
  /\ r'.pc = "md5" /\ r'.name # Junk => IsName(p) /\ r'.name = p.idx
  /\ r'.pc = "block" /\ r'.name # Junk /\ r'.md5 # Junk => r'.md5 = r'.name
  /\ r'.pc \in {"md5", "block"} /\ r'.name # Junk => r'.name \notin stored' /\ ~ IsDir(r'.name)
  /\ \A j \in stored' \cup {r'.name} :
       j \in stored \cup {r.name} \/ j = Junk \/ (IsName(p) /\ j = p.idx)

LEMMA RelayUnmoved ==
  ASSUME IInv, ToPeer, ReceiverFrame, req'[1] = req[1], resp'[1] = resp[1],
         req[2] # << >> \/ r.pc # "loop" \/ update # NotYet
  PROVE  RelayRight'
<1>1. relay' = relay /\ s' = s /\ size' = size /\ RelayRight
  BY DEF ReceiverFrame, IInv
<1>2. Ended' = Ended
  BY <1>1 DEF Ended, IsDir
<1> QED BY <1>1, <1>2 DEF RelayRight

LEMMA ReceiverTakes ==
  ASSUME IInv, ReceiverFrame, req[Hop] # << >>, NEW p, p = Head(req[Hop]),
         req' = [req EXCEPT ![Hop] = Tail(@)],
         resp' \in [1 .. 2 -> Seq(Reply)], ToPeer => resp'[1] = resp[1], Sound(p),
         UpdateRight'
  PROVE  IInv'
<1>1. size' = size /\ s' = s /\ relay' = relay /\ nonblock' = nonblock /\ verdict' = verdict
  BY DEF ReceiverFrame
<1>2. /\ Typed /\ QueuesTyped /\ StreamRight(Stream) /\ SenderRight(Stream)
      /\ ReceiverRight(Stream) /\ (~ ToPeer => req[2] = << >>)
  BY DEF IInv, Typed
<1>3. /\ Stream # << >> /\ Head(Stream) = p /\ Stream' = Tail(Stream)
      /\ req' \in [1 .. 2 -> Seq(Packet)]
      /\ ToPeer => req'[1] = req[1]
      /\ ~ ToPeer => req'[2] = << >>
  BY <1>2, StreamTake
<1>4. PICK q \in Seq(Packet) : q = Stream
  BY <1>2, StreamTyped
<1>5. PICK x : x = Tail(q)
  OBVIOUS
<1>6. /\ StreamRight(x) /\ x \in Seq(Packet)
      /\ \A k \in 1 .. Len(x) : \E j \in 1 .. Len(q) : x[k] = q[j]
      /\ IsName(p) => \A k \in 1 .. Len(x) : IsName(x[k]) => p.idx < x[k].idx
      /\ x # << >> /\ x[1].kind = "md5" => IsName(p) /\ p.idx = x[1].idx
      /\ x # << >> => x[Len(x)] = q[Len(q)]
      /\ x = << >> => q[Len(q)] = p
      /\ p = q[1] /\ 1 \in 1 .. Len(q) /\ q # << >>
  <2>1. q # << >> /\ StreamRight(q) /\ Head(q) = p
    BY <1>2, <1>3, <1>4
  <2>2. Head(q) = q[1] /\ 1 \in 1 .. Len(q)
    BY <2>1
  <2>3. p = q[1]
    BY <2>1, <2>2
  <2> QED BY <1>5, <2>1, <2>2, <2>3, PopRight
<1>7. SenderRight(x)'
  <2>1. \A k \in 1 .. Len(x) : IsName(x[k]) => Begun(x[k].idx)'
    BY <1>1, <1>2, <1>4, <1>6 DEF SenderRight, Begun
  <2>2. s.pc \in {"nameResp", "md5"} => IsName(q[Len(q)]) /\ q[Len(q)].idx = s.idx
    BY <1>2, <1>4, <1>6 DEF SenderRight
  <2>3. s'.pc \in {"nameResp", "md5"} =>
         IF x = << >> THEN r'.pc = "md5" /\ r'.name # Junk => r'.name = s'.idx
         ELSE IsName(x[Len(x)]) /\ x[Len(x)].idx = s'.idx
    BY <1>1, <1>6, <2>2 DEF Sound
  <2>4. SenderRight(q)
    BY <1>2, <1>4
  <2> QED BY <1>1, <2>1, <2>3, <2>4 DEF SenderRight, IsDir
<1>8. ReceiverRight(x)'
  <2>1. x # << >> /\ x[1].kind = "md5" /\ r'.pc = "md5" /\ r'.name # Junk => r'.name = x[1].idx
    BY <1>6 DEF Sound
  <2>2. ASSUME NEW j \in stored' \cup {r'.name}
        PROVE  /\ Begun(j)'
               /\ \A k \in 1 .. Len(x) : IsName(x[k]) => j < x[k].idx
    <3>1. CASE j \in stored \cup {r.name}
      BY <1>1, <1>2, <1>4, <1>6, <3>1 DEF ReceiverRight, Begun
    <3>2. CASE j = Junk
      <4>1. s.idx \in Nat /\ \A k \in 1 .. Len(q) : q[k].idx \in Nat
        BY <1>2, <1>4, IndexFacts
      <4>2. \A k \in 1 .. Len(x) : x[k].idx \in Nat
        BY <4>1, <1>6
      <4> QED BY <1>1, <3>2, <4>1, <4>2 DEF Begun, Junk
    <3>3. CASE IsName(p) /\ j = p.idx
      <4>1. Begun(j)
        BY <1>2, <1>4, <1>6, <3>3 DEF SenderRight
      <4> QED BY <1>1, <1>6, <3>3, <4>1 DEF Begun
    <3> QED BY <3>1, <3>2, <3>3 DEF Sound
  <2> QED BY <1>1, <2>1, <2>2 DEF ReceiverRight, Sound, IsDir
<1>9. StreamRight(Stream)' /\ SenderRight(Stream)' /\ ReceiverRight(Stream)'
  BY <1>3, <1>4, <1>5, <1>6, <1>7, <1>8
<1>10. ToPeer => RelayRight'
  <2>1. ToPeer => req[2] # << >>
    BY DEF Hop
  <2> QED BY <1>3, <2>1, RelayUnmoved
<1>11. Typed'
  BY <1>1, <1>2, <1>3 DEF Typed, SenderTyped, RelayTyped, QueuesTyped, Sound
<1>12. ObjRight'
  BY <1>1 DEF IInv, ObjRight, Last, ReceiverFrame
<1> QED BY <1>3, <1>9, <1>10, <1>11, <1>12 DEF IInv, Sound

\* Without a request.
LEMMA ReceiverWaits ==
  ASSUME IInv, ReceiverFrame, req' = req, r.pc # "loop" \/ update # NotYet,
         resp' \in [1 .. 2 -> Seq(Reply)], ToPeer => resp'[1] = resp[1],
         FilesTyped', ReceiverTyped', NoSilentCorruption', UpdateRight',
         r'.pc = "md5" => r'.name = Junk,
         r'.pc = "block" /\ r'.name # Junk /\ r'.md5 # Junk => r'.md5 = r'.name,
         r'.pc = "block" /\ r'.name # Junk => r'.name \notin stored' /\ ~ IsDir(r'.name),
         stored' \cup {r'.name} \subseteq stored \cup {r.name, Junk}
  PROVE  IInv'
<1>1. /\ size' = size /\ s' = s /\ relay' = relay /\ nonblock' = nonblock /\ verdict' = verdict
      /\ obj' = obj
  BY DEF ReceiverFrame
<1>2. /\ Typed /\ StreamRight(Stream) /\ SenderRight(Stream)
      /\ ReceiverRight(Stream) /\ (~ ToPeer => req[2] = << >>)
  BY DEF IInv
<1>3. PICK q : q = Stream
  OBVIOUS
<1>4. SenderRight(q)'
  BY <1>1, <1>2, <1>3 DEF SenderRight, Begun, IsDir
<1>5. ReceiverRight(q)'
  <2>1. ASSUME NEW j \in stored' \cup {r'.name}
        PROVE  Begun(j)' /\ \A k \in 1 .. Len(q) : IsName(q[k]) => j < q[k].idx
    <3>1. CASE j \in stored \cup {r.name}
      BY <1>1, <1>2, <1>3, <3>1 DEF ReceiverRight, Begun
    <3>2. CASE j = Junk
      <4>1. s.idx \in Nat /\ \A k \in 1 .. Len(q) : q[k].idx \in Nat
        BY <1>2, <1>3, IndexFacts
      <4> QED BY <1>1, <3>2, <4>1 DEF Begun, Junk
    <3> QED BY <3>1, <3>2
  <2> QED BY <1>1, <2>1 DEF ReceiverRight, IsDir
<1>6. Stream' = Stream
  BY DEF Stream
<1>7. ToPeer => RelayRight'
  BY RelayUnmoved
<1>8. Typed'
  BY <1>1, <1>2 DEF Typed, SenderTyped, RelayTyped, QueuesTyped
<1>9. ObjRight'
  BY <1>1 DEF IInv, ObjRight, Last
<1> QED BY <1>2, <1>3, <1>4, <1>5, <1>6, <1>7, <1>8, <1>9 DEF IInv

LEMMA TakeFacts ==
  ASSUME IInv, req[Hop] # << >>, NEW ans \in Seq(Reply), Take(ans)
  PROVE  /\ req' = [req EXCEPT ![Hop] = Tail(@)] /\ Next_packet \in Packet
         /\ resp' \in [1 .. 2 -> Seq(Reply)] /\ (ToPeer => resp'[1] = resp[1])
<1>1. req' = [req EXCEPT ![Hop] = Tail(@)] /\ resp' = [resp EXCEPT ![Hop] = @ \o ans]
  BY DEF Take
<1>2. Hop \in 1 .. 2 /\ (ToPeer => Hop = 2)
  BY PutAssumption DEF Hop
<1>3. req \in [1 .. 2 -> Seq(Packet)] /\ resp \in [1 .. 2 -> Seq(Reply)]
  BY DEF IInv, Typed, QueuesTyped
<1>4. req[Hop] \in Seq(Packet) /\ resp[Hop] \in Seq(Reply)
  BY <1>2, <1>3
<1>5. Head(req[Hop]) \in Packet
  BY <1>4
<1>6. PICK h \in 1 .. 2 : h = Hop
  BY <1>2
<1>7. PICK x \in Seq(Reply) : x = resp[h] \o ans
  <2>1. resp[h] \in Seq(Reply)
    BY <1>4, <1>6
  <2>2. resp[h] \o ans \in Seq(Reply)
    BY <2>1, ConcatProperties
  <2> QED BY <2>2
<1>8. resp' = [resp EXCEPT ![h] = x]
  BY <1>1, <1>3, <1>6, <1>7
<1>9. resp' \in [1 .. 2 -> Seq(Reply)] /\ (h = 2 => resp'[1] = resp[1])
  BY ONLY <1>3, <1>8
<1> QED BY <1>1, <1>2, <1>5, <1>6, <1>9 DEF Next_packet

LEMMA OneAnswer ==
  ASSUME NEW p \in Packet \cup {Announcement}, NEW st \in {"OK", "CONT", "ERR"}
  PROVE  << Answer(p, st) >> \in Seq(Reply)
BY Replies

\* The request it takes is the first of the stream.
LEMMA NextFacts ==
  ASSUME IInv, req[Hop] # << >>, req' = [req EXCEPT ![Hop] = Tail(@)], NEW p,
         p = Head(req[Hop])
  PROVE  /\ IsName(p) => \A j \in stored \cup {r.name} : j < p.idx
         /\ p.kind = "md5" /\ r.pc = "md5" /\ r.name # Junk => r.name = p.idx
<1>1. QueuesTyped /\ (~ ToPeer => req[2] = << >>) /\ ReceiverRight(Stream)
  BY DEF IInv, Typed
<1>2. Stream # << >> /\ Head(Stream) = p
  BY <1>1, StreamTake
<1>3. PICK q \in Seq(Packet) : q = Stream
  BY <1>1, StreamTyped
<1>4. q # << >> /\ q[1] = p /\ 1 \in 1 .. Len(q)
  BY <1>2, <1>3
<1>5. ReceiverRight(q)
  BY <1>1, <1>3
<1> QED BY <1>4, <1>5 DEF ReceiverRight

LEMMA DoneFields ==
  ASSUME ReceiverTyped, stored \subseteq Entry, NEW name \in Entry \cup {Junk},
         NEW last \in BOOLEAN, FileDone(name, last)
  PROVE  /\ ReceiverTyped' /\ r'.pc \notin {"md5", "block"} /\ r'.name = name
         /\ stored' \subseteq Entry
         /\ \A j : j \in stored' <=> j \in stored \/ (j = name /\ j # Junk)
<1>1. ReceiverTyped' /\ r'.pc \notin {"md5", "block"} /\ r'.name = name
  BY DEF FileDone, ReceiverTyped
<1> QED BY <1>1 DEF FileDone

LEMMA FailedFields ==
  ASSUME ReceiverTyped, FileFailed
  PROVE  /\ ReceiverTyped' /\ r'.pc \notin {"md5", "block"} /\ r'.name = r.name
         /\ stored' = stored
BY DEF FileFailed, ReceiverTyped

\* A file that was accepted has a size.
LEMMA AcceptedFacts ==
  ASSUME IInv, NEW j \in stored, ~ IsDir(j)
  PROVE  j \in Entry /\ disk[j] = size[j] /\ size[j] \in Nat /\ disk[j] # Absent
<1>1. FilesTyped /\ NoSilentCorruption
  BY DEF IInv, Typed
<1>2. j \in Entry /\ size[j] \in Sizes \cup {Dir}
  BY <1>1 DEF FilesTyped
<1>3. disk[j] = size[j]
  BY <1>1 DEF NoSilentCorruption, Whole
<1>4. size[j] # Dir /\ Sizes \subseteq Nat
  BY PutAssumption DEF IsDir
<1>5. size[j] \in Nat
  BY <1>2, <1>4
<1> QED BY <1>2, <1>3, <1>5 DEF Absent

\* One entry of the receiver's file system is written.
LEMMA WriteFacts ==
  ASSUME FilesTyped, size' = size, NEW i \in Entry, NEW c \in {Other} \cup Nat,
         IsDir(i) => c = 0, disk' = [disk EXCEPT ![i] = c], stored' \subseteq Entry
  PROVE  FilesTyped' /\ disk'[i] = c /\ \A j \in Entry : j # i => disk'[j] = disk[j]
<1>1. disk \in [Entry -> Int] /\ c \in Int
  BY DEF FilesTyped, Other
<1>2. /\ disk' \in [Entry -> Int] /\ disk'[i] = c
      /\ \A j \in Entry : j # i => disk'[j] = disk[j]
  BY <1>1
<1>3. \A j \in Entry : /\ disk'[j] \in {Absent, Other} \cup Nat
                       /\ IsDir(j)' => disk'[j] \in {Absent, 0}
  BY <1>2 DEF FilesTyped, IsDir
<1> QED BY <1>2, <1>3 DEF FilesTyped

LEMMA SameDisk ==
  ASSUME FilesTyped, size' = size, disk' = disk, stored' \subseteq Entry
  PROVE  FilesTyped'
BY DEF FilesTyped, IsDir

LEMMA NameStep ==
  ASSUME IInv, ReceiverFrame, req[Hop] # << >>, RecvName, UpdateRight'
  PROVE  IInv'
<1> DEFINE p == Next_packet
           name == IF p.kind = "name" THEN p.idx ELSE Junk
<1>1. FilesTyped /\ ReceiverTyped /\ stored \subseteq Entry /\ size' = size /\ NoSilentCorruption
  BY DEF IInv, Typed, FilesTyped, ReceiverFrame
<1>2. PICK i : i = p.idx
  OBVIOUS
<1>3. PICK nm : nm = name
  OBVIOUS
<1>4. QueuesTyped /\ Hop \in 1 .. 2
  BY PutAssumption DEF IInv, Typed, Hop
<1>5. p \in Packet
  BY <1>4 DEF QueuesTyped, Next_packet
<1>6. i \in Entry /\ i # Junk /\ (IsName(p) => nm = i) /\ (~ IsName(p) => nm = Junk)
      /\ nm \in Entry \cup {Junk} /\ p.last \in BOOLEAN
  BY <1>2, <1>3, <1>5, PacketFields, EntryFacts DEF IsName
<1>7. << Answer(p, "OK") >> \in Seq(Reply) /\ << Answer(p, "ERR") >> \in Seq(Reply)
  BY <1>5, OneAnswer
<1>8. ASSUME Take(<< Answer(p, "OK") >>) \/ Take(<< Answer(p, "ERR") >>),
             Sound(p)
      PROVE  IInv'
  <2>1. /\ req' = [req EXCEPT ![Hop] = Tail(@)]
        /\ resp' \in [1 .. 2 -> Seq(Reply)] /\ (ToPeer => resp'[1] = resp[1])
    BY <1>7, <1>8, TakeFacts
  <2> QED BY <1>8, <2>1, ReceiverTakes DEF Next_packet
<1>9. CASE /\ IsDir(i)
           /\ \/ disk' = [disk EXCEPT ![i] = 0]
              \/ Fault /\ disk' = disk
           /\ Take(<< Answer(p, "OK") >>)
           /\ FileDone(nm, p.last)
  <2>1. /\ ReceiverTyped' /\ r'.pc \notin {"md5", "block"} /\ r'.name = nm
        /\ stored' \subseteq Entry
        /\ \A j : j \in stored' <=> j \in stored \/ (j = nm /\ j # Junk)
    BY <1>1, <1>6, <1>9, DoneFields
  <2>2. FilesTyped' /\ \A j \in Entry : j # i => disk'[j] = disk[j]
    BY <1>1, <1>6, <1>9, <2>1, WriteFacts, SameDisk
  <2>3. NoSilentCorruption'
    BY <1>1, <1>6, <1>9, <2>1, <2>2 DEF NoSilentCorruption, Whole, IsDir
  <2>4. Sound(p)
    BY <1>2, <1>6, <2>1, <2>2, <2>3 DEF Sound
  <2> QED BY <1>8, <1>9, <2>4
<1>10. CASE /\ ~ IsDir(i)
            /\ disk' = IF nm # Junk /\ disk[i] = Absent THEN [disk EXCEPT ![i] = 0] ELSE disk
            /\ Take(<< Answer(p, "OK") >>)
            /\ r' = [r EXCEPT !.pc = "md5", !.name = nm, !.last = p.last]
            /\ stored' = stored
  <2>1. ReceiverTyped' /\ r'.pc = "md5" /\ r'.name = nm
    BY <1>1, <1>6, <1>10 DEF ReceiverTyped
  <2>2. /\ FilesTyped'
        /\ \A j \in Entry : disk[j] # Absent => disk'[j] = disk[j]
    <3>1. CASE nm # Junk /\ disk[i] = Absent
      BY <1>1, <1>6, <1>10, <3>1, WriteFacts
    <3>2. CASE ~ (nm # Junk /\ disk[i] = Absent)
      BY <1>1, <1>10, <3>2, SameDisk
    <3> QED BY <3>1, <3>2
  <2>3. ASSUME NEW j \in stored', ~ IsDir(j)' PROVE Whole(j)'
    <3>1. j \in stored /\ ~ IsDir(j)
      BY <1>1, <1>10, <2>3 DEF IsDir
    <3> QED BY <1>1, <2>2, <2>3, <3>1, AcceptedFacts DEF Whole, IsDir
  <2>4. IsName(p) => i \notin stored
    <3>1. req' = [req EXCEPT ![Hop] = Tail(@)]
      BY <1>10 DEF Take
    <3>2. IsName(p) => \A j \in stored : j < i
      BY <1>2, <3>1, NextFacts DEF Next_packet
    <3>3. PICK k \in Entry : k = i
      BY <1>6
    <3>4. ~ (k < k)
      BY PutAssumption DEF Entry
    <3> QED BY <3>2, <3>3, <3>4
  <2>5. Sound(p)
    BY <1>1, <1>2, <1>6, <1>10, <2>1, <2>2, <2>3, <2>4 DEF Sound, NoSilentCorruption, IsDir
  <2> QED BY <1>8, <1>10, <2>5
<1>11. CASE Take(<< Answer(p, "ERR") >>) /\ FileFailed /\ disk' = disk
  <2>1. /\ ReceiverTyped' /\ r'.pc \notin {"md5", "block"} /\ r'.name = r.name
        /\ stored' = stored
    BY <1>1, <1>11, FailedFields
  <2>2. FilesTyped' /\ NoSilentCorruption'
    BY <1>1, <1>11, <2>1, SameDisk DEF NoSilentCorruption, Whole, IsDir
  <2>3. Sound(p)
    BY <2>1, <2>2 DEF Sound
  <2> QED BY <1>8, <1>11, <2>3
<1> QED BY <1>2, <1>3, <1>9, <1>10, <1>11 DEF RecvName

\* Nothing but the file in hand is written, and that one is not accepted yet.
LEMMA OthersKept ==
  ASSUME IInv, size' = size, r.pc \in {"md5", "block"}, stored' \subseteq stored,
         \A j \in Entry : j # r.name => disk'[j] = disk[j]
  PROVE  NoSilentCorruption'
<1>1. ReceiverRight(Stream) /\ NoSilentCorruption /\ stored \subseteq Entry
  BY DEF IInv, Typed, FilesTyped
<1>2. \A j \in stored : j \in Entry /\ (r.name \in Entry => j # r.name)
  <2>1. r.name # Junk => r.name \notin stored
    BY <1>1 DEF ReceiverRight
  <2> QED BY <1>1, <2>1, EntryFacts
<1>3. ASSUME NEW j \in stored', ~ IsDir(j)' PROVE Whole(j)'
  <2>1. j \in stored /\ ~ IsDir(j) /\ j \in Entry
    BY <1>2, <1>3 DEF IsDir
  <2>2. j # r.name
    BY <1>2, <2>1
  <2> QED BY <1>1, <2>1, <2>2 DEF NoSilentCorruption, Whole, IsDir
<1> QED BY <1>3 DEF NoSilentCorruption

\* The file in hand passes the check.
LEMMA DoneSound ==
  ASSUME IInv, size' = size, r.pc \in {"md5", "block"}, FileDone(r.name, r.last), FilesTyped',
         \A j \in Entry : j # r.name => disk'[j] = disk[j],
         r.name # Junk => disk'[r.name] = size[r.name]
  PROVE  NoSilentCorruption'
<1>1. /\ ReceiverRight(Stream) /\ NoSilentCorruption /\ stored \subseteq Entry /\ ReceiverTyped
  BY DEF IInv, Typed, FilesTyped
<1>2. r.name \in Entry \cup {Junk} /\ r.last \in BOOLEAN
  BY <1>1 DEF ReceiverTyped
<1>3. \A j : j \in stored' <=> j \in stored \/ (j = r.name /\ j # Junk)
  BY <1>1, <1>2, DoneFields
<1>4. r.name # Junk => r.name \notin stored
  BY <1>1 DEF ReceiverRight
<1>5. ASSUME NEW j \in stored', ~ IsDir(j)' PROVE Whole(j)'
  <2>1. CASE j = r.name /\ j # Junk
    BY <1>5, <2>1 DEF Whole, IsDir
  <2>2. CASE ~ (j = r.name /\ j # Junk)
    <3>1. j \in stored /\ ~ IsDir(j) /\ j \in Entry
      BY <1>1, <1>3, <1>5, <2>2 DEF IsDir
    <3>2. j # r.name
      BY <2>2, <3>1, EntryFacts
    <3> QED BY <1>1, <3>1, <3>2 DEF NoSilentCorruption, Whole, IsDir
  <2> QED BY <2>1, <2>2
<1> QED BY <1>5 DEF NoSilentCorruption

LEMMA Md5Step ==
  ASSUME IInv, ReceiverFrame, req[Hop] # << >>, RecvMd5, UpdateRight'
  PROVE  IInv'
<1> DEFINE p == Next_packet
           md5 == IF p.kind = "md5" THEN p.idx ELSE Junk
           trunc == IF r.name = Junk THEN disk ELSE [disk EXCEPT ![r.name] = 0]
<1>1. FilesTyped /\ ReceiverTyped /\ stored \subseteq Entry /\ size' = size /\ NoSilentCorruption
  BY DEF IInv, Typed, FilesTyped, ReceiverFrame
<1>2. r.pc = "md5" /\ r.name \in Entry \cup {Junk} /\ r.last \in BOOLEAN
  BY <1>1 DEF RecvMd5, ReceiverTyped
<1>3. QueuesTyped /\ Hop \in 1 .. 2
  BY PutAssumption DEF IInv, Typed, Hop
<1>4. p \in Packet
  BY <1>3 DEF QueuesTyped, Next_packet
<1>5. PICK m : m = md5
  OBVIOUS
<1>6. /\ p.idx \in Entry /\ p.idx # Junk /\ m \in Entry \cup {Junk}
      /\ m # Junk => p.kind = "md5" /\ m = p.idx
  BY <1>4, <1>5, PacketFields, EntryFacts
<1>7. << Answer(p, "OK") >> \in Seq(Reply) /\ << Answer(p, "CONT") >> \in Seq(Reply)
  BY <1>4, OneAnswer
<1>8. PICK same \in same_file(r.name, m, disk) :
         \/ /\ same
            /\ Take(<< Answer(p, "OK") >>)
            /\ FileDone(r.name, r.last)
            /\ disk' = disk
         \/ /\ ~ same
            /\ Take(<< Answer(p, "CONT") >>)
            /\ \/ /\ r' = [r EXCEPT !.pc = "block", !.md5 = m, !.got = 0,
                                    !.total = p.total]
                  /\ disk' = trunc
                  /\ stored' = stored
               \/ FileFailed /\ disk' = disk
  BY <1>5 DEF RecvMd5
<1>9. req' = [req EXCEPT ![Hop] = Tail(@)]
  BY <1>8 DEF Take
<1>10. resp' \in [1 .. 2 -> Seq(Reply)] /\ (ToPeer => resp'[1] = resp[1])
  BY <1>7, <1>8, TakeFacts
<1>11. m # Junk /\ r.name # Junk => m = r.name
  BY <1>2, <1>6, <1>9, NextFacts DEF Next_packet
<1>12. r.name # Junk => r.name \notin stored /\ ~ IsDir(r.name)
  BY <1>2 DEF IInv, ReceiverRight
<1>13. Sound(p)
  <2>1. CASE same /\ FileDone(r.name, r.last) /\ disk' = disk
    <3>1. /\ ReceiverTyped' /\ r'.pc \notin {"md5", "block"} /\ r'.name = r.name
          /\ stored' \subseteq Entry
          /\ \A j : j \in stored' <=> j \in stored \/ (j = r.name /\ j # Junk)
      BY <1>1, <1>2, <2>1, DoneFields
    <3>2. FilesTyped'
      BY <1>1, <2>1, <3>1, SameDisk
    <3>3. TRUE \in same_file(r.name, m, disk)
      <4>1. same = TRUE
        BY <1>8, <2>1, SameFile
      <4> QED BY <4>1
    <3>4. r.name # Junk => disk'[r.name] = size[r.name]
      BY <1>11, <2>1, <3>3, SameFile
    <3>5. NoSilentCorruption'
      BY <1>1, <1>2, <2>1, <3>2, <3>4, DoneSound
    <3> QED BY <3>1, <3>2, <3>5 DEF Sound
  <2>2. CASE FileFailed /\ disk' = disk
    <3>1. /\ ReceiverTyped' /\ r'.pc \notin {"md5", "block"} /\ r'.name = r.name
          /\ stored' = stored
      BY <1>1, <2>2, FailedFields
    <3>2. FilesTyped' /\ NoSilentCorruption'
      BY <1>1, <2>2, <3>1, SameDisk DEF NoSilentCorruption, Whole, IsDir
    <3> QED BY <3>1, <3>2 DEF Sound
  <2>3. CASE /\ r' = [r EXCEPT !.pc = "block", !.md5 = m, !.got = 0,
                               !.total = p.total]
             /\ disk' = trunc
             /\ stored' = stored
    <3>1. PICK w : w = p.total
      OBVIOUS
    <3>3. w \in Int
      BY <1>4, <3>1, PacketFields
    <3>4. r' = [r EXCEPT !.pc = "block", !.md5 = m, !.got = 0, !.total = w]
      BY <2>3, <3>1
    <3>5. ReceiverTyped' /\ r'.pc = "block" /\ r'.name = r.name /\ r'.md5 = m
      BY <1>1, <1>6, <3>3, <3>4 DEF ReceiverTyped
    <3>6. FilesTyped' /\ \A j \in Entry : j # r.name => disk'[j] = disk[j]
      <4>1. CASE r.name = Junk
        BY <1>1, <2>3, <4>1, SameDisk
      <4>2. CASE r.name # Junk
        BY <1>1, <1>2, <2>3, <4>2, WriteFacts
      <4> QED BY <4>1, <4>2
    <3>7. NoSilentCorruption'
      BY <1>1, <1>2, <2>3, <3>6, OthersKept
    <3> QED BY <1>1, <1>2, <1>11, <1>12, <2>3, <3>5, <3>6, <3>7 DEF Sound, IsDir
  <2> QED BY <1>8, <2>1, <2>2, <2>3
<1> QED BY <1>9, <1>10, <1>13, ReceiverTakes DEF Next_packet

\* The checks at the end of a file.
LEMMA CheckFacts ==
  ASSUME IInv, size' = size, r.pc = "block", NEW got, CheckFile(got, disk'),
         disk' \in [Entry -> Int], \A i \in Entry : disk'[i] \in {Absent, Other} \cup Nat,
         \A i \in Entry : IsDir(i) => disk'[i] \in {Absent, 0},
         \A j \in Entry : j # r.name => disk'[j] = disk[j]
  PROVE  /\ FilesTyped' /\ ReceiverTyped' /\ NoSilentCorruption'
         /\ r'.pc \notin {"md5", "block"} /\ r'.name = r.name
         /\ stored' \subseteq stored \cup ({r.name} \ {Junk})
<1>1. /\ FilesTyped /\ ReceiverTyped /\ stored \subseteq Entry
      /\ size' \in [Entry -> Sizes \cup {Dir}] /\ ReceiverRight(Stream)
  BY DEF IInv, Typed, FilesTyped
<1>2. r.name \in Entry \cup {Junk} /\ r.last \in BOOLEAN
  BY <1>1 DEF ReceiverTyped
<1>3. PICK same \in same_file(r.name, r.md5, disk') :
        IF got = r.total /\ same THEN FileDone(r.name, r.last) ELSE FileFailed
  BY DEF CheckFile
<1>4. stored' \subseteq Entry => FilesTyped'
  BY <1>1 DEF FilesTyped, IsDir
<1>5. CASE same /\ FileDone(r.name, r.last)
  <2>1. /\ ReceiverTyped' /\ r'.pc \notin {"md5", "block"} /\ r'.name = r.name
        /\ stored' \subseteq Entry
        /\ \A j : j \in stored' <=> j \in stored \/ (j = r.name /\ j # Junk)
    BY <1>1, <1>2, <1>5, DoneFields
  <2>2. TRUE \in same_file(r.name, r.md5, disk')
    <3>1. same = TRUE
      BY <1>3, <1>5, SameFile
    <3> QED BY <1>3, <3>1
  <2>3. r.md5 # Junk /\ (r.name # Junk => r.md5 = r.name)
    BY <1>1, <2>2, SameFile DEF ReceiverRight
  <2>4. r.name # Junk => disk'[r.name] = size[r.name]
    <3>1. PICK d : d = disk'
      OBVIOUS
    <3>2. PICK nm, m : nm = r.name /\ m = r.md5
      OBVIOUS
    <3>3. TRUE \in same_file(nm, m, d)
      BY <2>2, <3>1, <3>2
    <3>4. nm # Junk => d[nm] = size[m]
      BY <3>3, SameFile, Zenon
    <3> QED BY <2>3, <3>1, <3>2, <3>4
  <2>5. NoSilentCorruption'
    BY <1>4, <1>5, <2>1, <2>4, DoneSound
  <2> QED BY <1>4, <2>1, <2>5
<1>6. CASE FileFailed
  <2>1. /\ ReceiverTyped' /\ r'.pc \notin {"md5", "block"} /\ r'.name = r.name
        /\ stored' = stored
    BY <1>1, <1>6, FailedFields
  <2> QED BY <1>1, <1>4, <2>1, OthersKept
<1> QED BY <1>3, <1>5, <1>6

LEMMA BlockStep ==
  ASSUME IInv, ReceiverFrame, req[Hop] # << >>, RecvBlock, UpdateRight'
  PROVE  IInv'
<1> DEFINE p == Next_packet
           got == r.got + p.n
<1>1. FilesTyped /\ ReceiverTyped /\ stored \subseteq Entry /\ size' = size /\ NoSilentCorruption
  BY DEF IInv, Typed, FilesTyped, ReceiverFrame
<1>2. r.pc = "block" /\ r.name \in Entry \cup {Junk} /\ r.last \in BOOLEAN /\ r.got \in Nat
  BY <1>1 DEF RecvBlock, ReceiverTyped
<1>3. QueuesTyped /\ Hop \in 1 .. 2
  BY PutAssumption DEF IInv, Typed, Hop
<1>4. p \in Packet
  BY <1>3 DEF QueuesTyped, Next_packet
<1>5. p.n \in Nat /\ got \in Nat
  BY <1>2, <1>4, PacketFields
<1>6. PICK g \in Nat : g = got
  BY <1>5
<1>7. r.name # Junk => r.name \in Entry /\ r.name \notin stored /\ ~ IsDir(r.name)
  BY <1>2 DEF IInv, ReceiverRight
<1>8. r.md5 # Junk /\ r.name # Junk => r.md5 = r.name
  BY <1>2 DEF IInv, ReceiverRight
\* What is written is a prefix of the file or not, and only in the file in hand.
<1>9. disk' = disk \/ (r.name # Junk /\ \E c \in {Other} \cup Nat : disk' = [disk EXCEPT ![r.name] = c])
  <2>1. CASE r.name = Junk
    BY <2>1 DEF RecvBlock
  <2>2. CASE r.name # Junk
    <3>1. PICK e : e = disk[r.name]
      OBVIOUS
    <3>2. \/ disk' = disk
          \/ p.off = e /\ disk' = [disk EXCEPT ![r.name] = e + p.n]
          \/ disk' = [disk EXCEPT ![r.name] = Other]
      BY <2>2, <3>1 DEF RecvBlock
    <3>3. p.off = e => e + p.n \in Nat
      BY <1>4, <1>5, PacketFields
    <3> QED BY <2>2, <3>2, <3>3
  <2> QED BY <2>1, <2>2
<1>10. /\ disk' \in [Entry -> Int]
       /\ \A i \in Entry : disk'[i] \in {Absent, Other} \cup Nat
       /\ \A i \in Entry : IsDir(i) => disk'[i] \in {Absent, 0}
       /\ \A j \in Entry : j # r.name => disk'[j] = disk[j]
  <2>1. CASE disk' = disk
    BY <1>1, <2>1 DEF FilesTyped
  <2>2. ASSUME r.name # Junk, NEW c \in {Other} \cup Nat, disk' = [disk EXCEPT ![r.name] = c]
        PROVE  <1>10
    <3>1. PICK n \in Entry : n = r.name
      BY <1>7, <2>2
    <3>2. c \in Int /\ c \in {Absent, Other} \cup Nat /\ ~ IsDir(n)
      BY <1>7, <2>2, <3>1 DEF Other
    <3>3. disk \in [Entry -> Int] /\ disk' = [disk EXCEPT ![n] = c]
      BY <1>1, <2>2, <3>1 DEF FilesTyped
    <3>4. disk' \in [Entry -> Int] /\ disk'[n] = c /\ \A j \in Entry : j # n => disk'[j] = disk[j]
      BY <3>2, <3>3
    <3> QED BY <1>1, <3>1, <3>2, <3>4 DEF FilesTyped
  <2> QED BY <1>9, <2>1, <2>2
<1>11. PICK ans \in Seq(Reply) : Take(ans)
  <2>1. << Answer(p, "OK") >> \in Seq(Reply) /\ << >> \in Seq(Reply)
    BY <1>4, OneAnswer
  <2>2. Take(<< Answer(p, "OK") >>) \/ Take(<< >>)
    BY DEF RecvBlock
  <2> QED BY <2>1, <2>2
<1>12. /\ req' = [req EXCEPT ![Hop] = Tail(@)]
       /\ resp' \in [1 .. 2 -> Seq(Reply)] /\ (ToPeer => resp'[1] = resp[1])
  BY <1>11, TakeFacts
<1>13. CASE r' = [r EXCEPT !.got = g] /\ stored' = stored
  <2>1. /\ ReceiverTyped' /\ r'.pc = r.pc /\ r'.name = r.name /\ r'.md5 = r.md5
    BY <1>1, <1>13 DEF ReceiverTyped
  <2>2. FilesTyped'
    BY <1>1, <1>10, <1>13 DEF FilesTyped, IsDir
  <2>3. NoSilentCorruption'
    BY <1>1, <1>2, <1>10, <1>13, OthersKept
  <2>4. Sound(p)
    BY <1>1, <1>2, <1>7, <1>8, <1>13, <2>1, <2>2, <2>3 DEF Sound, IsDir
  <2> QED BY <1>12, <2>4, ReceiverTakes DEF Next_packet
<1>14. CASE CheckFile(g, disk')
  <2>1. /\ FilesTyped' /\ ReceiverTyped' /\ NoSilentCorruption'
        /\ r'.pc \notin {"md5", "block"} /\ r'.name = r.name
        /\ stored' \subseteq stored \cup ({r.name} \ {Junk})
    BY <1>1, <1>2, <1>10, <1>14, CheckFacts
  <2>2. Sound(p)
    BY <2>1 DEF Sound
  <2> QED BY <1>12, <2>2, ReceiverTakes DEF Next_packet
<1> QED BY <1>6, <1>13, <1>14 DEF RecvBlock

LEMMA NoPacketStep ==
  ASSUME IInv, ReceiverFrame, NoPacket, UpdateRight'
  PROVE  IInv'
<1>1. FilesTyped /\ ReceiverTyped /\ stored \subseteq Entry /\ size' = size /\ NoSilentCorruption
  BY DEF IInv, Typed, FilesTyped, ReceiverFrame
<1>2. /\ req' = req /\ resp' = resp /\ disk' = disk
      /\ resp' \in [1 .. 2 -> Seq(Reply)] /\ resp'[1] = resp[1]
  BY DEF NoPacket, IInv, Typed, QueuesTyped
<1>3. CASE r.pc \in {"next", "md5"} /\ FileFailed
  <2>1. /\ ReceiverTyped' /\ r'.pc \notin {"md5", "block"} /\ r'.name = r.name
        /\ stored' = stored
    BY <1>1, <1>3, FailedFields
  <2>2. FilesTyped' /\ NoSilentCorruption'
    BY <1>1, <1>2, <2>1, SameDisk DEF NoSilentCorruption, Whole, IsDir
  <2> QED BY <1>2, <1>3, <2>1, <2>2, ReceiverWaits
<1>4. CASE r.pc = "block" /\ CheckFile(r.got, disk)
  <2>1. CheckFile(r.got, disk')
    BY <1>2, <1>4
  <2>2. /\ disk' \in [Entry -> Int]
        /\ \A i \in Entry : disk'[i] \in {Absent, Other} \cup Nat
        /\ \A i \in Entry : IsDir(i) => disk'[i] \in {Absent, 0}
    BY <1>1, <1>2 DEF FilesTyped
  <2>3. /\ FilesTyped' /\ ReceiverTyped' /\ NoSilentCorruption'
        /\ r'.pc \notin {"md5", "block"} /\ r'.name = r.name
        /\ stored' \subseteq stored \cup ({r.name} \ {Junk})
    BY <1>1, <1>2, <1>4, <2>1, <2>2, CheckFacts
  <2> QED BY <1>2, <1>4, <2>3, ReceiverWaits
<1> QED BY <1>3, <1>4 DEF NoPacket

\* An answer to the announcement.
LEMMA AnnouncementAnswered ==
  ASSUME IInv, ToPeer, NEW st \in {"OK", "CONT", "ERR"},
         resp' = [resp EXCEPT ![Hop] = Append(@, Answer(Announcement, st))]
  PROVE  resp' \in [1 .. 2 -> Seq(Reply)] /\ resp'[1] = resp[1]
<1>1. Hop = 2 /\ resp \in [1 .. 2 -> Seq(Reply)]
  BY DEF Hop, IInv, Typed, QueuesTyped
<1>2. PICK a \in Reply : a = Answer(Announcement, st)
  BY Replies
<1>3. resp' = [resp EXCEPT ![2] = Append(@, a)]
  BY <1>1, <1>2
<1>4. resp[2] \in Seq(Reply) /\ Append(resp[2], a) \in Seq(Reply)
  BY <1>1
<1> QED BY <1>1, <1>3, <1>4

\* The announcement is never taken for a file of the list.
LEMMA UpdateStep == ASSUME IInv, ReceiverFrame, RecvUpdate PROVE IInv'
<1>1. FilesTyped /\ ReceiverTyped /\ stored \subseteq Entry /\ size' = size /\ NoSilentCorruption
  BY DEF IInv, Typed, FilesTyped, ReceiverFrame
<1>2. ToPeer /\ UpdateRight' /\ update # NotYet /\ req' = req
  <2>1. update = 0 /\ update' = Taken /\ req' = req
    BY DEF RecvUpdate
  <2> QED BY <2>1 DEF IInv, UpdateRight, NotYet
<1>3. resp \in [1 .. 2 -> Seq(Reply)]
  BY DEF IInv, Typed, QueuesTyped
<1>4. resp' \in [1 .. 2 -> Seq(Reply)] /\ resp'[1] = resp[1]
  <2>1. \/ resp' = resp
        \/ \E st \in {"OK", "CONT", "ERR"} :
             resp' = [resp EXCEPT ![Hop] = Append(@, Answer(Announcement, st))]
    BY DEF RecvUpdate
  <2> QED BY <1>2, <1>3, <2>1, AnnouncementAnswered
<1>5. r.name \in Entry \cup {Junk} /\ r.last \in BOOLEAN /\ r.got \in Nat
  BY <1>1 DEF ReceiverTyped
<1>6. r.pc \in {"md5", "block"} /\ r.name # Junk =>
        r.name \in Entry /\ r.name \notin stored /\ ~ IsDir(r.name)
  BY <1>5 DEF IInv, ReceiverRight
<1>7. CASE r.pc = "loop" /\ r' = [r EXCEPT !.pc = "moved"] /\ disk' = disk /\ stored' = stored
  <2>1. ReceiverTyped' /\ r'.pc = "moved" /\ r'.name = r.name
    BY <1>1, <1>7 DEF ReceiverTyped
  <2>2. FilesTyped' /\ NoSilentCorruption'
    BY <1>1, <1>7, SameDisk DEF NoSilentCorruption, Whole, IsDir
  <2> QED BY <1>2, <1>4, <1>7, <2>1, <2>2, ReceiverWaits
<1>8. CASE r.pc = "next" /\ disk' = disk /\ FileFailed
  <2>1. /\ ReceiverTyped' /\ r'.pc \notin {"md5", "block"} /\ r'.name = r.name
        /\ stored' = stored
    BY <1>1, <1>8, FailedFields
  <2>2. FilesTyped' /\ NoSilentCorruption'
    BY <1>1, <1>8, <2>1, SameDisk DEF NoSilentCorruption, Whole, IsDir
  <2> QED BY <1>2, <1>4, <2>1, <2>2, ReceiverWaits
<1>9. ASSUME r.pc = "next", disk' = disk, NEW last \in BOOLEAN, FileDone(Junk, last)
      PROVE  IInv'
  <2>1. /\ ReceiverTyped' /\ r'.pc \notin {"md5", "block"} /\ r'.name = Junk
        /\ stored' \subseteq Entry
        /\ \A j : j \in stored' <=> j \in stored \/ (j = Junk /\ j # Junk)
    BY <1>1, <1>9, DoneFields
  <2>2. stored' = stored
    BY <2>1
  <2>3. FilesTyped' /\ NoSilentCorruption'
    BY <1>1, <1>9, <2>2, SameDisk DEF NoSilentCorruption, Whole, IsDir
  <2> QED BY <1>2, <1>4, <2>1, <2>2, <2>3, ReceiverWaits
<1>10. ASSUME r.pc = "next", disk' = disk, stored' = stored, NEW last \in BOOLEAN,
              r' = [r EXCEPT !.pc = "md5", !.name = Junk, !.last = last]
       PROVE  IInv'
  <2>1. ReceiverTyped' /\ r'.pc = "md5" /\ r'.name = Junk
    BY <1>1, <1>10 DEF ReceiverTyped
  <2>2. FilesTyped' /\ NoSilentCorruption'
    BY <1>1, <1>10, SameDisk DEF NoSilentCorruption, Whole, IsDir
  <2> QED BY <1>2, <1>4, <1>10, <2>1, <2>2, ReceiverWaits
<1>11. CASE r.pc = "md5" /\ disk' = disk /\ FileFailed
  <2>1. /\ ReceiverTyped' /\ r'.pc \notin {"md5", "block"} /\ r'.name = r.name
        /\ stored' = stored
    BY <1>1, <1>11, FailedFields
  <2>2. FilesTyped' /\ NoSilentCorruption'
    BY <1>1, <1>11, <2>1, SameDisk DEF NoSilentCorruption, Whole, IsDir
  <2> QED BY <1>2, <1>4, <2>1, <2>2, ReceiverWaits
<1>12. ASSUME r.pc = "md5", stored' = stored, NEW g \in Garbage,
              r' = [r EXCEPT !.pc = "block", !.md5 = Junk, !.got = 0, !.total = AsInt(g)],
              disk' = IF r.name = Junk THEN disk ELSE [disk EXCEPT ![r.name] = 0]
       PROVE  IInv'
  <2>1. PICK w \in Int : w = AsInt(g)
    BY PutAssumption, UIntFacts DEF AsInt
  <2>2. ReceiverTyped' /\ r'.pc = "block" /\ r'.name = r.name /\ r'.md5 = Junk
    BY <1>1, <1>12, <2>1 DEF ReceiverTyped
  <2>3. FilesTyped' /\ \A j \in Entry : j # r.name => disk'[j] = disk[j]
    <3>1. CASE r.name = Junk
      BY <1>1, <1>12, <3>1, SameDisk
    <3>2. CASE r.name # Junk
      BY <1>1, <1>5, <1>6, <1>12, <3>2, WriteFacts
    <3> QED BY <3>1, <3>2
  <2>4. NoSilentCorruption'
    BY <1>1, <1>12, <2>3, OthersKept
  <2> QED BY <1>2, <1>4, <1>6, <1>12, <2>2, <2>3, <2>4, ReceiverWaits
<1>13. ASSUME r.pc = "block", NEW n \in Nat,
              disk' = IF r.name = Junk \/ n = 0 THEN disk ELSE [disk EXCEPT ![r.name] = Other],
              \/ r' = [r EXCEPT !.got = @ + n] /\ stored' = stored
              \/ CheckFile(r.got + n, disk')
       PROVE  IInv'
  <2>1. /\ disk' \in [Entry -> Int]
        /\ \A i \in Entry : disk'[i] \in {Absent, Other} \cup Nat
        /\ \A i \in Entry : IsDir(i) => disk'[i] \in {Absent, 0}
        /\ \A j \in Entry : j # r.name => disk'[j] = disk[j]
    <3>1. CASE disk' = disk
      BY <1>1, <3>1 DEF FilesTyped
    <3>2. CASE r.name # Junk /\ disk' = [disk EXCEPT ![r.name] = Other]
      <4>1. PICK m \in Entry : m = r.name
        BY <1>6, <1>13, <3>2
      <4>2. Other \in Int /\ ~ IsDir(m) /\ disk \in [Entry -> Int]
        BY <1>1, <1>6, <1>13, <3>2, <4>1 DEF Other, FilesTyped
      <4>3. disk' \in [Entry -> Int] /\ disk'[m] = Other /\ \A j \in Entry : j # m => disk'[j] = disk[j]
        BY <3>2, <4>1, <4>2
      <4> QED BY <1>1, <4>1, <4>2, <4>3 DEF FilesTyped
    <3> QED BY <1>13, <3>1, <3>2
  <2>2. CASE r' = [r EXCEPT !.got = @ + n] /\ stored' = stored
    <3>1. PICK g \in Nat : g = r.got + n
      BY <1>5, <1>13
    <3>2. r' = [r EXCEPT !.got = g]
      BY <2>2, <3>1
    <3>3. ReceiverTyped' /\ r'.pc = "block" /\ r'.name = r.name /\ r'.md5 = r.md5
      BY <1>1, <1>13, <3>2 DEF ReceiverTyped
    <3>4. FilesTyped' /\ NoSilentCorruption'
      <4>1. FilesTyped'
        BY <1>1, <2>1, <2>2 DEF FilesTyped, IsDir
      <4> QED BY <1>1, <1>13, <2>1, <2>2, <4>1, OthersKept
    <3>5. r.md5 # Junk /\ r.name # Junk => r.md5 = r.name
      BY <1>13 DEF IInv, ReceiverRight
    <3> QED BY <1>2, <1>4, <1>6, <1>13, <2>2, <3>3, <3>4, <3>5, ReceiverWaits
  <2>3. CASE CheckFile(r.got + n, disk')
    <3>1. /\ FilesTyped' /\ ReceiverTyped' /\ NoSilentCorruption'
          /\ r'.pc \notin {"md5", "block"} /\ r'.name = r.name
          /\ stored' \subseteq stored \cup ({r.name} \ {Junk})
      BY <1>1, <1>13, <2>1, <2>3, CheckFacts
    <3> QED BY <1>2, <1>4, <3>1, ReceiverWaits
  <2> QED BY <1>13, <2>2, <2>3
<1>14. CASE r.pc = "loop"
  BY <1>7, <1>14 DEF RecvUpdate
<1>15. CASE r.pc = "next"
  BY <1>8, <1>9, <1>10, <1>15 DEF RecvUpdate
<1>16. CASE r.pc = "md5"
  BY <1>11, <1>12, <1>16 DEF RecvUpdate
<1>17. CASE r.pc = "block"
  <2>1. PICK n \in {g \in Garbage : g <= IntMax} :
          /\ disk' = IF r.name = Junk \/ n = 0 THEN disk ELSE [disk EXCEPT ![r.name] = Other]
          /\ IF MoreBlocks(r.got + n)
             THEN r' = [r EXCEPT !.got = @ + n] /\ stored' = stored
             ELSE CheckFile(r.got + n, disk')
    BY <1>17 DEF RecvUpdate
  <2>2. n \in Nat
    BY PutAssumption
  <2> QED BY <1>13, <1>17, <2>1, <2>2
<1> QED BY <1>14, <1>15, <1>16, <1>17 DEF RecvUpdate

LEMMA ReceiverStep == ASSUME IInv, recv_files_from_put_req PROVE IInv'
<1>1. ReceiverFrame
  BY DEF recv_files_from_put_req, ReceiverFrame
<1>2. CASE NoPacket /\ update' = update
  <2>1. UpdateRight'
    BY <1>2 DEF IInv, UpdateRight
  <2> QED BY <1>1, <1>2, <2>1, NoPacketStep
<1>3. CASE /\ req[Hop] # << >> /\ (RecvName \/ RecvMd5 \/ RecvBlock)
           /\ update # 0 /\ update' = IF update > 0 THEN update - 1 ELSE update
  <2>1. UpdateRight'
    BY <1>3 DEF IInv, UpdateRight, NotYet, Taken
  <2> QED BY <1>1, <1>3, <2>1, NameStep, Md5Step, BlockStep
<1>4. CASE RecvUpdate
  BY <1>1, <1>4, UpdateStep
<1> QED BY <1>2, <1>3, <1>4 DEF recv_files_from_put_req

-----------------------------------------------------------------------------
LEMMA InitRight == Init => IInv
<1> SUFFICES ASSUME Init PROVE IInv
  OBVIOUS
<1>1. FilesTyped /\ stored = {}
  <2>1. size \in [Entry -> Sizes \cup {Dir}] /\ Sizes \subseteq Nat
    BY PutAssumption DEF Init
  <2>2. disk \in [Entry -> Sizes \cup {Absent, Other, 0}]
    BY DEF Init
  <2>3. \A i \in Entry : disk[i] \in IF IsDir(i) THEN {Absent, 0} ELSE {Absent, Other, size[i]}
    BY DEF Init
  <2>4. ASSUME NEW i \in Entry
        PROVE  disk[i] \in {Absent, Other} \cup Nat /\ (IsDir(i) => disk[i] \in {Absent, 0})
    <3>1. disk[i] \in Sizes \cup {Absent, Other, 0}
      BY <2>2
    <3>2. disk[i] \in {Absent, Other} \cup Nat
      <4>1. disk[i] \in Sizes => disk[i] \in Nat
        BY <2>1, Zenon
      <4>2. 0 \in Nat
        OBVIOUS
      <4>3. disk[i] \in Sizes \/ disk[i] = Absent \/ disk[i] = Other \/ disk[i] = 0
        BY <3>1, Zenon
      <4> QED BY <4>1, <4>2, <4>3
    <3> QED BY <2>3, <3>2
  <2>5. disk \in [Entry -> Int]
    <3>1. \A i \in Entry : disk[i] \in Int
      BY <2>4 DEF Absent, Other
    <3> QED BY <2>2, <3>1
  <2> QED BY <2>1, <2>4, <2>5 DEF Init, FilesTyped
<1>2. s = [pc |-> "name", idx |-> 0, off |-> 0] /\ 0 \in Entry /\ 0 \in 0 .. N
  BY EntryFacts DEF Init
<1>3. SenderTyped
  BY <1>2 DEF Init, SenderTyped
<1>13. /\ obj = [total_files |-> N, file_idx |-> 0, total_size |-> 0, is_last |-> FALSE]
       /\ update = NotYet
  BY DEF Init
<1>14. ObjRight /\ UpdateRight
  BY <1>2, <1>13, UIntFacts DEF ObjRight, Object, UpdateRight
<1>4. RelayTyped /\ relay.pc = "loop"
  BY <1>2, <1>14, Packets DEF Init, RelayTyped, ObjRight
<1>5. r = [pc |-> "loop", name |-> Junk, md5 |-> Junk, last |-> FALSE, got |-> 0, total |-> 0]
  BY DEF Init
<1>6. ReceiverTyped /\ r.pc = "loop" /\ r.name = Junk
  BY <1>2, <1>5 DEF ReceiverTyped
<1>7. << >> \in Seq(Packet) /\ << >> \in Seq(Reply) /\ << >> \o << >> = << >> /\ Len(<< >>) = 0
  OBVIOUS
<1>8. QueuesTyped /\ req[1] = << >> /\ req[2] = << >> /\ resp[1] = << >>
  BY <1>7 DEF Init, QueuesTyped
<1>9. Stream = << >>
  BY <1>7, <1>8 DEF Stream
<1>10. StreamRight(<< >>) /\ SenderRight(<< >>) /\ ReceiverRight(<< >>)
  BY <1>1, <1>2, <1>6, <1>7 DEF StreamRight, SenderRight, ReceiverRight, Begun, Junk
<1>11. RelayRight
  BY <1>2, <1>4, <1>6, <1>7, <1>8, <1>13 DEF RelayRight
<1>12. NoSilentCorruption
  BY <1>1 DEF NoSilentCorruption
<1> QED BY <1>1, <1>3, <1>4, <1>6, <1>8, <1>9, <1>10, <1>11, <1>12, <1>14 DEF IInv, Typed

\* Nothing changes.
LEMMA StutterStep == ASSUME IInv, UNCHANGED vars PROVE IInv'
<1>1. /\ size' = size /\ disk' = disk /\ s' = s /\ r' = r /\ stored' = stored
      /\ verdict' = verdict /\ nonblock' = nonblock
      /\ relay' = relay /\ req' = req /\ resp' = resp /\ obj' = obj /\ update' = update
  BY DEF vars
<1>2. nonblock \in BOOLEAN /\ RelayTyped /\ QueuesTyped
  BY DEF IInv, Typed, SenderTyped
<1>3. RelayTyped' /\ QueuesTyped' /\ Stream' = Stream
  BY <1>1, <1>2 DEF RelayTyped, QueuesTyped, Stream
<1>4. Ended' = Ended /\ UpdateRight'
  BY <1>1 DEF Ended, IsDir, IInv, UpdateRight
<1>5. ToPeer => RelayRight'
  BY <1>1, <1>4 DEF IInv, RelayRight
<1>6. ~ ToPeer => req'[2] = << >>
  BY <1>1 DEF IInv
<1> QED BY <1>1, <1>2, <1>3, <1>4, <1>5, <1>6, EndsKept

\* The invariant of the put: the stream of requests keeps its order, and the
\* sender, the relay and the receiver keep to their place in it, in every
\* behaviour of send_files_by_put_req, handle_fwd_put_req and
\* recv_files_from_put_req, with or without faults, with either codec, and with
\* a PORT_UPDATE_REQ among the requests or without.
THEOREM PutKept == Spec => []IInv
<1>1. IInv /\ [Next]_vars => IInv'
  <2> SUFFICES ASSUME IInv, [Next]_vars PROVE IInv'
    OBVIOUS
  <2>1. CASE send_files_by_put_req
    BY <2>1, SenderStep
  <2>2. CASE handle_port_update_req
    BY <2>2, PortStep
  <2>3. CASE handle_fwd_put_req
    BY <2>3, RelayStep
  <2>4. CASE recv_files_from_put_req
    BY <2>4, ReceiverStep
  <2>5. CASE notify_client_after_updating
    BY <2>5, NotifyStep
  <2>6. CASE UNCHANGED vars
    BY <2>6, StutterStep
  <2> QED BY <2>1, <2>2, <2>3, <2>4, <2>5, <2>6 DEF Next, Idle
<1> QED BY <1>1, InitRight, PTL DEF Spec

\* A file the receiver has reported as received (recv_one_file_done) has the
\* sender's content, whatever failed, whatever the sizes and however often the
\* two got out of step, over the object that put_req_raw_encode reversed or a
\* PORT_UPDATE_REQ read as a put_req: the md5 it was checked against is its own,
\* and nothing writes to it afterwards.
THEOREM AcceptedIsWhole == Spec => []NoSilentCorruption
<1>1. IInv => NoSilentCorruption
  BY DEF IInv
<1> QED BY <1>1, PutKept, PTL

\* The types of the put, the relay and the receiver, for any number of entries.
THEOREM PutTyped == Spec => []TypeOK
<1>1. IInv => TypeOK
  BY TypedIsTypeOK DEF IInv, ObjRight, UpdateRight
<1> QED BY <1>1, PutKept, PTL

-----------------------------------------------------------------------------
(***************************************************************************)
(* When nothing fails, both sockets block and sending leaves the object    *)
(* alone (XDR, or a big-endian host), the sender and the receiver stay in  *)
(* step.  In the default build, raw on a little-endian host, they do not.  *)
(* A file whose size is a positive multiple of the block size is left out: *)
(* its last block does not set feof, and the sender sends one more, empty, *)
(* that the receiver takes for a name.                                     *)
(***************************************************************************)
Orderly ==
  /\ ~ InPlace /\ ~ NonBlocking /\ ~ PortUpdate /\ ~ Fault
  /\ \A n \in Sizes : n <= IntMax /\ (n = 0 \/ \A k \in 0 .. n : n # k * B)

\* The answers under way, the next one first.
Answers == resp[1] \o resp[2]

\* The name and the md5 of entry i as they should be sent.
NameOf(i) ==
  [kind |-> "name", idx |-> i, off |-> 0, n |-> NameLen, reply |-> TRUE,
   stop |-> Last(i) /\ IsDir(i), last |-> Last(i), total |-> WireSize(size[i])]
Md5Of(i) ==
  [kind |-> "md5", idx |-> i, off |-> 0, n |-> Md5Len, reply |-> TRUE,
   stop |-> FALSE, last |-> Last(i), total |-> WireSize(size[i])]

\* p carries the end of its file.
Final(p) == p.off + p.n = size[p.idx]

\* p is a request of the list.
Good(p) ==
  \/ p = NameOf(p.idx)
  \/ p = Md5Of(p.idx) /\ ~ IsDir(p.idx)
  \/ /\ p.kind = "block" /\ ~ IsDir(p.idx)
     /\ p.off + p.n <= size[p.idx]
     /\ p.reply = (Last(p.idx) /\ Final(p))

\* x may be sent without waiting after p.
Follows(p, x) ==
  /\ p.kind = "block"
  /\ IF Final(p) THEN IsName(x) /\ x.idx = p.idx + 1
     ELSE x.kind = "block" /\ x.idx = p.idx /\ x.off = p.off + p.n

Chain(q) ==
  /\ \A k \in 1 .. Len(q) : Good(q[k])
  /\ \A k \in 1 .. Len(q) : k > 1 => Follows(q[k - 1], q[k])

\* p is what the receiver waits for.
Expected(p) ==
  \/ IsName(p) /\ r.pc \in {"loop", "next"}
  \/ p.kind = "md5" /\ r.pc = "md5" /\ r.name = p.idx
  \/ p.kind = "block" /\ r.pc = "block" /\ r.name = p.idx /\ r.got = p.off

\* p is what the sender sent last.
Sent(p) ==
  \/ s.pc = "nameResp" /\ IsName(p) /\ s.idx = p.idx
  \/ s.pc = "md5Resp" /\ p.kind = "md5" /\ s.idx = p.idx
  \/ /\ p.kind = "block"
     /\ \/ s.pc = "block" /\ ~ Final(p) /\ s.idx = p.idx /\ s.off = p.off + p.n
        \/ s.pc = "name" /\ Final(p) /\ s.idx = p.idx + 1
        \/ s.pc = "blockResp" /\ Final(p) /\ Last(p.idx) /\ s.idx = p.idx

\* The receiver has the entries before n and no other.
Ordered(n) == stored = {j \in Entry : j < n}

\* Nothing is under way: the receiver waits for what the sender sends next.
Ready ==
  /\ Ordered(s.idx)
  /\ \/ s.pc = "name" /\ r.pc \in {"loop", "next"}
     \/ s.pc = "md5" /\ r.pc = "md5" /\ r.name = s.idx
     \/ s.pc = "block" /\ r.pc = "block" /\ r.name = s.idx /\ r.got = s.off
     \/ s.pc = "done"

\* The answer a is under way.
Answered(a) ==
  /\ a.to.idx = s.idx
  /\ \/ /\ s.pc = "nameResp" /\ IsName(a.to)
        /\ \/ a.status = "ERR" /\ Ordered(s.idx)
           \/ /\ a.status = "OK" /\ IsDir(s.idx)
              /\ r.pc \in {"loop", "next"} /\ Ordered(s.idx + 1)
           \/ /\ a.status = "OK" /\ ~ IsDir(s.idx)
              /\ r.pc = "md5" /\ r.name = s.idx /\ Ordered(s.idx)
     \/ /\ s.pc = "md5Resp" /\ a.to.kind = "md5"
        /\ \/ a.status = "OK" /\ r.pc \in {"loop", "next"} /\ Ordered(s.idx + 1)
           \/ /\ a.status = "CONT" /\ Ordered(s.idx)
              /\ r.pc = "block" /\ r.name = s.idx /\ r.got = 0
     \/ s.pc = "blockResp" /\ a.to.kind = "block" /\ Last(s.idx) /\ Ordered(s.idx + 1)

InStep(q, w) ==
  \/ q = << >> /\ w = << >> /\ Ready
  \/ q = << >> /\ Len(w) = 1 /\ Answered(w[1])
  \/ /\ q # << >> /\ w = << >> /\ Chain(q)
     /\ Expected(q[1]) /\ Ordered(q[1].idx) /\ Sent(q[Len(q)])

\* What the sender has read of a file: whole blocks, and not all of it.
SenderInFile ==
  s.pc = "block" =>
    /\ s.off < size[s.idx] \/ (s.off = 0 /\ size[s.idx] = 0)
    /\ \E k \in 0 .. s.off : s.off = k * B

\* What the receiver keeps of the file it is receiving.
ReceiverInFile ==
  /\ r.pc \in {"md5", "block"} => r.name \in Entry /\ r.last = Last(r.name) /\ ~ IsDir(r.name)
  /\ r.pc = "block" => /\ r.md5 = r.name /\ r.total = size[r.name]
                       /\ disk[r.name] = r.got

Ending == s.pc = "done" => s.idx = N \/ \E i \in Entry : verdict[i] = "failed"

OrderlyInv ==
  /\ IInv
  /\ ~ nonblock
  /\ InStep(Stream, Answers)
  /\ SenderInFile /\ ReceiverInFile /\ Ending
  /\ \A j \in stored : Whole(j)

-----------------------------------------------------------------------------
\* The answers under way.
LEMMA AnswersTaken ==
  ASSUME QueuesTyped, Len(Answers) <= 1, NEW S, Received(S)
  PROVE  /\ Len(Answers) = 1 /\ Answers[1].status \in S /\ Answers' = << >>
<1>1. /\ resp[1] \in Seq(Reply) /\ resp[2] \in Seq(Reply) /\ resp[1] # << >>
      /\ Head(resp[1]).status \in S
  BY DEF QueuesTyped, Received
<1>2. ASSUME NEW u \in Seq(Reply), NEW v \in Seq(Reply), u # << >>, Len(u \o v) <= 1
      PROVE  /\ Len(u \o v) = 1 /\ (u \o v)[1] = Head(u) /\ Tail(u) = << >> /\ v = << >>
  <2>1. Len(u) \in Nat /\ Len(u) > 0 /\ Len(v) \in Nat /\ Len(u \o v) = Len(u) + Len(v)
    BY <1>2
  <2>2. Len(u) = 1 /\ Len(v) = 0 /\ Len(u \o v) = 1
    <3>1. PICK a, b, c : a = Len(u) /\ b = Len(v) /\ c = Len(u \o v)
      OBVIOUS
    <3>2. a \in Nat /\ a > 0 /\ b \in Nat /\ c = a + b /\ c <= 1
      BY <1>2, <2>1, <3>1
    <3>3. a = 1 /\ b = 0 /\ c = 1
      BY ONLY <3>2
    <3> QED BY <3>1, <3>3
  <2>3. v = << >> /\ (u \o v)[1] = u[1] /\ Head(u) = u[1]
    BY <1>2, <2>2, EmptySeq
  <2>4. Tail(u) = << >>
    BY <1>2, <2>2, TailFacts
  <2> QED BY <2>2, <2>3, <2>4
<1>3. /\ Len(Answers) = 1 /\ Answers[1] = Head(resp[1]) /\ Tail(resp[1]) = << >> /\ resp[2] = << >>
  BY <1>1, <1>2 DEF Answers
<1>4. resp'[1] = << >> /\ resp'[2] = << >>
  <2>1. resp' = [resp EXCEPT ![1] = Tail(resp[1])] /\ resp \in [1 .. 2 -> Seq(Reply)]
    BY DEF Received, QueuesTyped
  <2>2. resp'[1] = Tail(resp[1]) /\ resp'[2] = resp[2]
    BY <2>1
  <2> QED BY <1>3, <2>2
<1>5. Answers' = << >>
  BY <1>4 DEF Answers
<1> QED BY <1>1, <1>3, <1>5

LEMMA AnswersGone ==
  ASSUME QueuesTyped
  PROVE  /\ Answers \in Seq(Reply) /\ Len(Answers) \in Nat
         /\ Answers = << >> => resp[1] = << >> /\ resp[2] = << >>
<1>1. resp[1] \in Seq(Reply) /\ resp[2] \in Seq(Reply)
  BY DEF QueuesTyped
<1>2. ASSUME NEW u \in Seq(Reply), NEW v \in Seq(Reply)
      PROVE  /\ u \o v \in Seq(Reply) /\ Len(u \o v) \in Nat
             /\ u \o v = << >> => u = << >> /\ v = << >>
  <2>1. /\ u \o v \in Seq(Reply) /\ Len(u \o v) \in Nat /\ Len(u) \in Nat /\ Len(v) \in Nat
        /\ Len(u \o v) = Len(u) + Len(v)
    BY ConcatProperties
  <2>2. Len(<< >>) = 0
    OBVIOUS
  <2>3. u \o v = << >> => Len(u) = 0 /\ Len(v) = 0
    BY <2>1, <2>2
  <2> QED BY <2>1, <2>3, EmptySeq
<1> QED BY <1>1, <1>2 DEF Answers

\* The receiver answers.
LEMMA AnswersGiven ==
  ASSUME QueuesTyped, Answers = << >>, NEW ans \in Seq(Reply), Take(ans)
  PROVE  Answers' = ans
<1>1. resp[1] = << >> /\ resp[2] = << >>
  BY AnswersGone
<1>2. << >> \o ans = ans /\ ans \o << >> = ans
  OBVIOUS
<1>3. Hop \in 1 .. 2 /\ resp \in [1 .. 2 -> Seq(Reply)]
  BY PutAssumption DEF Hop, QueuesTyped
<1>4. resp' = [resp EXCEPT ![Hop] = ans]
  <2>1. resp[Hop] = << >>
    BY <1>1, <1>3
  <2>2. resp' = [resp EXCEPT ![Hop] = resp[Hop] \o ans]
    BY DEF Take
  <2> QED BY <1>2, <2>1, <2>2
<1>5. CASE Hop = 1
  <2>1. resp'[1] = ans /\ resp'[2] = << >>
    BY <1>1, <1>3, <1>4, <1>5
  <2> QED BY <1>2, <2>1 DEF Answers
<1>6. CASE Hop = 2
  <2>1. resp'[2] = ans /\ resp'[1] = << >>
    BY <1>1, <1>3, <1>4, <1>6
  <2> QED BY <1>2, <2>1 DEF Answers
<1> QED BY <1>3, <1>5, <1>6

\* The relay hands an answer on.
LEMMA AnswersForwarded ==
  ASSUME QueuesTyped, resp[2] # << >>,
         resp' = [resp EXCEPT ![2] = Tail(@), ![1] = Append(@, Head(resp[2]))]
  PROVE  Answers' = Answers
<1>1. /\ resp[1] \in Seq(Reply) /\ resp[2] \in Seq(Reply) /\ resp \in [1 .. 2 -> Seq(Reply)]
  BY DEF QueuesTyped
<1>2. PICK x, y : x = Append(resp[1], Head(resp[2])) /\ y = Tail(resp[2])
  OBVIOUS
<1>3. resp' = [resp EXCEPT ![2] = y, ![1] = x]
  BY <1>2
<1>4. resp'[1] = x /\ resp'[2] = y
  BY ONLY <1>1, <1>3
<1>5. x \o y = resp[1] \o resp[2]
  BY <1>1, <1>2, MoveHead
<1> QED BY <1>4, <1>5 DEF Answers

-----------------------------------------------------------------------------
\* A step that keeps the sizes keeps what is right about a request.
LEMMA ChainKept ==
  ASSUME size' = size
  PROVE  /\ \A x : Chain(x)' <=> Chain(x)
         /\ \A p : (Good(p)' <=> Good(p)) /\ (Final(p)' <=> Final(p))
<1>1. \A i : IsDir(i)' <=> IsDir(i)
  BY DEF IsDir
<1>2. \A i : NameOf(i)' = NameOf(i) /\ Md5Of(i)' = Md5Of(i)
  BY DEF NameOf, Md5Of, IsDir
<1>3. \A p : Final(p)' <=> Final(p)
  BY DEF Final
<1>4. \A p : Good(p)' <=> Good(p)
  BY <1>1, <1>2, <1>3 DEF Good
<1>5. \A p, x : Follows(p, x)' <=> Follows(p, x)
  BY <1>3 DEF Follows
<1> QED BY <1>3, <1>4, <1>5 DEF Chain

\* The sender appends to the chain.
LEMMA ChainPush ==
  ASSUME NEW q \in Seq(Packet), NEW p \in Packet, Good(p),
         IF q = << >> THEN Expected(p) /\ Ordered(p.idx)
         ELSE /\ Chain(q) /\ Follows(q[Len(q)], p)
              /\ Expected(q[1]) /\ Ordered(q[1].idx),
         NEW x, x = Append(q, p)
  PROVE  /\ x # << >> /\ Chain(x) /\ Expected(x[1]) /\ Ordered(x[1].idx) /\ x[Len(x)] = p
<1>1. /\ Len(q) \in Nat /\ Len(x) = Len(q) + 1 /\ x[Len(q) + 1] = p /\ x # << >>
      /\ \A k \in 1 .. Len(q) : x[k] = q[k]
      /\ Len(q) = 0 <=> q = << >>
  OBVIOUS
<1>2. \A k \in 1 .. Len(x) : (k \in 1 .. Len(q) /\ x[k] = q[k]) \/ (k = Len(q) + 1 /\ x[k] = p)
  BY <1>1
<1>3. \A k \in 1 .. Len(q) : Good(q[k])
  BY <1>1 DEF Chain
<1>4. \A k \in 1 .. Len(x) : Good(x[k])
  BY <1>2, <1>3
<1>5. ASSUME NEW k \in 1 .. Len(x), k > 1 PROVE Follows(x[k - 1], x[k])
  <2>1. k - 1 \in 1 .. Len(q) /\ x[k - 1] = q[k - 1] /\ q # << >>
    BY <1>1, <1>5
  <2>2. CASE k = Len(q) + 1
    <3>1. k - 1 = Len(q)
      BY <1>1, <2>2
    <3> QED BY <1>1, <2>1, <2>2, <3>1
  <2>3. CASE k \in 1 .. Len(q) /\ x[k] = q[k]
    BY <1>5, <2>1, <2>3 DEF Chain
  <2> QED BY <1>2, <2>2, <2>3
<1>6. Chain(x)
  BY <1>4, <1>5 DEF Chain
<1>7. CASE q = << >>
  <2>1. x[1] = p
    BY <1>1, <1>7
  <2> QED BY <1>1, <1>6, <1>7, <2>1
<1>8. CASE q # << >>
  <2>1. x[1] = q[1]
    BY <1>1, <1>8
  <2> QED BY <1>1, <1>6, <1>8, <2>1
<1> QED BY <1>7, <1>8

\* The receiver takes its first request.
LEMMA ChainPop ==
  ASSUME NEW q \in Seq(Packet), q # << >>, Chain(q), NEW x, x = Tail(q)
  PROVE  /\ Chain(x) /\ Good(q[1]) /\ q[1] \in Packet /\ x \in Seq(Packet)
         /\ IF x = << >> THEN q[Len(q)] = q[1]
            ELSE /\ x[Len(x)] = q[Len(q)] /\ Follows(q[1], x[1])
                 /\ x[1] \in Packet /\ Good(x[1])
<1>1. /\ Len(q) \in Nat /\ Len(q) > 0 /\ Len(x) = Len(q) - 1
      /\ \A k \in 1 .. Len(x) : x[k] = q[k + 1]
      /\ (Len(x) = 0 <=> x = << >>) /\ x \in Seq(Packet) /\ q[1] \in Packet
  BY TailFacts
<1>2. \A k \in 1 .. Len(x) : k + 1 \in 1 .. Len(q) /\ k + 1 > 1
  BY <1>1
<1>3. Good(q[1])
  <2>1. 1 \in 1 .. Len(q)
    BY <1>1
  <2> QED BY <2>1 DEF Chain
<1>4. \A k \in 1 .. Len(x) : Good(x[k])
  BY <1>1, <1>2 DEF Chain
<1>5. ASSUME NEW k \in 1 .. Len(x), k > 1 PROVE Follows(x[k - 1], x[k])
  <2>1. /\ k - 1 \in 1 .. Len(x) /\ (k - 1) + 1 = k /\ (k + 1) - 1 = k
        /\ x[k] = q[k + 1] /\ x[k - 1] = q[k]
    BY <1>1, <1>5
  <2>2. Follows(q[(k + 1) - 1], q[k + 1])
    BY <1>2, <2>1 DEF Chain
  <2> QED BY <2>1, <2>2
<1>6. Chain(x)
  BY <1>4, <1>5 DEF Chain
<1>7. CASE x = << >>
  <2>1. Len(q) = 1
    BY <1>1, <1>7
  <2> QED BY <1>1, <1>3, <1>6, <1>7, <2>1
<1>8. CASE x # << >>
  <2>1. /\ 2 \in 1 .. Len(q) /\ x[1] = q[2] /\ 2 > 1 /\ 2 - 1 = 1 /\ 1 \in 1 .. Len(x)
        /\ x[Len(x)] = q[Len(q)]
    BY <1>1, <1>8
  <2>2. Follows(q[2 - 1], q[2])
    BY <2>1 DEF Chain
  <2>3. x[1] \in Packet
    BY <1>1, <2>1
  <2> QED BY <1>1, <1>3, <1>4, <1>6, <1>8, <2>1, <2>2, <2>3
<1> QED BY <1>7, <1>8

-----------------------------------------------------------------------------
\* At most one answer is under way.
LEMMA InStepFacts ==
  ASSUME OrderlyInv
  PROVE  /\ IInv /\ Typed /\ QueuesTyped /\ Len(Answers) <= 1
         /\ Answers # << >> => Stream = << >> /\ Len(Answers) = 1 /\ Answered(Answers[1])
<1>1. Len(<< >>) = 0
  OBVIOUS
<1>2. IInv /\ Typed /\ QueuesTyped
  BY DEF OrderlyInv, IInv, Typed
<1>3. InStep(Stream, Answers)
  BY DEF OrderlyInv
<1>4. /\ Len(Answers) <= 1
      /\ Answers # << >> => Stream = << >> /\ Len(Answers) = 1 /\ Answered(Answers[1])
  BY <1>1, <1>3 DEF InStep
<1> QED BY <1>2, <1>4

\* A step that keeps the two ends, the stream and the answers.
LEMMA OrderlyKept ==
  ASSUME OrderlyInv, IInv', UNCHANGED << size, disk, s, r, stored, verdict, nonblock >>,
         Stream' = Stream, Answers' = Answers
  PROVE  OrderlyInv'
<1>1. /\ size' = size /\ disk' = disk /\ s' = s /\ r' = r /\ stored' = stored
      /\ verdict' = verdict /\ nonblock' = nonblock
  OBVIOUS
<1>2. PICK q, w : q = Stream /\ w = Answers
  OBVIOUS
<1>3. InStep(q, w)
  BY <1>2 DEF OrderlyInv
<1>4. InStep(q, w)'
  <2>1. Ready' <=> Ready
    BY <1>1 DEF Ready, Ordered
  <2>2. Answered(w[1])' <=> Answered(w[1])
    BY <1>1 DEF Answered, Ordered, IsDir
  <2>3. Chain(q)' <=> Chain(q)
    BY <1>1, ChainKept
  <2>4. Expected(q[1])' <=> Expected(q[1])
    BY <1>1 DEF Expected
  <2>5. Sent(q[Len(q)])' <=> Sent(q[Len(q)])
    BY <1>1, ChainKept DEF Sent
  <2>6. Ordered(q[1].idx)' <=> Ordered(q[1].idx)
    BY <1>1 DEF Ordered
  <2> QED BY <1>3, <2>1, <2>2, <2>3, <2>4, <2>5, <2>6 DEF InStep
<1>5. InStep(Stream, Answers)'
  BY <1>2, <1>4
<1>6. SenderInFile' /\ ReceiverInFile' /\ Ending'
  BY <1>1 DEF OrderlyInv, SenderInFile, ReceiverInFile, Ending, IsDir
<1>7. \A j \in stored' : Whole(j)'
  BY <1>1 DEF OrderlyInv, Whole, IsDir
<1> QED BY <1>1, <1>5, <1>6, <1>7 DEF OrderlyInv

-----------------------------------------------------------------------------
\* The sender takes an answer and goes on.
LEMMA OrderlyTakes ==
  ASSUME OrderlyInv, IInv', SenderFrame, req' = req, NEW S, Received(S),
         Ready', SenderInFile', Ending'
  PROVE  OrderlyInv'
<1>1. /\ size' = size /\ disk' = disk /\ nonblock' = nonblock /\ r' = r /\ stored' = stored
  BY DEF SenderFrame
<1>2. Answers' = << >> /\ Stream = << >>
  <2>1. Len(Answers) = 1 /\ Answers' = << >>
    BY InStepFacts, AnswersTaken
  <2>2. Answers # << >>
    BY <2>1
  <2> QED BY <2>1, <2>2, InStepFacts
<1>3. Stream' = << >>
  BY <1>2 DEF Stream
<1>4. InStep(Stream, Answers)'
  BY <1>2, <1>3 DEF InStep
<1>5. ReceiverInFile' /\ \A j \in stored' : Whole(j)'
  BY <1>1 DEF OrderlyInv, ReceiverInFile, Whole, IsDir
<1> QED BY <1>1, <1>4, <1>5 DEF OrderlyInv

\* The sender sends a request.
LEMMA OrderlySends ==
  ASSUME OrderlyInv, IInv', SenderFrame, NEW p \in Packet, Send(p), resp' = resp,
         s.pc \in {"name", "md5", "block"}, p.idx = s.idx, Good(p),
         Stream = << >> /\ Ready => Expected(p),
         Stream # << >> /\ Sent(Stream[Len(Stream)]) => Follows(Stream[Len(Stream)], p),
         Sent(p)', SenderInFile', Ending'
  PROVE  OrderlyInv'
<1>1. /\ size' = size /\ disk' = disk /\ nonblock' = nonblock /\ r' = r /\ stored' = stored
  BY DEF SenderFrame
<1>2. QueuesTyped /\ InStep(Stream, Answers)
  BY InStepFacts DEF OrderlyInv
<1>3. Answers = << >>
  <2>1. \A a : ~ Answered(a)
    BY DEF Answered
  <2> QED BY <1>2, <2>1 DEF InStep
<1>4. Stream' = Append(Stream, p) /\ Answers' = << >>
  BY <1>2, <1>3, StreamSend DEF Answers
<1>5. PICK q \in Seq(Packet) : q = Stream
  BY <1>2, StreamTyped
<1>6. PICK x : x = Append(q, p)
  OBVIOUS
<1>7. Len(<< >>) = 0
  OBVIOUS
<1>8. IF q = << >> THEN Expected(p) /\ Ordered(p.idx)
      ELSE /\ Chain(q) /\ Follows(q[Len(q)], p)
           /\ Expected(q[1]) /\ Ordered(q[1].idx)
  BY <1>2, <1>3, <1>5, <1>7 DEF InStep, Ready
<1>9. x # << >> /\ Chain(x) /\ Expected(x[1]) /\ Ordered(x[1].idx) /\ x[Len(x)] = p
  BY <1>5, <1>6, <1>8, ChainPush
<1>10. Chain(x)' /\ Expected(x[1])' /\ Ordered(x[1].idx)' /\ Sent(x[Len(x)])'
  <2>1. Chain(x)'
    BY <1>1, <1>9, ChainKept
  <2>2. Expected(x[1])'
    BY <1>1, <1>9 DEF Expected
  <2>3. Ordered(x[1].idx)'
    BY <1>1, <1>9 DEF Ordered
  <2>4. Sent(x[Len(x)])'
    <3>1. PICK y : y = x[Len(x)]
      OBVIOUS
    <3>2. y = p
      BY <1>9, <3>1
    <3>3. Sent(y)'
      BY <3>2
    <3> QED BY <3>1, <3>3
  <2> QED BY <2>1, <2>2, <2>3, <2>4
<1>11. InStep(x, << >>)'
  BY <1>9, <1>10 DEF InStep
<1>12. InStep(Stream, Answers)'
  BY <1>4, <1>5, <1>6, <1>11
<1>13. ReceiverInFile' /\ \A j \in stored' : Whole(j)'
  BY <1>1 DEF OrderlyInv, ReceiverInFile, Whole, IsDir
<1> QED BY <1>1, <1>12, <1>13 DEF OrderlyInv

-----------------------------------------------------------------------------
\* The steps of the sender.
LEMMA SenderFields ==
  ASSUME OrderlyInv, s.pc # "done"
  PROVE  /\ s.idx \in Entry /\ s.idx \in Nat /\ s.off \in Nat
         /\ s \in [pc : {"name", "nameResp", "md5", "md5Resp", "block", "blockResp", "done"},
                   idx : 0 .. N, off : Nat]
         /\ verdict \in [Entry -> {"none", "skipped", "sent", "failed"}]
         /\ s.pc \in {"md5", "md5Resp", "block", "blockResp"} => ~ IsDir(s.idx)
         /\ ~ IsDir(s.idx) => size[s.idx] \in Sizes /\ size[s.idx] \in Nat
         /\ s.pc \in {"name", "nameResp", "md5", "md5Resp"} => s.off = 0
         /\ s.pc = "block" => s.off <= size[s.idx]
<1>1. IInv /\ Typed /\ SenderRight(Stream)
  BY DEF OrderlyInv, IInv
<1>2. s.idx \in Entry /\ s.idx \in Nat
  BY <1>1, IndexFacts
<1>3. ~ IsDir(s.idx) => size[s.idx] \in Sizes /\ size[s.idx] \in Nat
  BY <1>1, <1>2, PutAssumption DEF Typed, FilesTyped, IsDir
<1> QED BY <1>1, <1>2, <1>3 DEF Typed, SenderTyped, SenderRight

\* The fields of the name and of the md5.
LEMMA OfFacts ==
  ASSUME NEW i
  PROVE  /\ NameOf(i).kind = "name" /\ NameOf(i).idx = i /\ NameOf(i).reply = TRUE
         /\ NameOf(i).stop = (Last(i) /\ IsDir(i)) /\ NameOf(i).last = Last(i)
         /\ Md5Of(i).kind = "md5" /\ Md5Of(i).idx = i /\ Md5Of(i).reply = TRUE
         /\ Md5Of(i).total = WireSize(size[i])
BY DEF NameOf, Md5Of

\* What the sender fills into its object is what should be sent.
LEMMA SendsRight ==
  ASSUME Orderly, OrderlyInv, s.pc # "done"
  PROVE  /\ obj \in Object /\ (s.pc \notin {"name", "done"} => obj.is_last = Last(s.idx))
         /\ s.pc = "name" => /\ NamePacket(s.idx, NewEntry(obj)) = NameOf(s.idx)
                             /\ NameOf(s.idx) \in Packet
         /\ s.pc = "md5" => Md5Packet(s.idx, obj) = Md5Of(s.idx) /\ Md5Of(s.idx) \in Packet
<1>1. IInv /\ ObjRight /\ FilesTyped /\ ~ InPlace /\ s.idx \in Entry
  BY SenderFields DEF OrderlyInv, IInv, Typed, Orderly
<1>2. /\ obj \in Object /\ obj.total_files = N /\ obj.file_idx = s.idx
      /\ s.pc \notin {"name", "done"} => /\ obj.is_last = Last(s.idx)
                                        /\ obj.total_size = size[s.idx] % UInt
  BY <1>1 DEF ObjRight
<1>3. PICK o : o = NewEntry(obj)
  OBVIOUS
<1>4. /\ o \in Object /\ o.total_files = N /\ o.file_idx = s.idx
      /\ o.is_last = LastFile(obj) /\ o.total_size = size[s.idx] % UInt
  BY <1>1, <1>2, <1>3, NewObject
<1>5. LastFile(obj) = Last(s.idx) /\ LastFile(o) = Last(s.idx)
  BY <1>1, <1>2, <1>4, LastIs
<1>6. NamePacket(s.idx, o) = NameOf(s.idx)
  BY <1>4, <1>5 DEF NamePacket, NameOf, WireSize
<1>7. s.pc = "md5" => Md5Packet(s.idx, obj) = Md5Of(s.idx)
  BY <1>2, <1>5 DEF Md5Packet, Md5Of, WireSize
<1>8. NamePacket(s.idx, o) \in Packet /\ Md5Packet(s.idx, obj) \in Packet
  BY <1>1, <1>2, <1>4, Packets
<1> QED BY <1>2, <1>3, <1>6, <1>7, <1>8

LEMMA OrderlyNextFile ==
  ASSUME OrderlyInv, s.pc # "done", NEW v, NEW o, NextFile(v, o)
  PROVE  /\ s'.pc = (IF Last(s.idx) THEN "done" ELSE "name") /\ s'.idx = s.idx + 1
         /\ SenderInFile' /\ Ending'
<1>1. s'.pc = (IF Last(s.idx) THEN "done" ELSE "name") /\ s'.idx = s.idx + 1
  BY DEF NextFile
<1>2. Last(s.idx) => s'.idx = N
  BY <1>1, SenderFields, EntryFacts
<1> QED BY <1>1, <1>2 DEF SenderInFile, Ending

LEMMA OrderlyGiveUp ==
  ASSUME OrderlyInv, s.pc # "done", GiveUp
  PROVE  s'.pc = "done" /\ s'.idx = s.idx /\ SenderInFile' /\ Ending'
<1>1. s'.pc = "done" /\ s'.idx = s.idx
  BY SenderFields DEF GiveUp
<1>2. verdict'[s.idx] = "failed" /\ s.idx \in Entry
  BY SenderFields DEF GiveUp
<1> QED BY <1>1, <1>2 DEF SenderInFile, Ending

LEMMA OrderlyMoves ==
  ASSUME OrderlyInv, s.pc # "done", SenderFrame,
         NEW c \in {"nameResp", "md5", "md5Resp", "block", "blockResp"}, MovesTo(c),
         c = "block" => s.off = 0 /\ ~ IsDir(s.idx)
  PROVE  s'.pc = c /\ s'.idx = s.idx /\ s'.off = s.off /\ SenderInFile' /\ Ending'
<1>1. s'.pc = c /\ s'.idx = s.idx /\ s'.off = s.off /\ size' = size
  BY SenderFields DEF MovesTo, SenderFrame
<1>2. c = "block" => size[s.idx] \in Nat
  BY SenderFields
<1>3. SenderInFile'
  <2> SUFFICES ASSUME c = "block"
               PROVE  /\ s'.off < size'[s'.idx] \/ (s'.off = 0 /\ size'[s'.idx] = 0)
                      /\ \E k \in 0 .. s'.off : s'.off = k * B
    BY <1>1 DEF SenderInFile
  <2>1. s'.off = 0 /\ size'[s'.idx] \in Nat
    BY <1>1, <1>2
  <2>2. 0 \in 0 .. 0 /\ 0 = 0 * B
    BY PutAssumption
  <2> QED BY <2>1, <2>2
<1>4. Ending'
  BY <1>1 DEF Ending
<1> QED BY <1>1, <1>3, <1>4

LEMMA OrderlySendName ==
  ASSUME Orderly, OrderlyInv, IInv', SenderFrame, send_file_name_by_put_req
  PROVE  OrderlyInv'
<1>1. /\ s.pc = "name" /\ MovesTo("nameResp") /\ resp' = resp /\ Send(NameOf(s.idx))
  BY SendsRight DEF send_file_name_by_put_req, MovesTo
<1>2. s.idx \in Entry
  BY <1>1, SenderFields
<1>3. PICK p \in Packet : p = NameOf(s.idx)
  BY <1>1, SendsRight
<1>4. p.idx = s.idx /\ p.kind = "name" /\ Send(p)
  BY <1>1, <1>2, <1>3, OfFacts
<1>5. Good(p)
  BY <1>3, <1>4 DEF Good
<1>6. s'.pc = "nameResp" /\ s'.idx = s.idx /\ SenderInFile' /\ Ending'
  BY <1>1, OrderlyMoves
<1>7. Sent(p)'
  BY <1>4, <1>6 DEF Sent, IsName
<1>8. Ready => Expected(p)
  BY <1>1, <1>4 DEF Ready, Expected, IsName
<1>9. \A y : Sent(y) => Follows(y, p)
  BY <1>1, <1>4 DEF Sent, Follows, IsName
<1> QED BY <1>1, <1>4, <1>5, <1>6, <1>7, <1>8, <1>9, OrderlySends

LEMMA OrderlySendMd5 ==
  ASSUME Orderly, OrderlyInv, IInv', SenderFrame, send_file_md5_by_put_req
  PROVE  OrderlyInv'
<1>1. /\ s.pc = "md5" /\ MovesTo("md5Resp") /\ resp' = resp /\ Send(Md5Of(s.idx))
  BY SendsRight DEF send_file_md5_by_put_req, MovesTo, Orderly
<1>2. s.idx \in Entry /\ ~ IsDir(s.idx)
  BY <1>1, SenderFields
<1>3. PICK p \in Packet : p = Md5Of(s.idx)
  BY <1>1, SendsRight
<1>4. p.idx = s.idx /\ p.kind = "md5" /\ Send(p)
  BY <1>1, <1>2, <1>3, OfFacts
<1>5. Good(p)
  BY <1>2, <1>3, <1>4 DEF Good
<1>6. s'.pc = "md5Resp" /\ s'.idx = s.idx /\ SenderInFile' /\ Ending'
  BY <1>1, OrderlyMoves
<1>7. Sent(p)'
  BY <1>4, <1>6 DEF Sent
<1>8. Ready => Expected(p)
  BY <1>1, <1>4 DEF Ready, Expected
<1>9. \A y : ~ Sent(y)
  BY <1>1 DEF Sent
<1> QED BY <1>1, <1>4, <1>5, <1>6, <1>7, <1>8, <1>9, OrderlySends

\* What an answer in hand tells the sender.
LEMMA OrderlyReceived ==
  ASSUME OrderlyInv, NEW S, Received(S)
  PROVE  \E a : a.status \in S /\ Answered(a)
<1>1. Len(Answers) = 1 /\ Answers[1].status \in S
  BY InStepFacts, AnswersTaken
<1>2. Answers # << >>
  BY <1>1
<1> QED BY <1>1, <1>2, InStepFacts

LEMMA OrderlyRecvName == ASSUME OrderlyInv, IInv', SenderFrame, recv_name_resp PROVE OrderlyInv'
<1>1. s.pc = "nameResp" /\ req' = req /\ r' = r /\ stored' = stored /\ size' = size
  BY DEF recv_name_resp, SenderFrame
<1>2. CASE Received({"CONT", "ERR"}) /\ GiveUp
  <2>1. PICK a : a.status \in {"CONT", "ERR"} /\ Answered(a)
    BY <1>2, OrderlyReceived
  <2>2. s'.pc = "done" /\ s'.idx = s.idx /\ SenderInFile' /\ Ending'
    BY <1>1, <1>2, OrderlyGiveUp
  <2>3. Ready'
    BY <1>1, <2>1, <2>2 DEF Answered, Ready, Ordered
  <2> QED BY <1>1, <1>2, <2>2, <2>3, OrderlyTakes
<1>3. CASE Received({"OK"}) /\ IsDir(s.idx) /\ NextFile("sent", obj)
  <2>1. PICK a : a.status = "OK" /\ Answered(a)
    BY <1>3, OrderlyReceived
  <2>2. /\ s'.pc \in {"done", "name"} /\ s'.idx = s.idx + 1 /\ SenderInFile' /\ Ending'
    BY <1>1, <1>3, OrderlyNextFile
  <2>3. Ready'
    BY <1>1, <1>3, <2>1, <2>2 DEF Answered, Ready, Ordered
  <2> QED BY <1>1, <1>3, <2>2, <2>3, OrderlyTakes
<1>4. CASE Received({"OK"}) /\ ~ IsDir(s.idx) /\ MovesTo("md5")
  <2>1. PICK a : a.status = "OK" /\ Answered(a)
    BY <1>4, OrderlyReceived
  <2>2. /\ s'.pc = "md5" /\ s'.idx = s.idx /\ SenderInFile' /\ Ending'
    BY <1>1, <1>4, OrderlyMoves
  <2>3. Ready'
    BY <1>1, <1>4, <2>1, <2>2 DEF Answered, Ready, Ordered
  <2> QED BY <1>1, <1>4, <2>2, <2>3, OrderlyTakes
<1> QED BY <1>2, <1>3, <1>4 DEF recv_name_resp, MovesTo

LEMMA OrderlyRecvMd5Resp ==
  ASSUME Orderly, OrderlyInv, IInv', SenderFrame, recv_md5_resp
  PROVE  OrderlyInv'
<1>1. s.pc = "md5Resp" /\ req' = req /\ r' = r /\ stored' = stored /\ size' = size
  BY DEF recv_md5_resp, SenderFrame
<1>2. CASE Received({"OK"}) /\ NextFile("skipped", obj)
  <2>1. PICK a : a.status = "OK" /\ Answered(a)
    BY <1>2, OrderlyReceived
  <2>2. /\ s'.pc \in {"done", "name"} /\ s'.idx = s.idx + 1 /\ SenderInFile' /\ Ending'
    BY <1>1, <1>2, OrderlyNextFile
  <2>3. Ready'
    BY <1>1, <2>1, <2>2 DEF Answered, Ready, Ordered
  <2> QED BY <1>1, <1>2, <2>2, <2>3, OrderlyTakes
<1>3. CASE Received({"CONT", "ERR"}) /\ MovesTo("block")
  <2>1. PICK a : a.status \in {"CONT", "ERR"} /\ Answered(a)
    BY <1>3, OrderlyReceived
  <2>2. s.off = 0 /\ ~ IsDir(s.idx)
    BY <1>1, SenderFields
  <2>3. /\ s'.pc = "block" /\ s'.idx = s.idx /\ s'.off = 0 /\ SenderInFile' /\ Ending'
    BY <1>1, <1>3, <2>2, OrderlyMoves
  <2>4. Ready'
    BY <1>1, <2>1, <2>3 DEF Answered, Ready, Ordered
  <2> QED BY <1>1, <1>3, <2>3, <2>4, OrderlyTakes
<1> QED BY <1>2, <1>3 DEF recv_md5_resp, MovesTo, Orderly

LEMMA OrderlyRecvBlockResp == ASSUME OrderlyInv, IInv', SenderFrame, recv_block_resp PROVE OrderlyInv'
<1>1. /\ s.pc = "blockResp" /\ req' = req /\ r' = r /\ stored' = stored /\ size' = size
      /\ Received({"OK", "CONT", "ERR"}) /\ NextFile("sent", obj)
  BY DEF recv_block_resp, SenderFrame
<1>2. PICK a : Answered(a)
  BY <1>1, OrderlyReceived
<1>3. Last(s.idx) /\ Ordered(s.idx + 1)
  BY <1>1, <1>2 DEF Answered
<1>4. s'.pc = "done" /\ s'.idx = s.idx + 1 /\ SenderInFile' /\ Ending'
  BY <1>1, <1>3, OrderlyNextFile
<1>5. Ready'
  BY <1>1, <1>3, <1>4 DEF Ready, Ordered
<1> QED BY <1>1, <1>4, <1>5, OrderlyTakes

LEMMA OrderlySendContent ==
  ASSUME Orderly, OrderlyInv, IInv', SenderFrame, send_file_content_by_put_req
  PROVE  OrderlyInv'
<1> DEFINE left == size[s.idx] - s.off
           m == IF left < B THEN left ELSE B
           eof == m < B
<1>1. /\ s.pc = "block" /\ Send(BlockPacket(s.idx, s.off, m, eof, obj)) /\ resp' = resp
      /\ \/ ~eof /\ ReadsOn(m)
         \/ eof /\ BlockPacket(s.idx, s.off, m, eof, obj).reply /\ MovesTo("blockResp")
         \/ eof /\ ~BlockPacket(s.idx, s.off, m, eof, obj).reply /\ NextFile("sent", AfterSend(obj))
  BY DEF send_file_content_by_put_req, ReadsOn, MovesTo
<1>2. /\ s.idx \in Entry /\ s.idx \in Nat /\ s.off \in Nat /\ ~ IsDir(s.idx)
      /\ size[s.idx] \in Sizes /\ size[s.idx] \in Nat /\ s.off <= size[s.idx]
  BY <1>1, SenderFields
<1>3. PICK k \in 0 .. s.off : s.off = k * B
  BY <1>1 DEF OrderlyInv, SenderInFile
<1>4. PICK z, off : z = size[s.idx] /\ off = s.off
  OBVIOUS
<1>5. PICK n : n = m
  OBVIOUS
<1>6. n = IF z - off < B THEN z - off ELSE B
  BY <1>4, <1>5
<1> HIDE DEF m, left
<1>7. k \in Nat /\ k <= off
  BY <1>2, <1>3, <1>4
\* A size that is no multiple of the block size is not met by whole blocks.
<1>8. /\ n \in Nat /\ off + n \in Nat /\ off + n <= z
      /\ n < B <=> off + n = z
      /\ ~ (n < B) => n = B /\ off + n = (k + 1) * B
  <2>1. z \in Sizes /\ z \in Nat /\ off \in Nat /\ off = k * B /\ off <= z
    BY <1>2, <1>3, <1>4
  <2>2. B \in Nat /\ B > 0
    BY PutAssumption
  <2>3. PICK j \in Nat : j = k + 1
    BY <1>7
  <2>4. j \in 0 .. z => z = 0 \/ z # j * B
    BY <2>1 DEF Orderly
  <2>5. PICK e : e = j * B
    OBVIOUS
  <2>6. e = off + B /\ (z = 0 \/ z # e)
    <3>1. (k + 1) * B = k * B + B
      BY <1>7, <2>2
    <3>2. e = off + B
      BY <2>1, <2>3, <2>5, <3>1
    <3>3. z = e => j \in 0 .. z
      BY <1>7, <2>1, <2>2, <2>3, <3>2
    <3> QED BY <2>4, <2>5, <3>2, <3>3
  <2>7. /\ n \in Nat /\ off + n \in Nat /\ off + n <= z
        /\ n < B <=> off + n = z
        /\ ~ (n < B) => n = B /\ off + n = e
    BY ONLY <1>6, <2>1, <2>2, <2>6
  <2> QED BY <2>3, <2>5, <2>7
<1>9. eof \in BOOLEAN /\ (eof <=> n < B)
  BY <1>5
<1> HIDE DEF eof
<1>23. obj \in Object /\ obj.is_last = Last(s.idx)
  BY <1>1, SendsRight
<1>10. PICK p \in Packet : p = BlockPacket(s.idx, s.off, n, eof, obj)
  BY <1>2, <1>4, <1>8, <1>9, <1>23, BlockPackets
<1>11. /\ p.kind = "block" /\ p.idx = s.idx /\ p.off = off /\ p.n = n
       /\ p.reply = (Last(s.idx) /\ eof)
  BY <1>2, <1>4, <1>8, <1>9, <1>10, <1>23, BlockPackets
<1>12. Send(p)
  BY <1>1, <1>5, <1>10
<1>13. Final(p) <=> eof
  BY <1>4, <1>8, <1>9, <1>11 DEF Final
<1>14. Good(p)
  <2>1. p.off + p.n <= size[p.idx]
    BY <1>4, <1>8, <1>11
  <2>2. p.reply = (Last(p.idx) /\ Final(p))
    BY <1>9, <1>11, <1>13 DEF Final
  <2> QED BY <1>2, <1>11, <2>1, <2>2 DEF Good
<1>15. Ready => Expected(p)
  BY <1>1, <1>4, <1>11 DEF Ready, Expected
<1>16. \A y : Sent(y) => Follows(y, p)
  BY <1>1, <1>4, <1>11 DEF Sent, Follows
<1>17. size' = size
  BY DEF SenderFrame
<1>18. Final(p)' <=> Final(p)
  BY <1>17, ChainKept
<1>19. CASE ~eof /\ ReadsOn(m)
  <2>1. s'.pc = "block" /\ s'.idx = s.idx /\ s'.off = off + n
    BY <1>1, <1>4, <1>5, <1>19, SenderFields DEF ReadsOn
  <2>2. Sent(p)'
    BY <1>11, <1>13, <1>18, <1>19, <2>1 DEF Sent
  <2>3. SenderInFile'
    <3>1. off + n < z /\ k + 1 \in 0 .. (off + n) /\ off + n = (k + 1) * B
      BY <1>2, <1>4, <1>7, <1>8, <1>9, <1>19, PutAssumption
    <3> QED BY <1>4, <1>17, <2>1, <3>1 DEF SenderInFile
  <2>4. Ending'
    BY <2>1 DEF Ending
  <2> QED BY <1>1, <1>11, <1>12, <1>14, <1>15, <1>16, <2>2, <2>3, <2>4, OrderlySends
<1>20. CASE eof /\ Last(s.idx) /\ MovesTo("blockResp")
  <2>1. s'.pc = "blockResp" /\ s'.idx = s.idx /\ SenderInFile' /\ Ending'
    BY <1>1, <1>20, OrderlyMoves
  <2>2. Sent(p)'
    BY <1>11, <1>13, <1>18, <1>20, <2>1 DEF Sent
  <2> QED BY <1>1, <1>11, <1>12, <1>14, <1>15, <1>16, <2>1, <2>2, OrderlySends
<1>21. CASE eof /\ ~ Last(s.idx) /\ NextFile("sent", AfterSend(obj))
  <2>1. s'.pc = "name" /\ s'.idx = s.idx + 1 /\ SenderInFile' /\ Ending'
    BY <1>1, <1>21, OrderlyNextFile
  <2>2. Sent(p)'
    BY <1>11, <1>13, <1>18, <1>21, <2>1 DEF Sent
  <2> QED BY <1>1, <1>11, <1>12, <1>14, <1>15, <1>16, <2>1, <2>2, OrderlySends
<1>22. BlockPacket(s.idx, s.off, m, eof, obj).reply = (Last(s.idx) /\ eof)
  BY <1>5, <1>10, <1>11
<1> QED BY <1>1, <1>19, <1>20, <1>21, <1>22

LEMMA OrderlySenderStep == ASSUME Orderly, OrderlyInv, send_files_by_put_req PROVE OrderlyInv'
<1>1. SenderFrame /\ IInv /\ ~ nonblock
  BY DEF send_files_by_put_req, SenderFrame, OrderlyInv
<1>2. IInv'
  BY <1>1, SenderStep
<1>3. ~ recv_no_resp
  BY <1>1 DEF recv_no_resp
<1> QED BY <1>1, <1>2, <1>3, OrderlySendName, OrderlyRecvName, OrderlySendMd5, OrderlyRecvMd5Resp, OrderlySendContent,
           OrderlyRecvBlockResp DEF send_files_by_put_req

-----------------------------------------------------------------------------
\* The steps of the relay.
LEMMA OrderlyForward ==
  ASSUME OrderlyInv, IInv', RelayFrame, req[1] # << >>, Forward(Head(req[1]))
  PROVE  OrderlyInv'
<1>1. QueuesTyped /\ resp' = resp
  BY InStepFacts DEF Forward
<1>2. Stream' = Stream
  BY <1>1, StreamForward DEF Forward
<1>3. Answers' = Answers
  BY <1>1 DEF Answers
<1> QED BY <1>2, <1>3, OrderlyKept DEF RelayFrame

LEMMA OrderlyFwdResp == ASSUME OrderlyInv, IInv', RelayFrame, FwdResp PROVE OrderlyInv'
<1>1. QueuesTyped /\ req' = req
  BY InStepFacts DEF FwdResp
<1>2. Answers' = Answers
  BY <1>1, AnswersForwarded DEF FwdResp
<1>3. Stream' = Stream
  BY <1>1 DEF Stream
<1> QED BY <1>2, <1>3, OrderlyKept DEF RelayFrame

\* It refuses the first name, and the sender is told so.
LEMMA OrderlyRefuse ==
  ASSUME OrderlyInv, IInv', ToPeer, RelayFrame, relay.pc = "loop", req[1] # << >>,
         Refuse(Head(req[1]))
  PROVE  OrderlyInv'
<1>1. /\ size' = size /\ disk' = disk /\ s' = s /\ r' = r /\ stored' = stored
      /\ verdict' = verdict /\ nonblock' = nonblock
  BY DEF RelayFrame
<1>2. QueuesTyped /\ RelayRight /\ InStep(Stream, Answers)
  BY InStepFacts DEF OrderlyInv, IInv
<1>3. FirstName(req[1]) /\ req[2] = << >>
  BY <1>2 DEF RelayRight
<1>4. PICK p \in Packet : req[1] = << p >> /\ p.kind = "name" /\ p.idx = 0
  BY <1>3 DEF FirstName
<1>5. Stream = << p >> /\ Stream # << >> /\ Stream[1] = p /\ Stream[Len(Stream)] = p
  <2>1. << >> \o << p >> = << p >> /\ Len(<< p >>) = 1 /\ << p >>[1] = p /\ << p >> # << >>
    OBVIOUS
  <2>2. Stream = << p >>
    BY <1>3, <1>4, <2>1 DEF Stream
  <2> QED BY <2>1, <2>2
<1>6. Answers = << >> /\ Ordered(0) /\ Sent(p)
  BY <1>2, <1>4, <1>5 DEF InStep
<1>7. s.pc = "nameResp" /\ s.idx = 0
  BY <1>4, <1>6 DEF Sent
<1>8. PICK a : a = Answer(p, "ERR")
  OBVIOUS
<1>9. a \in Reply /\ a.status = "ERR" /\ a.to = p
  BY <1>4, <1>8, Replies
<1>10. Answers' = << a >>
  <2>1. resp[1] = << >> /\ resp[2] = << >> /\ resp \in [1 .. 2 -> Seq(Reply)]
    BY <1>2, <1>6, AnswersGone DEF QueuesTyped
  <2>2. Head(req[1]) = p
    BY <1>3, <1>4
  <2>3. resp' = [resp EXCEPT ![1] = Append(resp[1], a)]
    BY <1>8, <2>2 DEF Refuse
  <2>4. Append(<< >>, a) = << a >> /\ << a >> \o << >> = << a >>
    OBVIOUS
  <2>5. resp'[1] = << a >> /\ resp'[2] = << >>
    BY <2>1, <2>3, <2>4
  <2> QED BY <2>4, <2>5 DEF Answers
<1>11. Stream' = << >>
  <2>1. req' = [req EXCEPT ![1] = Tail(req[1])] /\ req \in [1 .. 2 -> Seq(Packet)]
    BY <1>2 DEF Refuse, QueuesTyped
  <2>2. Tail(<< p >>) = << >>
    OBVIOUS
  <2>3. req'[1] = << >> /\ req'[2] = << >>
    BY <1>3, <1>4, <2>1, <2>2
  <2> QED BY <2>3 DEF Stream
<1>12. Answered(a)'
  BY <1>1, <1>4, <1>6, <1>7, <1>9 DEF Answered, Ordered, IsName
<1>13. InStep(<< >>, << a >>)'
  <2>1. PICK w : w = << a >>
    OBVIOUS
  <2>2. Len(w) = 1 /\ w[1] = a
    BY <2>1
  <2>3. Answered(w[1])'
    <3>1. PICK y : y = w[1]
      OBVIOUS
    <3>2. Answered(y)'
      BY <1>12, <2>2, <3>1
    <3> QED BY <3>1, <3>2
  <2>4. InStep(<< >>, w)'
    BY <2>2, <2>3 DEF InStep
  <2> QED BY <2>1, <2>4
<1>14. InStep(Stream, Answers)'
  BY <1>10, <1>11, <1>13
<1>15. SenderInFile' /\ ReceiverInFile' /\ Ending'
  BY <1>1 DEF OrderlyInv, SenderInFile, ReceiverInFile, Ending, IsDir
<1>16. \A j \in stored' : Whole(j)'
  BY <1>1 DEF OrderlyInv, Whole, IsDir
<1> QED BY <1>1, <1>14, <1>15, <1>16 DEF OrderlyInv

LEMMA OrderlyRelayStep == ASSUME OrderlyInv, handle_fwd_put_req PROVE OrderlyInv'
<1>1. ToPeer /\ RelayFrame /\ IInv
  BY DEF handle_fwd_put_req, RelayFrame, OrderlyInv
<1>2. IInv'
  BY <1>1, RelayStep
<1>3. CASE FwdStart
  BY <1>1, <1>2, <1>3, OrderlyForward, OrderlyRefuse DEF FwdStart
<1>4. CASE FwdNext
  BY <1>1, <1>2, <1>4, OrderlyForward DEF FwdNext
<1>5. CASE FwdResp
  BY <1>1, <1>2, <1>5, OrderlyFwdResp
<1> QED BY <1>3, <1>4, <1>5 DEF handle_fwd_put_req

-----------------------------------------------------------------------------
\* The steps of the receiver.
LEMMA StreamHead ==
  ASSUME QueuesTyped, ~ ToPeer => req[2] = << >>, req[Hop] # << >>
  PROVE  Stream # << >> /\ Stream[1] = Head(req[Hop]) /\ Head(req[Hop]) \in Packet
<1>1. req[1] \in Seq(Packet) /\ req[2] \in Seq(Packet)
  BY DEF QueuesTyped
<1>2. ASSUME NEW u \in Seq(Packet), NEW v \in Seq(Packet), u # << >>
      PROVE  u \o v # << >> /\ (u \o v)[1] = Head(u) /\ Head(u) \in Packet
  <2>1. Len(u) \in Nat /\ Len(u) > 0 /\ Len(v) \in Nat
    BY <1>2
  <2>2. Head(u) = u[1] /\ Head(u) \in Packet
    BY <1>2, <2>1
  <2>3. (u \o v)[1] = u[1] /\ Len(u \o v) = Len(u) + Len(v)
    BY <2>1
  <2>4. u \o v # << >>
    BY <2>1, <2>3
  <2> QED BY <2>2, <2>3, <2>4
<1>3. CASE ToPeer
  <2>1. Hop = 2
    BY <1>3 DEF Hop
  <2> QED BY <1>1, <1>2, <2>1 DEF Stream
<1>4. CASE ~ ToPeer
  <2>1. Hop = 1
    BY <1>4 DEF Hop
  <2>2. Stream = req[1]
    <3>1. ASSUME NEW v \in Seq(Packet) PROVE << >> \o v = v
      OBVIOUS
    <3> QED BY <1>1, <1>4, <3>1 DEF Stream
  <2>3. ASSUME NEW v \in Seq(Packet), v # << >> PROVE v[1] = Head(v) /\ Head(v) \in Packet
    BY <2>3
  <2> QED BY <1>1, <2>1, <2>2, <2>3
<1> QED BY <1>3, <1>4

\* The request in hand, and what is known when it is taken.
LEMMA OrderlyNext ==
  ASSUME OrderlyInv, req[Hop] # << >>, NEW p, p = Head(req[Hop])
  PROVE  /\ Stream # << >> /\ p = Stream[1] /\ p \in Packet /\ Answers = << >>
         /\ Chain(Stream) /\ Good(p) /\ Expected(p) /\ Ordered(p.idx)
         /\ Sent(Stream[Len(Stream)])
<1>1. QueuesTyped /\ (~ ToPeer => req[2] = << >>) /\ InStep(Stream, Answers)
  BY InStepFacts DEF OrderlyInv, IInv
<1>2. Stream # << >> /\ p = Stream[1] /\ p \in Packet
  BY <1>1, StreamHead
<1>3. /\ Answers = << >> /\ Chain(Stream) /\ Expected(p) /\ Ordered(p.idx)
      /\ Sent(Stream[Len(Stream)])
  BY <1>1, <1>2 DEF InStep
<1>4. PICK q \in Seq(Packet) : q = Stream
  BY <1>1, StreamTyped
<1>5. Good(p)
  BY <1>2, <1>3, <1>4, ChainPop
<1> QED BY <1>2, <1>3, <1>5

\* What the receiver has to see to when it has taken p and answered ans.
Continued(p, ans) ==
  /\ ReceiverInFile'
  /\ \A j \in stored' : IsDir(j) => disk'[j] = 0
  /\ \/ /\ ans = << >>
        /\ \A y \in Packet : Follows(p, y) => Expected(y)' /\ Ordered(y.idx)'
        /\ Sent(p) => Ready'
     \/ /\ Len(ans) = 1
        /\ \A y \in Packet : ~ Follows(p, y)
        /\ Sent(p) => Answered(ans[1])'

LEMMA OrderlyTake ==
  ASSUME OrderlyInv, IInv', ReceiverFrame, req[Hop] # << >>, NEW p, p = Head(req[Hop]),
         NEW ans \in Seq(Reply), Take(ans), Continued(p, ans)
  PROVE  OrderlyInv'
<1>1. size' = size /\ s' = s /\ verdict' = verdict /\ nonblock' = nonblock
  BY DEF ReceiverFrame
<1>2. /\ Stream # << >> /\ p = Stream[1] /\ p \in Packet /\ Answers = << >>
      /\ Chain(Stream) /\ Sent(Stream[Len(Stream)])
  BY OrderlyNext
<1>3. QueuesTyped /\ (~ ToPeer => req[2] = << >>)
  BY InStepFacts DEF OrderlyInv, IInv
<1>4. Stream' = Tail(Stream) /\ Answers' = ans
  BY <1>2, <1>3, StreamTake, AnswersGiven DEF Take
<1>5. PICK q \in Seq(Packet) : q = Stream
  BY <1>3, StreamTyped
<1>6. PICK x : x = Tail(q)
  OBVIOUS
<1>7. /\ Chain(x)
      /\ IF x = << >> THEN q[Len(q)] = p
         ELSE /\ x[Len(x)] = q[Len(q)] /\ Follows(p, x[1]) /\ x[1] \in Packet
  BY <1>2, <1>5, <1>6, ChainPop
<1>8. Chain(x)'
  BY <1>1, <1>7, ChainKept
<1>9. x # << >> => Sent(x[Len(x)])'
  <2>1. \A y : Sent(y)' <=> Sent(y)
    BY <1>1, ChainKept DEF Sent
  <2> QED BY <1>2, <1>5, <1>7, <2>1
<1>10. x = << >> => Sent(p)
  BY <1>2, <1>5, <1>7
<1>11. InStep(x, ans)'
  <2>1. CASE /\ ans = << >>
             /\ \A y \in Packet : Follows(p, y) => Expected(y)' /\ Ordered(y.idx)'
             /\ Sent(p) => Ready'
    <3>1. x # << >> => Expected(x[1])' /\ Ordered(x[1].idx)'
      BY <1>7, <2>1
    <3> QED BY <1>8, <1>9, <1>10, <2>1, <3>1 DEF InStep
  <2>2. CASE /\ Len(ans) = 1
             /\ \A y \in Packet : ~ Follows(p, y)
             /\ Sent(p) => Answered(ans[1])'
    <3>1. x = << >>
      BY <1>7, <2>2
    <3> QED BY <1>10, <2>2, <3>1 DEF InStep
  <2> QED BY <2>1, <2>2 DEF Continued
<1>12. InStep(Stream, Answers)'
  BY <1>4, <1>5, <1>6, <1>11
<1>13. SenderInFile' /\ Ending'
  BY <1>1 DEF OrderlyInv, SenderInFile, Ending
<1>14. \A j \in stored' : Whole(j)'
  <2>1. NoSilentCorruption'
    BY DEF IInv
  <2> QED BY <1>1, <2>1 DEF NoSilentCorruption, Whole, Continued, IsDir
<1> QED BY <1>1, <1>12, <1>13, <1>14 DEF OrderlyInv, Continued

\* A single answer.
LEMMA OrderlyAnswers ==
  ASSUME NEW p \in Packet, NEW st \in {"OK", "CONT", "ERR"}, NEW ans, ans = << Answer(p, st) >>
  PROVE  ans \in Seq(Reply) /\ Len(ans) = 1 /\ ans[1].status = st /\ ans[1].to = p
<1>1. Answer(p, st) \in Reply /\ Answer(p, st).status = st /\ Answer(p, st).to = p
  BY Replies
<1>2. PICK a \in Reply : a = Answer(p, st)
  BY <1>1
<1>3. ans = << a >>
  BY <1>2
<1> QED BY <1>1, <1>2, <1>3

\* The entry just received is the next of the list.
LEMMA OrderedNext ==
  ASSUME NEW i \in Entry, Ordered(i), stored' = stored \union {i}
  PROVE  Ordered(i + 1)'
<1>1. \A j \in Entry : j < i + 1 <=> j < i \/ j = i
  BY EntryFacts DEF Entry
<1> QED BY <1>1 DEF Ordered

LEMMA OrderlyDone ==
  ASSUME ReceiverTyped, NEW i \in Entry, FileDone(i, Last(i))
  PROVE  /\ r'.pc = (IF Last(i) THEN "loop" ELSE "next") /\ stored' = stored \union {i}
         /\ r'.pc \in {"loop", "next"}
<1>1. i # Junk
  BY EntryFacts
<1> QED BY <1>1 DEF FileDone, ReceiverTyped

\* What the receiver reports as received is the next entry of the list.
StoresNext ==
  stored' = stored \/ \E i \in Entry : Ordered(i) /\ stored' = stored \union {i}

LEMMA DirsWhole ==
  ASSUME OrderlyInv
  PROVE  /\ stored \subseteq Entry /\ FilesTyped /\ ReceiverTyped
         /\ \A j \in stored : IsDir(j) => disk[j] = 0
BY DEF OrderlyInv, IInv, Typed, FilesTyped, Whole

LEMMA OrderlyName ==
  ASSUME Orderly, OrderlyInv, IInv', ReceiverFrame, req[Hop] # << >>, RecvName
  PROVE  OrderlyInv' /\ StoresNext
<1>1. PICK p : p = Head(req[Hop])
  OBVIOUS
<1>2. p \in Packet /\ Expected(p) /\ Ordered(p.idx) /\ Good(p)
  BY <1>1, OrderlyNext
<1>3. r.pc \in {"loop", "next"} /\ p.kind = "name"
  BY <1>2 DEF RecvName, Expected, IsName
<1>4. PICK i \in Entry : i = p.idx
  BY <1>2, PacketFields
<1>5. i # Junk /\ ~ Fault /\ p.last = Last(i)
  <2>1. p = NameOf(i)
    BY <1>2, <1>3, <1>4, OfFacts DEF Good
  <2> QED BY <2>1, EntryFacts, OfFacts DEF Orderly
<1>6. /\ Take(<< Answer(p, "OK") >>)
      /\ \/ IsDir(i) /\ disk' = [disk EXCEPT ![i] = 0] /\ FileDone(i, Last(i))
         \/ /\ ~ IsDir(i)
            /\ disk' = IF disk[i] = Absent THEN [disk EXCEPT ![i] = 0] ELSE disk
            /\ r' = [r EXCEPT !.pc = "md5", !.name = i, !.last = Last(i)]
            /\ stored' = stored
  BY <1>1, <1>3, <1>4, <1>5 DEF RecvName, Next_packet
<1>7. PICK ans : ans = << Answer(p, "OK") >>
  OBVIOUS
<1>8. ans \in Seq(Reply) /\ Len(ans) = 1 /\ ans[1].status = "OK" /\ ans[1].to = p
  BY <1>2, <1>7, OrderlyAnswers
<1>9. /\ stored \subseteq Entry /\ FilesTyped /\ ReceiverTyped
      /\ \A j \in stored : IsDir(j) => disk[j] = 0
  BY DirsWhole
<1>10. s' = s /\ size' = size
  BY DEF ReceiverFrame
<1>11. \A y \in Packet : ~ Follows(p, y)
  BY <1>3 DEF Follows
<1>12. Sent(p) => s.pc = "nameResp" /\ s.idx = i
  BY <1>3, <1>4 DEF Sent
<1>13. PICK a : a = ans[1]
  OBVIOUS
<1>14. a.status = "OK" /\ a.to = p
  BY <1>8, <1>13
<1>15. CASE IsDir(i) /\ disk' = [disk EXCEPT ![i] = 0] /\ FileDone(i, Last(i))
  <2>1. r'.pc \in {"loop", "next"} /\ stored' = stored \union {i}
    BY <1>9, <1>15, OrderlyDone
  <2>2. Ordered(i + 1)'
    BY <1>2, <1>4, <2>1, OrderedNext
  <2>3. \A j \in stored' : IsDir(j) => disk'[j] = 0
    <3>1. disk \in [Entry -> Int]
      BY <1>9 DEF FilesTyped
    <3>2. disk'[i] = 0 /\ \A j \in Entry : j # i => disk'[j] = disk[j]
      BY <1>15, <3>1
    <3> QED BY <1>9, <2>1, <3>2
  <2>4. Sent(p) => Answered(a)'
    BY <1>3, <1>4, <1>10, <1>12, <1>14, <1>15, <2>1, <2>2 DEF Answered, IsName, IsDir
  <2>5. ReceiverInFile'
    BY <2>1 DEF ReceiverInFile
  <2>6. Continued(p, ans)
    BY <1>8, <1>11, <1>13, <2>3, <2>4, <2>5 DEF Continued
  <2>7. StoresNext
    BY <1>2, <1>4, <2>1 DEF StoresNext
  <2> QED BY <1>1, <1>6, <1>7, <1>8, <2>6, <2>7, OrderlyTake
<1>16. CASE /\ ~ IsDir(i)
            /\ disk' = IF disk[i] = Absent THEN [disk EXCEPT ![i] = 0] ELSE disk
            /\ r' = [r EXCEPT !.pc = "md5", !.name = i, !.last = Last(i)]
            /\ stored' = stored
  <2>1. r'.pc = "md5" /\ r'.name = i /\ r'.last = Last(i)
    BY <1>9, <1>16 DEF ReceiverTyped
  <2>2. Ordered(i)'
    BY <1>2, <1>4, <1>16 DEF Ordered
  <2>3. \A j \in stored' : IsDir(j) => disk'[j] = 0
    <3>1. disk \in [Entry -> Int]
      BY <1>9 DEF FilesTyped
    <3>2. \A j \in Entry : j # i => disk'[j] = disk[j]
      BY <1>16, <3>1
    <3> QED BY <1>9, <1>16, <3>2
  <2>4. Sent(p) => Answered(a)'
    BY <1>3, <1>4, <1>10, <1>12, <1>14, <1>16, <2>1, <2>2 DEF Answered, IsName, IsDir
  <2>5. ReceiverInFile'
    BY <1>10, <1>16, <2>1 DEF ReceiverInFile, IsDir
  <2>6. Continued(p, ans)
    BY <1>8, <1>11, <1>13, <2>3, <2>4, <2>5 DEF Continued
  <2>7. StoresNext
    BY <1>16 DEF StoresNext
  <2> QED BY <1>1, <1>6, <1>7, <1>8, <2>6, <2>7, OrderlyTake
<1> QED BY <1>6, <1>15, <1>16

\* A size that an int holds goes through the packet unchanged.
LEMMA WireSizeKeeps ==
  ASSUME Orderly, NEW n \in Sizes
  PROVE  WireSize(n) = n
<1>1. n \in Nat /\ n <= IntMax /\ IntMax \in Nat
  BY PutAssumption DEF Orderly
<1>2. PICK m : m = UInt
  OBVIOUS
<1>3. m \in Nat /\ m > 0 /\ n < m
  BY <1>1, <1>2, UIntFacts
<1>4. n % m = n
  BY ONLY <1>1, <1>3
<1> QED BY <1>1, <1>2, <1>4 DEF WireSize, AsInt

\* The md5 check of the file in hand against its own md5.
LEMMA SameFileOwn ==
  ASSUME NEW i \in Entry, NEW d
  PROVE  same_file(i, i, d) = {d[i] = size[i]}
<1>1. i # Junk
  BY EntryFacts
<1>2. same_file(i, i, d) = {d[i] = size[i] /\ (i = i \/ d[i] = 0)}
  BY <1>1 DEF same_file
<1> QED BY <1>2

LEMMA OrderlyMd5 ==
  ASSUME Orderly, OrderlyInv, IInv', ReceiverFrame, req[Hop] # << >>, RecvMd5
  PROVE  OrderlyInv' /\ StoresNext
<1>1. PICK p : p = Head(req[Hop])
  OBVIOUS
<1>2. p \in Packet /\ Expected(p) /\ Ordered(p.idx) /\ Good(p)
  BY <1>1, OrderlyNext
<1>3. r.pc = "md5" /\ p.kind = "md5" /\ r.name = p.idx
  BY <1>2 DEF RecvMd5, Expected
<1>4. PICK i \in Entry : i = p.idx
  BY <1>2, PacketFields
<1>5. i # Junk /\ ~ Fault /\ r.name = i /\ r.last = Last(i) /\ ~ IsDir(i)
  BY <1>3, <1>4, EntryFacts DEF Orderly, OrderlyInv, ReceiverInFile
<1>7. p.total = WireSize(size[i])
  <2>1. p = Md5Of(i)
    BY <1>2, <1>3, <1>4, OfFacts DEF Good
  <2> QED BY <2>1, OfFacts
<1>6. \/ /\ Take(<< Answer(p, "OK") >>) /\ FileDone(i, Last(i)) /\ disk' = disk
      \/ /\ Take(<< Answer(p, "CONT") >>)
         /\ r' = [r EXCEPT !.pc = "block", !.md5 = i, !.got = 0, !.total = WireSize(size[i])]
         /\ disk' = [disk EXCEPT ![i] = 0]
         /\ stored' = stored
  BY <1>1, <1>3, <1>4, <1>5, <1>7 DEF RecvMd5, Next_packet
<1>9. /\ stored \subseteq Entry /\ FilesTyped /\ ReceiverTyped
      /\ \A j \in stored : IsDir(j) => disk[j] = 0
  BY DirsWhole
<1>10. s' = s /\ size' = size
  BY DEF ReceiverFrame
<1>11. \A y \in Packet : ~ Follows(p, y)
  BY <1>3 DEF Follows
<1>12. Sent(p) => s.pc = "md5Resp" /\ s.idx = i
  BY <1>3, <1>4 DEF Sent, IsName
<1>13. CASE Take(<< Answer(p, "OK") >>) /\ FileDone(i, Last(i)) /\ disk' = disk
  <2>1. PICK ans : ans = << Answer(p, "OK") >>
    OBVIOUS
  <2>2. ans \in Seq(Reply) /\ Len(ans) = 1 /\ ans[1].status = "OK" /\ ans[1].to = p
    BY <1>2, <2>1, OrderlyAnswers
  <2>3. PICK a : a = ans[1]
    OBVIOUS
  <2>4. r'.pc \in {"loop", "next"} /\ stored' = stored \union {i}
    BY <1>9, <1>13, OrderlyDone
  <2>5. Ordered(i + 1)'
    BY <1>2, <1>4, <2>4, OrderedNext
  <2>6. \A j \in stored' : IsDir(j) => disk'[j] = 0
    BY <1>5, <1>9, <1>13, <2>4
  <2>7. Sent(p) => Answered(a)'
    BY <1>3, <1>4, <1>10, <1>12, <2>2, <2>3, <2>4, <2>5 DEF Answered
  <2>8. ReceiverInFile'
    BY <2>4 DEF ReceiverInFile
  <2>9. Continued(p, ans)
    BY <1>11, <2>2, <2>3, <2>6, <2>7, <2>8 DEF Continued
  <2>10. StoresNext
    BY <1>2, <1>4, <2>4 DEF StoresNext
  <2> QED BY <1>1, <1>13, <2>1, <2>2, <2>9, <2>10, OrderlyTake
<1>14. CASE /\ Take(<< Answer(p, "CONT") >>)
            /\ r' = [r EXCEPT !.pc = "block", !.md5 = i, !.got = 0, !.total = WireSize(size[i])]
            /\ disk' = [disk EXCEPT ![i] = 0]
            /\ stored' = stored
  <2>1. PICK ans : ans = << Answer(p, "CONT") >>
    OBVIOUS
  <2>2. ans \in Seq(Reply) /\ Len(ans) = 1 /\ ans[1].status = "CONT" /\ ans[1].to = p
    BY <1>2, <2>1, OrderlyAnswers
  <2>3. PICK a : a = ans[1]
    OBVIOUS
  <2>4. WireSize(size[i]) = size[i]
    <3>1. size[i] \in Sizes
      BY <1>5, <1>9 DEF FilesTyped, IsDir
    <3> QED BY <3>1, WireSizeKeeps
  <2>5. /\ r'.pc = "block" /\ r'.name = i /\ r'.last = Last(i) /\ r'.md5 = i /\ r'.got = 0
        /\ r'.total = size[i]
    <3>1. r' = [r EXCEPT !.pc = "block", !.md5 = i, !.got = 0, !.total = size[i]]
      BY <1>14, <2>4
    <3> QED BY <1>5, <1>9, <3>1 DEF ReceiverTyped
  <2>6. Ordered(i)'
    BY <1>2, <1>4, <1>14 DEF Ordered
  <2>7. disk'[i] = 0 /\ \A j \in Entry : j # i => disk'[j] = disk[j]
    <3>1. disk \in [Entry -> Int]
      BY <1>9 DEF FilesTyped
    <3> QED BY <1>14, <3>1
  <2>8. \A j \in stored' : IsDir(j) => disk'[j] = 0
    BY <1>9, <1>14, <2>7
  <2>9. Sent(p) => Answered(a)'
    BY <1>3, <1>4, <1>10, <1>12, <2>2, <2>3, <2>5, <2>6 DEF Answered
  <2>10. ReceiverInFile'
    BY <1>5, <1>10, <2>5, <2>7 DEF ReceiverInFile, IsDir
  <2>11. Continued(p, ans)
    BY <1>11, <2>2, <2>3, <2>8, <2>9, <2>10 DEF Continued
  <2>12. StoresNext
    BY <1>14 DEF StoresNext
  <2> QED BY <1>1, <1>14, <2>1, <2>2, <2>11, <2>12, OrderlyTake
<1> QED BY <1>6, <1>13, <1>14

LEMMA OrderlyBlock ==
  ASSUME Orderly, OrderlyInv, IInv', ReceiverFrame, req[Hop] # << >>, RecvBlock
  PROVE  OrderlyInv' /\ StoresNext
<1>1. PICK p : p = Head(req[Hop])
  OBVIOUS
<1>2. p \in Packet /\ Expected(p) /\ Ordered(p.idx) /\ Good(p)
  BY <1>1, OrderlyNext
<1>3. r.pc = "block" /\ p.kind = "block" /\ r.name = p.idx /\ r.got = p.off
  BY <1>2 DEF RecvBlock, Expected
<1>4. PICK i \in Entry : i = p.idx
  BY <1>2, PacketFields
<1>5. /\ i # Junk /\ ~ Fault /\ r.name = i /\ r.last = Last(i) /\ r.md5 = i /\ ~ IsDir(i)
      /\ r.total = size[i] /\ disk[i] = r.got /\ r.got = p.off
  BY <1>3, <1>4, EntryFacts DEF Orderly, OrderlyInv, ReceiverInFile
<1>6. PICK got : got = p.off + p.n
  OBVIOUS
<1>7. /\ p.off \in Nat /\ p.n \in Nat /\ got \in Nat /\ size[i] \in Nat /\ got <= size[i]
      /\ p.reply = (Last(i) /\ Final(p)) /\ (Final(p) <=> got = size[i])
  <2>1. p.off \in Nat /\ p.n \in Nat /\ got \in Nat
    BY <1>2, <1>6, PacketFields
  <2>2. p # NameOf(p.idx) /\ p # Md5Of(p.idx)
    BY <1>2, <1>3, <1>4, OfFacts
  <2>3. got <= size[i] /\ p.reply = (Last(i) /\ Final(p))
    BY <1>2, <1>4, <1>6, <2>2 DEF Good
  <2>4. size[i] \in Nat
    BY <1>5, DirsWhole, PutAssumption DEF FilesTyped, IsDir
  <2> QED BY <1>4, <1>6, <2>1, <2>3, <2>4 DEF Final
<1>8. /\ stored \subseteq Entry /\ FilesTyped /\ ReceiverTyped
      /\ \A j \in stored : IsDir(j) => disk[j] = 0
  BY DirsWhole
<1>9. s' = s /\ size' = size
  BY DEF ReceiverFrame
\* The block is the next of the file in hand.
<1>10. disk'[i] = got /\ \A j \in Entry : j # i => disk'[j] = disk[j]
  <2>1. disk' = IF p.n = 0 THEN disk ELSE [disk EXCEPT ![i] = got]
    BY <1>1, <1>3, <1>4, <1>5, <1>6 DEF RecvBlock, Next_packet
  <2>2. disk \in [Entry -> Int]
    BY <1>8 DEF FilesTyped
  <2>3. CASE p.n = 0
    BY <1>5, <1>6, <1>7, <2>1, <2>3
  <2>4. CASE p.n # 0
    BY <2>1, <2>2, <2>4
  <2> QED BY <2>3, <2>4
<1>11. PICK ans : ans = IF p.reply THEN << Answer(p, "OK") >> ELSE << >>
  OBVIOUS
<1>12. Take(ans)
  BY <1>1, <1>11 DEF RecvBlock, Next_packet
<1>13. IF got < size[i] THEN r' = [r EXCEPT !.got = got] /\ stored' = stored
       ELSE CheckFile(got, disk')
  BY <1>1, <1>5, <1>6 DEF RecvBlock, Next_packet, MoreBlocks
<1>14. ans \in Seq(Reply)
  <2>1. << >> \in Seq(Reply) /\ << Answer(p, "OK") >> \in Seq(Reply)
    BY <1>2, OneAnswer
  <2> QED BY <1>11, <2>1
<1>15. CASE ~ Final(p)
  <2>1. got < size[i] /\ ~ p.reply
    <3>1. got # size[i] /\ ~ p.reply
      BY <1>7, <1>15, Zenon
    <3> QED BY <1>7, <3>1
  <2>2. r' = [r EXCEPT !.got = got] /\ stored' = stored /\ ans = << >>
    BY <1>11, <1>13, <2>1
  <2>3. /\ r'.pc = "block" /\ r'.name = i /\ r'.last = Last(i) /\ r'.md5 = i /\ r'.got = got
        /\ r'.total = size[i]
    BY <1>3, <1>5, <1>8, <2>2 DEF ReceiverTyped
  <2>4. ReceiverInFile'
    BY <1>5, <1>9, <1>10, <2>3 DEF ReceiverInFile, IsDir
  <2>5. \A j \in stored' : IsDir(j) => disk'[j] = 0
    BY <1>5, <1>8, <1>10, <2>2
  <2>6. Ordered(i)'
    BY <1>2, <1>4, <2>2 DEF Ordered
  <2>7. \A y \in Packet : Follows(p, y) => Expected(y)' /\ Ordered(y.idx)'
    BY <1>4, <1>6, <1>15, <2>3, <2>6 DEF Follows, Expected
  <2>8. Sent(p) => Ready'
    BY <1>3, <1>4, <1>6, <1>9, <1>15, <2>3, <2>6 DEF Sent, Ready, IsName
  <2>9. Continued(p, ans)
    BY <2>2, <2>4, <2>5, <2>7, <2>8 DEF Continued
  <2>10. StoresNext
    BY <2>2 DEF StoresNext
  <2> QED BY <1>1, <1>12, <1>14, <2>9, <2>10, OrderlyTake
<1>16. CASE Final(p)
  <2>1. FileDone(i, Last(i))
    <3>1. got = size[i] /\ ~ (got < size[i])
      BY <1>7, <1>16
    <3>2. PICK d : d = disk'
      OBVIOUS
    <3>3. PICK same \in same_file(i, i, d) :
             IF got = size[i] /\ same THEN FileDone(i, Last(i)) ELSE FileFailed
      BY <1>5, <1>13, <3>1, <3>2 DEF CheckFile
    <3>4. same_file(i, i, d) = {TRUE}
      <4>1. d[i] = size[i]
        BY <1>10, <3>1, <3>2
      <4>2. same_file(i, i, d) = {d[i] = size[i]}
        BY SameFileOwn
      <4> QED BY <4>1, <4>2
    <3> QED BY <3>1, <3>3, <3>4
  <2>2. r'.pc \in {"loop", "next"} /\ stored' = stored \union {i}
    BY <1>8, <2>1, OrderlyDone
  <2>3. Ordered(i + 1)'
    BY <1>2, <1>4, <2>2, OrderedNext
  <2>4. ReceiverInFile'
    BY <2>2 DEF ReceiverInFile
  <2>5. \A j \in stored' : IsDir(j) => disk'[j] = 0
    BY <1>5, <1>8, <1>10, <2>2
  <2>6. StoresNext
    BY <1>2, <1>4, <2>2 DEF StoresNext
  <2>7. CASE Last(i)
    <3>1. ans = << Answer(p, "OK") >>
      BY <1>7, <1>11, <1>16, <2>7
    <3>2. Len(ans) = 1 /\ ans[1].status = "OK" /\ ans[1].to = p
      BY <1>2, <3>1, OrderlyAnswers
    <3>3. PICK a : a = ans[1]
      OBVIOUS
    <3>4. i + 1 \notin Entry /\ i + 1 # i
      BY <2>7, EntryFacts
    <3>5. \A y \in Packet : ~ Follows(p, y)
      BY <1>4, <1>16, <3>4, PacketFields DEF Follows
    <3>6. Sent(p) => s.pc = "blockResp" /\ s.idx = i
      <4>1. s.pc # "done" => s.idx \in Entry
        BY SenderFields
      <4> QED BY <1>3, <1>4, <1>16, <3>4, <4>1 DEF Sent, IsName
    <3>7. Sent(p) => Answered(a)'
      BY <1>3, <1>4, <1>9, <2>3, <2>7, <3>2, <3>3, <3>6 DEF Answered
    <3>8. Continued(p, ans)
      BY <2>4, <2>5, <3>2, <3>3, <3>5, <3>7 DEF Continued
    <3> QED BY <1>1, <1>12, <1>14, <2>6, <3>8, OrderlyTake
  <2>8. CASE ~ Last(i)
    <3>1. ans = << >>
      BY <1>7, <1>11, <2>8
    <3>2. \A y \in Packet : Follows(p, y) => Expected(y)' /\ Ordered(y.idx)'
      BY <1>4, <1>16, <2>2, <2>3 DEF Follows, Expected, IsName
    <3>3. Sent(p) => s.pc = "name" /\ s.idx = i + 1
      BY <1>3, <1>4, <1>16, <2>8 DEF Sent, IsName
    <3>4. Sent(p) => Ready'
      BY <1>9, <2>2, <2>3, <3>3 DEF Ready
    <3>5. Continued(p, ans)
      BY <2>4, <2>5, <3>1, <3>2, <3>4 DEF Continued
    <3> QED BY <1>1, <1>12, <1>14, <2>6, <3>5, OrderlyTake
  <2> QED BY <2>7, <2>8
<1> QED BY <1>15, <1>16

\* The server's port does not move.
LEMMA NoUpdate == ASSUME Orderly, OrderlyInv PROVE update = NotYet /\ update # 0
BY DEF OrderlyInv, IInv, UpdateRight, Orderly, NotYet

LEMMA OrderlyReceiverStep ==
  ASSUME Orderly, OrderlyInv, recv_files_from_put_req
  PROVE  OrderlyInv' /\ StoresNext
<1>1. ReceiverFrame /\ IInv /\ ~ NonBlocking
  BY DEF recv_files_from_put_req, ReceiverFrame, OrderlyInv, Orderly
<1>2. IInv'
  BY <1>1, ReceiverStep
<1>3. req[Hop] # << >> /\ (RecvName \/ RecvMd5 \/ RecvBlock)
  BY <1>1, NoUpdate DEF recv_files_from_put_req, NoPacket, RecvUpdate
<1> QED BY <1>1, <1>2, <1>3, OrderlyName, OrderlyMd5, OrderlyBlock

-----------------------------------------------------------------------------
LEMMA OrderlyInit == Init => OrderlyInv
<1> SUFFICES ASSUME Init PROVE OrderlyInv
  OBVIOUS
<1>1. IInv
  BY InitRight
<1>2. /\ s = [pc |-> "name", idx |-> 0, off |-> 0] /\ nonblock = FALSE /\ stored = {}
      /\ r = [pc |-> "loop", name |-> Junk, md5 |-> Junk, last |-> FALSE, got |-> 0, total |-> 0]
  BY DEF Init
<1>3. s.pc = "name" /\ s.idx = 0 /\ r.pc = "loop"
  BY <1>2
<1>4. Stream = << >> /\ Answers = << >>
  BY DEF Init, Stream, Answers
<1>5. Ordered(0)
  BY <1>2, EntryFacts DEF Ordered, Entry
<1>6. InStep(Stream, Answers)
  BY <1>3, <1>4, <1>5 DEF InStep, Ready
<1> QED BY <1>1, <1>2, <1>3, <1>6 DEF OrderlyInv, SenderInFile, ReceiverInFile, Ending

LEMMA OrderlyNextStep ==
  ASSUME Orderly, OrderlyInv, [Next]_vars
  PROVE  OrderlyInv' /\ StoresNext
<1>1. CASE send_files_by_put_req
  <2>1. stored' = stored
    BY <1>1 DEF send_files_by_put_req
  <2> QED BY <1>1, <2>1, OrderlySenderStep DEF StoresNext
<1>2. CASE handle_port_update_req \/ notify_client_after_updating
  BY <1>2 DEF handle_port_update_req, notify_client_after_updating, Orderly
<1>3. CASE handle_fwd_put_req
  <2>1. stored' = stored
    BY <1>3 DEF handle_fwd_put_req
  <2> QED BY <1>3, <2>1, OrderlyRelayStep DEF StoresNext
<1>4. CASE recv_files_from_put_req
  BY <1>4, OrderlyReceiverStep
<1>5. CASE UNCHANGED vars
  <2>1. /\ IInv /\ UNCHANGED << size, disk, s, r, stored, verdict, nonblock >>
        /\ Stream' = Stream /\ Answers' = Answers
    BY <1>5 DEF vars, OrderlyInv, Stream, Answers
  <2>2. IInv'
    BY <1>5, <2>1, StutterStep
  <2> QED BY <2>1, <2>2, OrderlyKept DEF StoresNext
<1> QED BY <1>1, <1>2, <1>3, <1>4, <1>5 DEF Next, Idle

\* The invariant of a put in which nothing fails (Orderly: not of the default
\* build, where put_req_raw_encode reverses the sender's object): at any time the requests
\* under way are consecutive blocks of one file and at most the next name, or
\* one request or one answer somebody waits for, and the receiver is at the
\* place in recv_file_from_put_req where the next of them belongs.
THEOREM PutInStep ==
  ASSUME Orderly
  PROVE  Spec => []OrderlyInv
<1>1. OrderlyInv /\ [Next]_vars => OrderlyInv'
  BY OrderlyNextStep
<1> QED BY <1>1, OrderlyInit, PTL DEF Spec

LEMMA OrderlyUnderstood == ASSUME OrderlyInv PROVE PacketsUnderstood
<1>1. ASSUME req[Hop] # << >>
      PROVE  LET p == Head(req[Hop]) IN
             \/ r.pc \in {"loop", "next"} /\ p.kind = "name"
             \/ r.pc = "md5" /\ p.kind = "md5" /\ p.idx = r.name
             \/ r.pc = "block" /\ p.kind = "block" /\ p.idx = r.name /\ p.off = r.got
  <2>1. Expected(Head(req[Hop]))
    BY <1>1, OrderlyNext
  <2> QED BY <2>1 DEF Expected, IsName
<1>2. ASSUME resp[1] # << >>
      PROVE  LET p == Head(resp[1]).to IN
             /\ p.idx = s.idx
             /\ p.kind = CASE s.pc = "nameResp" -> "name" [] s.pc = "md5Resp" -> "md5"
                           [] s.pc = "blockResp" -> "block" [] OTHER -> "none"
  <2>1. PICK a : a = Head(resp[1])
    OBVIOUS
  <2>2. Answered(a)
    <3>1. QueuesTyped
      BY InStepFacts
    <3>2. resp[1] \in Seq(Reply) /\ resp[2] \in Seq(Reply)
      BY <3>1 DEF QueuesTyped
    <3>3. ASSUME NEW u \in Seq(Reply), NEW v \in Seq(Reply), u # << >>
          PROVE  u \o v # << >> /\ (u \o v)[1] = Head(u)
      <4>1. Len(u) \in Nat /\ Len(u) > 0 /\ Len(v) \in Nat
        BY <3>3
      <4>2. (u \o v)[1] = u[1] /\ Len(u \o v) = Len(u) + Len(v) /\ Head(u) = u[1]
        BY <3>3, <4>1
      <4> QED BY <4>1, <4>2
    <3>4. Answers # << >> /\ Answers[1] = a
      BY <1>2, <2>1, <3>2, <3>3 DEF Answers
    <3> QED BY <3>4, InStepFacts
  <2>3. /\ a.to.idx = s.idx
        /\ \/ s.pc = "nameResp" /\ a.to.kind = "name"
           \/ s.pc = "md5Resp" /\ a.to.kind = "md5"
           \/ s.pc = "blockResp" /\ a.to.kind = "block"
    BY <2>2 DEF Answered, IsName
  <2>4. a.to.kind = CASE s.pc = "nameResp" -> "name" [] s.pc = "md5Resp" -> "md5"
                      [] s.pc = "blockResp" -> "block" [] OTHER -> "none"
    BY <2>3
  <2> QED BY <2>1, <2>3, <2>4
<1> QED BY <1>1, <1>2 DEF PacketsUnderstood

\* Every request is taken for what it was sent for and every answer by the
\* sender that waits for it, directly or through handle_fwd_put_req: the
\* packets carry no kind, and none is needed as long as nothing fails, the
\* receiver's socket blocks, the codec leaves put_req alone (XDR), and no size
\* is a positive multiple of CONTENT_BLOCK_SIZE.
THEOREM RequestsUnderstood ==
  ASSUME Orderly
  PROVE  Spec => []PacketsUnderstood
<1>1. OrderlyInv => PacketsUnderstood
  BY OrderlyUnderstood
<1> QED BY <1>1, PutInStep, PTL

LEMMA OrderlyStored == ASSUME OrderlyInv PROVE AllStored
<1> SUFFICES ASSUME Quiet, \A i \in Entry : verdict[i] # "failed", NEW i \in Entry
             PROVE  Whole(i)
  BY DEF AllStored
<1>1. s.pc = "done" /\ s.idx = N /\ req[1] = << >> /\ req[2] = << >>
  BY DEF Quiet, OrderlyInv, Ending
<1>2. Stream = << >>
  BY <1>1 DEF Stream
<1>3. Ordered(N)
  BY <1>1, <1>2 DEF OrderlyInv, InStep, Ready, Answered
<1>4. i \in stored
  BY <1>3, EntryFacts DEF Ordered
<1> QED BY <1>4 DEF OrderlyInv

\* A put that ends without a reported failure has stored every entry as the
\* sender has it: file contents and directories, the last one included.  Of
\* the XDR build; AllStored is false of the default one.
THEOREM PutComplete ==
  ASSUME Orderly
  PROVE  Spec => []AllStored
<1>1. OrderlyInv => AllStored
  BY OrderlyStored
<1> QED BY <1>1, PutInStep, PTL

LEMMA OrderlyCopied == ASSUME OrderlyInv PROVE {i \in stored : Whole(i)} = stored
BY DEF OrderlyInv

\* The put implements FileCopy: the entries the receiver holds as the sender
\* does grow one at a time, in the order of the list, and none is lost, when
\* send_files_by_put_req uses the XDR codec.
THEOREM PutCopies ==
  ASSUME Orderly
  PROVE  Spec => RefinesFileCopy
<1>1. OrderlyInv /\ Init => Abstract!CopyInit
  BY OrderlyCopied DEF Init, Abstract!CopyInit
<1>2. OrderlyInv /\ [Next]_vars => [Abstract!CopyNext]_({i \in stored : Whole(i)})
  <2> SUFFICES ASSUME OrderlyInv, [Next]_vars
               PROVE  [Abstract!CopyNext]_({i \in stored : Whole(i)})
    OBVIOUS
  <2>1. OrderlyInv' /\ StoresNext
    BY OrderlyNextStep
  <2>2. {i \in stored : Whole(i)} = stored
    BY OrderlyCopied
  <2>3. {i \in stored : Whole(i)}' = stored'
    BY <2>1 DEF OrderlyInv
  <2>4. CASE stored' = stored
    BY <2>2, <2>3, <2>4
  <2>5. ASSUME NEW i \in Entry, Ordered(i), stored' = stored \union {i}
        PROVE  Abstract!CopyNext
    <3>1. \A j \in 0 .. i - 1 : j \in stored
      BY <2>5, EntryFacts DEF Ordered, Entry
    <3>2. i \in 0 .. N - 1
      BY DEF Entry
    <3>3. Abstract!Copy(i)
      BY <2>2, <2>3, <2>5, <3>1 DEF Abstract!Copy
    <3> QED BY <3>2, <3>3 DEF Abstract!CopyNext
  <2> QED BY <2>1, <2>4, <2>5 DEF StoresNext
<1> QED BY <1>1, <1>2, OrderlyInit, PutInStep, PTL DEF Spec, RefinesFileCopy, Abstract!CopySpec
-----------------------------------------------------------------------------
(***************************************************************************)
(* What everybody waits for, in a put in which the two ends stay in step.  *)
(***************************************************************************)
NothingFailed == \A i \in Entry : verdict[i] # "failed"

\* As long as the put is not over, one of the three can take a step.
NobodyStuck ==
  s.pc # "done" =>
    \/ s.pc \in {"name", "md5", "block"}
    \/ resp[1] # << >>
    \/ req[Hop] # << >>
    \/ ToPeer /\ \/ relay.pc \in {"loop", "recv"} /\ req[1] # << >>
                 \/ relay.pc = "resp" /\ resp[2] # << >>

\* The relay is out of handle_fwd_put_req once the last entry has been sent.
RelayFreed == Quiet /\ NothingFailed /\ verdict[N - 1] # "skipped" => relay.pc = "loop"

\* When the last file was unchanged the relay waits for a request and no one
\* will send it one.
RelayLeft ==
  ToPeer /\ verdict[N - 1] = "skipped" =>
    s.pc = "done" /\ relay.pc = "recv" /\ Stream = << >> /\ Answers = << >>

\* Some request of q asks for an answer.
Asks(q) == \E k \in 1 .. Len(q) : q[k].reply

\* The relay waits for an answer exactly while the peer owes it one.
RelayWaits ==
  /\ relay.pc = "resp" <=> resp[2] # << >> \/ Asks(req[2])
  /\ ~ ToPeer => relay.pc = "loop" /\ resp[2] = << >>

\* The last request before the end of a put carries STOP.
Closing(p) ==
  /\ s.pc = "nameResp" => p = NameOf(s.idx)
  /\ s.pc = "blockResp" => p.stop
  /\ s.pc = "done" /\ NothingFailed /\ verdict[N - 1] # "skipped" => p.stop

\* The last request is on its way to the relay or the one it has in hand.
RelayAt ==
  /\ relay.pc = "recv" => ~ relay.pkt.stop
  /\ IF req[1] = << >> THEN relay.pc = "loop" \/ Closing(relay.pkt)
     ELSE Closing(req[1][Len(req[1])])

RelayInv == OrderlyInv /\ RelayWaits /\ (ToPeer => RelayAt) /\ RelayLeft

-----------------------------------------------------------------------------
LEMMA AsksFacts ==
  /\ ~ Asks(<< >>)
  /\ \A q \in Seq(Packet) : \A p \in Packet : Asks(Append(q, p)) <=> Asks(q) \/ p.reply
  /\ \A q \in Seq(Packet) : q # << >> => (Asks(q) <=> Head(q).reply \/ Asks(Tail(q)))
<1>1. ~ Asks(<< >>)
  BY DEF Asks
<1>2. ASSUME NEW q \in Seq(Packet), NEW p \in Packet
      PROVE  Asks(Append(q, p)) <=> Asks(q) \/ p.reply
  <2>1. PICK x : x = Append(q, p)
    OBVIOUS
  <2>2. /\ Len(q) \in Nat /\ Len(x) = Len(q) + 1 /\ x[Len(x)] = p
        /\ \A k \in 1 .. Len(q) : x[k] = q[k]
    BY <2>1
  <2>3. \A k \in 1 .. Len(x) : k \in 1 .. Len(q) \/ k = Len(x)
    BY <2>2
  <2>4. Len(x) \in 1 .. Len(x) /\ \A k \in 1 .. Len(q) : k \in 1 .. Len(x)
    BY <2>2
  <2>5. Asks(x) <=> Asks(q) \/ p.reply
    BY <2>2, <2>3, <2>4 DEF Asks
  <2> QED BY <2>1, <2>5
<1>3. ASSUME NEW q \in Seq(Packet), q # << >>
      PROVE  Asks(q) <=> Head(q).reply \/ Asks(Tail(q))
  <2>1. PICK x : x = Tail(q)
    OBVIOUS
  <2>2. /\ Len(q) \in Nat /\ Len(q) > 0 /\ Head(q) = q[1] /\ Len(x) = Len(q) - 1
        /\ \A k \in 1 .. Len(x) : x[k] = q[k + 1]
    BY <1>3, <2>1, TailFacts
  <2>3. /\ 1 \in 1 .. Len(q) /\ \A k \in 1 .. Len(x) : k + 1 \in 1 .. Len(q)
        /\ \A k \in 1 .. Len(q) : k = 1 \/ (k - 1 \in 1 .. Len(x) /\ (k - 1) + 1 = k)
    BY <2>2
  <2>4. ASSUME Asks(q) PROVE q[1].reply \/ Asks(x)
    <3>1. PICK k \in 1 .. Len(q) : q[k].reply
      BY <2>4 DEF Asks
    <3>2. k # 1 => x[k - 1] = q[k] /\ k - 1 \in 1 .. Len(x)
      BY <2>2, <2>3
    <3> QED BY <3>1, <3>2 DEF Asks
  <2>5. ASSUME q[1].reply \/ Asks(x) PROVE Asks(q)
    BY <2>2, <2>3, <2>5 DEF Asks
  <2> QED BY <2>1, <2>2, <2>4, <2>5
<1> QED BY <1>1, <1>2, <1>3

\* The steps that keep the relay's side of hop 2 keep what it waits for.
LEMMA WaitsKept ==
  ASSUME RelayWaits, relay' = relay, req'[2] = req[2], resp'[2] = resp[2]
  PROVE  RelayWaits'
BY DEF RelayWaits, Asks

LEMMA RelayWaitsForward ==
  ASSUME RelayInv, relay.pc # "resp", ToPeer, req[1] # << >>, Forward(Head(req[1]))
  PROVE  RelayWaits'
<1>1. QueuesTyped /\ RelayWaits
  BY InStepFacts DEF RelayInv
<1>2. PICK p \in Packet : p = Head(req[1])
  BY <1>1, StreamForward DEF Forward
<1>3. req'[2] = Append(req[2], p) /\ resp' = resp /\ req[2] \in Seq(Packet)
  BY <1>1, <1>2 DEF Forward, QueuesTyped
<1>4. /\ relay' = [pc |-> IF p.reply THEN "resp" ELSE AfterPacket(p), pkt |-> p]
      /\ p.reply \in BOOLEAN
  BY <1>2, PacketFields DEF Forward
<1>5. relay'.pc = "resp" <=> p.reply
  BY <1>4 DEF AfterPacket
<1>6. resp[2] = << >> /\ ~ Asks(req[2])
  BY <1>1 DEF RelayWaits
<1>7. Asks(Append(req[2], p)) <=> p.reply
  BY <1>3, <1>6, AsksFacts
<1>8. Asks(req[2])' <=> p.reply
  BY <1>3, <1>7 DEF Asks
<1> QED BY <1>3, <1>5, <1>6, <1>8 DEF RelayWaits

LEMMA RelayWaitsFwdResp ==
  ASSUME RelayInv, ToPeer, FwdResp
  PROVE  RelayWaits'
<1>1. QueuesTyped /\ RelayWaits /\ Len(Answers) <= 1 /\ (Answers # << >> => Stream = << >>)
  BY InStepFacts DEF RelayInv
<1>2. /\ resp[2] # << >> /\ req' = req
      /\ resp' = [resp EXCEPT ![2] = Tail(@), ![1] = Append(@, Head(resp[2]))]
      /\ relay' = [relay EXCEPT !.pc = AfterPacket(relay.pkt)]
  BY DEF FwdResp
<1>3. Answers # << >>
  BY <1>1, <1>2, AnswersGone
<1>4. req[2] = << >>
  <2>1. ASSUME NEW u \in Seq(Packet), NEW v \in Seq(Packet), u \o v = << >> PROVE u = << >>
    <3>1. Len(u) \in Nat /\ Len(v) \in Nat /\ Len(u \o v) = Len(u) + Len(v) /\ Len(<< >>) = 0
      OBVIOUS
    <3>2. Len(u) = 0
      BY <2>1, <3>1
    <3> QED BY <3>2, EmptySeq
  <2> QED BY <1>1, <1>3, <2>1, StreamTyped DEF Stream
<1>5. Tail(resp[2]) = << >>
  <2>1. ASSUME NEW u \in Seq(Reply), NEW v \in Seq(Reply), v # << >>, Len(u \o v) <= 1
        PROVE  Tail(v) = << >>
    <3>1. Len(u) \in Nat /\ Len(v) \in Nat /\ Len(v) > 0 /\ Len(u \o v) = Len(u) + Len(v)
      BY <2>1
    <3>2. Len(v) = 1
      <4>1. PICK a, b, c : a = Len(u) /\ b = Len(v) /\ c = Len(u \o v)
        OBVIOUS
      <4>2. a \in Nat /\ b \in Nat /\ b > 0 /\ c = a + b /\ c <= 1
        BY <2>1, <3>1, <4>1
      <4>3. b = 1
        BY ONLY <4>2
      <4> QED BY <4>1, <4>3
    <3> QED BY <2>1, <3>2, TailFacts
  <2> QED BY <1>1, <1>2, <2>1, StreamTyped DEF Answers
<1>6. resp'[2] = << >> /\ relay'.pc # "resp"
  <2>1. resp \in [1 .. 2 -> Seq(Reply)] /\ relay \in [pc : {"loop", "recv", "resp"}, pkt : Packet]
    BY InStepFacts DEF RelayInv, QueuesTyped, Typed, RelayTyped
  <2>2. resp'[2] = Tail(resp[2])
    <3>1. PICK x, y : x = Append(resp[1], Head(resp[2])) /\ y = Tail(resp[2])
      OBVIOUS
    <3>2. resp' = [resp EXCEPT ![2] = y, ![1] = x]
      BY <1>2, <3>1
    <3>3. resp'[2] = y
      BY ONLY <2>1, <3>2
    <3> QED BY <3>1, <3>3
  <2>3. relay'.pc = AfterPacket(relay.pkt)
    BY <1>2, <2>1
  <2> QED BY <1>5, <2>2, <2>3 DEF AfterPacket
<1>7. ~ Asks(req[2])'
  BY <1>2, <1>4, AsksFacts DEF Asks
<1> QED BY <1>6, <1>7 DEF RelayWaits

\* The receiver answers exactly the requests that ask for it.
LEMMA ReceiverReplies ==
  ASSUME Orderly, OrderlyInv, recv_files_from_put_req
  PROVE  /\ req[Hop] # << >> /\ Head(req[Hop]) \in Packet /\ Answers = << >>
         /\ \E x : Take(IF Head(req[Hop]).reply THEN << x >> ELSE << >>)
<1>1. ~ NonBlocking
  BY DEF Orderly
<1>2. req[Hop] # << >> /\ (RecvName \/ RecvMd5 \/ RecvBlock)
  BY <1>1, NoUpdate DEF recv_files_from_put_req, NoPacket, RecvUpdate
<1>3. PICK p : p = Head(req[Hop])
  OBVIOUS
<1>4. p \in Packet /\ Answers = << >> /\ Good(p) /\ Expected(p)
  BY <1>2, <1>3, OrderlyNext
<1>5. p.idx \in Entry
  BY <1>4, PacketFields
<1>6. CASE RecvName
  <2>1. p.reply
    <3>1. r.pc \in {"loop", "next"}
      BY <1>6 DEF RecvName
    <3>2. p.kind = "name"
      BY <1>4, <3>1 DEF Expected, IsName
    <3>3. p = NameOf(p.idx)
      BY <1>4, <1>5, <3>2, OfFacts DEF Good
    <3> QED BY <1>5, <3>3, OfFacts
  <2>2. \E x : Take(<< x >>)
    BY <1>6 DEF RecvName
  <2> QED BY <1>2, <1>3, <1>4, <2>1, <2>2
<1>7. CASE RecvMd5
  <2>1. p.reply
    <3>1. r.pc = "md5"
      BY <1>7 DEF RecvMd5
    <3>2. p.kind = "md5"
      BY <1>4, <3>1 DEF Expected, IsName
    <3>3. p = Md5Of(p.idx)
      BY <1>4, <1>5, <3>2, OfFacts DEF Good
    <3> QED BY <1>5, <3>3 DEF Md5Of
  <2>2. \E x : Take(<< x >>)
    BY <1>7 DEF RecvMd5
  <2> QED BY <1>2, <1>3, <1>4, <2>1, <2>2
<1>8. CASE RecvBlock
  <2>1. Take(IF p.reply THEN << Answer(p, "OK") >> ELSE << >>)
    BY <1>3, <1>8 DEF RecvBlock, Next_packet
  <2> QED BY <1>2, <1>3, <1>4, <2>1
<1> QED BY <1>2, <1>6, <1>7, <1>8

LEMMA RelayWaitsReceiver ==
  ASSUME Orderly, RelayInv, recv_files_from_put_req
  PROVE  RelayWaits' /\ (ToPeer => req'[1] = req[1])
<1>1. /\ QueuesTyped /\ RelayWaits /\ OrderlyInv /\ relay' = relay
  BY InStepFacts DEF RelayInv, recv_files_from_put_req
<1>2. PICK p, x : /\ req[Hop] # << >> /\ p = Head(req[Hop]) /\ p \in Packet
                  /\ Answers = << >> /\ Take(IF p.reply THEN << x >> ELSE << >>)
  BY <1>1, ReceiverReplies
<1>3. /\ resp[1] = << >> /\ resp[2] = << >>
      /\ req \in [1 .. 2 -> Seq(Packet)] /\ resp \in [1 .. 2 -> Seq(Reply)]
      /\ req' = [req EXCEPT ![Hop] = Tail(@)] /\ resp' = [resp EXCEPT ![Hop] = @ \o (IF p.reply THEN << x >> ELSE << >>)]
  BY <1>1, <1>2, AnswersGone DEF Take, QueuesTyped
<1>4. CASE ToPeer
  <2>1. Hop = 2
    BY <1>4 DEF Hop
  <2>2. /\ req'[2] = Tail(req[2]) /\ req'[1] = req[1]
        /\ resp'[2] = << >> \o (IF p.reply THEN << x >> ELSE << >>)
    BY <1>3, <2>1
  <2>3. resp'[2] # << >> <=> p.reply
    <3>1. << >> \o << x >> = << x >> /\ << x >> # << >> /\ << >> \o << >> = << >>
      OBVIOUS
    <3> QED BY <2>2, <3>1
  <2>4. relay.pc = "resp" <=> Asks(req[2])
    BY <1>1, <1>3 DEF RelayWaits
  <2>5. Asks(req[2]) <=> p.reply \/ Asks(Tail(req[2]))
    BY <1>2, <1>3, <2>1, AsksFacts
  <2>6. Asks(req[2])' <=> Asks(Tail(req[2]))
    BY <2>2 DEF Asks
  <2> QED BY <1>1, <1>4, <2>2, <2>3, <2>4, <2>5, <2>6 DEF RelayWaits
<1>5. CASE ~ ToPeer
  <2>1. Hop = 1
    BY <1>5 DEF Hop
  <2>2. req'[2] = req[2] /\ resp'[2] = resp[2]
    BY <1>3, <2>1
  <2> QED BY <1>1, <1>5, <2>2, WaitsKept
<1> QED BY <1>4, <1>5

-----------------------------------------------------------------------------
\* The last request on the sender's steps.
LEMMA SenderMoves ==
  ASSUME SenderTyped, s.pc # "done"
  PROVE  /\ N - 1 \in Entry /\ s.idx \in Entry
         /\ GiveUp => ~ NothingFailed' /\ (verdict'[N - 1] = "skipped" => verdict[N - 1] = "skipped")
         /\ \A v, o : NextFile(v, o) =>
              /\ s'.pc = IF Last(s.idx) THEN "done" ELSE "name"
              /\ verdict'[N - 1] = IF Last(s.idx) THEN v ELSE verdict[N - 1]
         /\ \A c : MovesTo(c) => s'.pc = c /\ s'.idx = s.idx /\ verdict' = verdict
<1>1. N - 1 \in Entry /\ s.idx \in Entry /\ (Last(s.idx) <=> s.idx = N - 1)
  BY PutAssumption DEF SenderTyped, Entry, Last
<1>2. /\ verdict \in [Entry -> {"none", "skipped", "sent", "failed"}]
      /\ s \in [pc : {"name", "nameResp", "md5", "md5Resp", "block", "blockResp", "done"},
                idx : 0 .. N, off : Nat]
  BY DEF SenderTyped
<1>3. ASSUME GiveUp
      PROVE  ~ NothingFailed' /\ (verdict'[N - 1] = "skipped" => verdict[N - 1] = "skipped")
  <2>1. verdict' = [verdict EXCEPT ![s.idx] = "failed"]
    BY <1>3 DEF GiveUp
  <2>2. verdict'[s.idx] = "failed"
    BY <1>1, <1>2, <2>1
  <2>3. N - 1 = s.idx \/ verdict'[N - 1] = verdict[N - 1]
    BY <1>1, <1>2, <2>1
  <2> QED BY <1>1, <2>2, <2>3 DEF NothingFailed
<1>4. ASSUME NEW v, NEW o, NextFile(v, o)
      PROVE  /\ s'.pc = IF Last(s.idx) THEN "done" ELSE "name"
             /\ verdict'[N - 1] = IF Last(s.idx) THEN v ELSE verdict[N - 1]
  BY <1>1, <1>2, <1>4 DEF NextFile
<1>5. ASSUME NEW c, MovesTo(c) PROVE s'.pc = c /\ s'.idx = s.idx /\ verdict' = verdict
  BY <1>2, <1>5 DEF MovesTo
<1> QED BY <1>1, <1>3, <1>4, <1>5

LEMMA LeftKept ==
  ASSUME RelayLeft, SenderTyped, s.pc # "done",
         NEW o, \/ verdict' = verdict \/ GiveUp \/ NextFile("sent", o)
                \/ NextFile("skipped", o) /\ ~ Last(s.idx)
  PROVE  RelayLeft'
<1>1. ToPeer => verdict[N - 1] # "skipped"
  BY DEF RelayLeft
<1>2. ToPeer => verdict'[N - 1] # "skipped"
  BY <1>1, SenderMoves
<1> QED BY <1>2 DEF RelayLeft

\* The sender sends p.
LEMMA ClosingSent ==
  ASSUME QueuesTyped, NEW p \in Packet, Send(p), RelayAt, relay' = relay, Closing(p)'
  PROVE  RelayAt'
<1>1. req'[1] = Append(req[1], p) /\ req[1] \in Seq(Packet)
  BY StreamSend, StreamTyped
<1>2. \A u \in Seq(Packet) : /\ Append(u, p) # << >>
                             /\ Append(u, p)[Len(Append(u, p))] = p
  OBVIOUS
<1>3. req'[1] # << >> /\ req'[1][Len(req'[1])] = p
  BY <1>1, <1>2
<1>4. Closing(req[1][Len(req[1])])'
  <2>1. PICK y : y = req'[1][Len(req'[1])]
    OBVIOUS
  <2>2. Closing(y)'
    BY <1>3, <2>1
  <2> QED BY <2>1, <2>2
<1> QED BY <1>3, <1>4 DEF RelayAt

\* It takes an answer.
LEMMA ClosingTaken ==
  ASSUME req' = req, RelayAt, relay' = relay, \A p : Closing(p) => Closing(p)'
  PROVE  RelayAt'
<1>1. PICK y, z : y = req[1][Len(req[1])] /\ z = relay.pkt
  OBVIOUS
<1>2. /\ relay.pc = "recv" => ~ z.stop
      /\ IF req[1] = << >> THEN relay.pc = "loop" \/ Closing(z) ELSE Closing(y)
  BY <1>1 DEF RelayAt
<1>3. (Closing(z) => Closing(z)') /\ (Closing(y) => Closing(y)')
  OBVIOUS
<1>4. Closing(req[1][Len(req[1])])' <=> Closing(y)'
  BY <1>1
<1>5. Closing(relay.pkt)' <=> Closing(z)'
  BY <1>1
<1> QED BY <1>1, <1>2, <1>3, <1>4, <1>5 DEF RelayAt

LEMMA ClosingSenderSends ==
  ASSUME RelayInv, SenderFrame,
         send_file_name_by_put_req \/ send_file_md5_by_put_req \/ send_file_content_by_put_req,
         Orderly
  PROVE  (ToPeer => RelayAt') /\ RelayLeft'
<1>1. QueuesTyped /\ SenderTyped /\ relay' = relay /\ RelayLeft /\ size' = size
  BY InStepFacts DEF RelayInv, SenderFrame, Typed
<1>2. ASSUME send_file_name_by_put_req PROVE (ToPeer => RelayAt') /\ RelayLeft'
  <2>1. /\ s.pc = "name" /\ Send(NameOf(s.idx)) /\ MovesTo("nameResp")
    BY <1>2, SendsRight DEF send_file_name_by_put_req, MovesTo, RelayInv
  <2>2. s'.pc = "nameResp" /\ s'.idx = s.idx /\ verdict' = verdict /\ s.idx \in Entry
    BY <1>1, <2>1, SenderMoves
  <2>3. PICK p \in Packet : p = NameOf(s.idx)
    BY <2>1, SendsRight DEF RelayInv
  <2>4. Closing(p)'
    BY <1>1, <2>2, <2>3 DEF Closing, NameOf, IsDir
  <2>5. ToPeer => RelayAt'
    BY <1>1, <2>1, <2>3, <2>4, ClosingSent DEF RelayInv
  <2> QED BY <1>1, <2>1, <2>2, <2>5, LeftKept
<1>3. ASSUME send_file_md5_by_put_req PROVE (ToPeer => RelayAt') /\ RelayLeft'
  <2>1. /\ s.pc = "md5" /\ Send(Md5Of(s.idx)) /\ MovesTo("md5Resp")
    BY <1>3, SendsRight DEF send_file_md5_by_put_req, MovesTo, Orderly, RelayInv
  <2>2. s'.pc = "md5Resp" /\ verdict' = verdict /\ s.idx \in Entry
    BY <1>1, <2>1, SenderMoves
  <2>3. PICK p \in Packet : p = Md5Of(s.idx)
    BY <2>1, SendsRight DEF RelayInv
  <2>4. Closing(p)'
    BY <2>2 DEF Closing
  <2>5. ToPeer => RelayAt'
    BY <1>1, <2>1, <2>3, <2>4, ClosingSent DEF RelayInv
  <2> QED BY <1>1, <2>1, <2>2, <2>5, LeftKept
<1>4. ASSUME send_file_content_by_put_req PROVE (ToPeer => RelayAt') /\ RelayLeft'
  <2> DEFINE left == size[s.idx] - s.off
             n == IF left < B THEN left ELSE B
             eof == n < B
             p == BlockPacket(s.idx, s.off, n, eof, obj)
  <2>1. /\ s.pc = "block" /\ Send(p) /\ resp' = resp
        /\ \/ ~eof /\ ReadsOn(n)
           \/ eof /\ p.reply /\ MovesTo("blockResp")
           \/ eof /\ ~p.reply /\ NextFile("sent", AfterSend(obj))
    BY <1>4 DEF send_file_content_by_put_req, ReadsOn, MovesTo
  <2>2. /\ s.idx \in Entry /\ s.off \in Nat /\ size[s.idx] \in Nat /\ s.off <= size[s.idx]
    BY <2>1, SenderFields DEF RelayInv
  <2>3. n \in Nat /\ eof \in BOOLEAN
    BY <2>2, PutAssumption
  <2> HIDE DEF n, eof, left
  <2>4. /\ p \in Packet /\ p.stop = (Last(s.idx) /\ eof) /\ p.reply = (Last(s.idx) /\ eof)
    <3>1. obj \in Object /\ obj.is_last = Last(s.idx)
      BY <2>1, SendsRight DEF RelayInv
    <3> QED BY <2>2, <2>3, <3>1, BlockPackets
  <2> HIDE DEF p
  <2>5. PICK x \in Packet : x = p
    BY <2>4
  <2>6. CASE ~eof /\ ReadsOn(n)
    <3>1. s'.pc = "block" /\ verdict' = verdict
      BY <1>1, <2>1, <2>6 DEF ReadsOn, SenderTyped
    <3>2. Closing(x)'
      BY <3>1 DEF Closing
    <3>3. ToPeer => RelayAt'
      BY <1>1, <2>1, <2>5, <3>2, ClosingSent DEF RelayInv
    <3> QED BY <1>1, <2>1, <3>1, <3>3, LeftKept
  <2>7. CASE eof /\ p.reply /\ MovesTo("blockResp")
    <3>1. s'.pc = "blockResp" /\ verdict' = verdict
      BY <1>1, <2>1, <2>7, SenderMoves
    <3>2. Closing(x)'
      BY <2>4, <2>5, <2>7, <3>1 DEF Closing
    <3>3. ToPeer => RelayAt'
      BY <1>1, <2>1, <2>5, <3>2, ClosingSent DEF RelayInv
    <3> QED BY <1>1, <2>1, <3>1, <3>3, LeftKept
  <2>8. CASE eof /\ ~p.reply /\ NextFile("sent", AfterSend(obj))
    <3>1. s'.pc = "name"
      BY <1>1, <2>1, <2>4, <2>8, SenderMoves
    <3>2. Closing(x)'
      BY <3>1 DEF Closing
    <3>3. ToPeer => RelayAt'
      BY <1>1, <2>1, <2>5, <3>2, ClosingSent DEF RelayInv
    <3> QED BY <1>1, <2>1, <2>8, <3>3, LeftKept
  <2> QED BY <2>1, <2>6, <2>7, <2>8
<1> QED BY <1>2, <1>3, <1>4

LEMMA ConcatEmpty ==
  ASSUME NEW S, NEW u \in Seq(S), NEW v \in Seq(S), u \o v = << >>
  PROVE  u = << >> /\ v = << >>
<1>1. Len(u) \in Nat /\ Len(v) \in Nat /\ Len(u \o v) = Len(u) + Len(v) /\ Len(<< >>) = 0
  OBVIOUS
<1>2. Len(u) = 0 /\ Len(v) = 0
  BY <1>1
<1> QED BY <1>2, EmptySeq

\* The last file was unchanged: its md5 was the last request, without STOP.
LEMMA LeftBegins ==
  ASSUME RelayInv, ToPeer, s.pc = "md5Resp", relay' = relay, req' = req,
         NEW S, Received(S), s'.pc = "done"
  PROVE  RelayLeft'
<1>1. /\ QueuesTyped /\ RelayWaits /\ RelayRight /\ RelayTyped /\ Len(Answers) <= 1
      /\ Answers # << >> => Stream = << >>
  BY InStepFacts DEF RelayInv, OrderlyInv, IInv, Typed
<1>2. Len(Answers) = 1 /\ Answers' = << >>
  BY <1>1, AnswersTaken
<1>3. Stream = << >>
  BY <1>1, <1>2
<1>4. req[1] = << >> /\ req[2] = << >>
  BY <1>1, <1>3, ConcatEmpty, StreamTyped DEF Stream
<1>5. resp[2] = << >>
  <2>1. resp[1] \in Seq(Reply) /\ resp[2] \in Seq(Reply) /\ resp \in [1 .. 2 -> Seq(Reply)]
    BY <1>1, StreamTyped DEF QueuesTyped
  <2>2. resp' = [resp EXCEPT ![1] = Tail(resp[1])] /\ resp[1] # << >>
    BY DEF Received
  <2>3. PICK x : x = Tail(resp[1])
    OBVIOUS
  <2>4. x \in Seq(Reply)
    BY <2>1, <2>2, <2>3, TailFacts
  <2>5. resp'[1] = x /\ resp'[2] = resp[2]
    BY <2>1, <2>2, <2>3
  <2>6. x \o resp[2] = << >>
    BY <1>2, <2>5 DEF Answers
  <2> QED BY <2>1, <2>4, <2>6, ConcatEmpty
<1>6. relay.pc # "loop"
  BY <1>1, <1>4 DEF RelayRight, Ended
<1>7. relay.pc # "resp"
  BY <1>1, <1>4, <1>5, AsksFacts DEF RelayWaits
<1>8. relay.pc = "recv"
  BY <1>1, <1>6, <1>7 DEF RelayTyped
<1>9. Stream' = << >>
  BY <1>3 DEF Stream
<1> QED BY <1>2, <1>8, <1>9 DEF RelayLeft

LEMMA ClosingSenderTakes ==
  ASSUME Orderly, RelayInv, SenderFrame, recv_name_resp \/ recv_md5_resp \/ recv_block_resp
  PROVE  (ToPeer => RelayAt') /\ RelayLeft'
<1>1. /\ QueuesTyped /\ SenderTyped /\ relay' = relay /\ RelayLeft /\ size' = size
      /\ req' = req /\ s.pc # "done"
  BY InStepFacts DEF RelayInv, SenderFrame, Typed, recv_name_resp, recv_md5_resp, recv_block_resp
<1>2. ASSUME \A p : Closing(p) => Closing(p)' PROVE ToPeer => RelayAt'
  BY <1>1, <1>2, ClosingTaken DEF RelayInv
<1>3. CASE GiveUp
  <2>1. ~ NothingFailed' /\ s'.pc = "done"
    BY <1>1, <1>3, SenderMoves DEF GiveUp, SenderTyped
  <2>2. \A p : Closing(p) => Closing(p)'
    BY <2>1 DEF Closing
  <2> QED BY <1>1, <1>2, <1>3, <2>2, LeftKept
<1>4. CASE s.pc = "nameResp" /\ IsDir(s.idx) /\ NextFile("sent", obj)
  <2>1. s'.pc = (IF Last(s.idx) THEN "done" ELSE "name") /\ s.idx \in Entry
    BY <1>1, <1>4, SenderMoves
  <2>2. ASSUME NEW p, Closing(p) PROVE Closing(p)'
    <3>1. p = NameOf(s.idx)
      BY <1>4, <2>2 DEF Closing
    <3>2. Last(s.idx) => p.stop
      BY <1>4, <2>1, <3>1, OfFacts
    <3> QED BY <2>1, <3>2 DEF Closing
  <2> QED BY <1>1, <1>2, <1>4, <2>2, LeftKept
<1>5. CASE MovesTo("md5") \/ MovesTo("block")
  <2>1. s'.pc \in {"md5", "block"} /\ verdict' = verdict
    BY <1>1, <1>5, SenderMoves
  <2>2. \A p : Closing(p) => Closing(p)'
    BY <2>1 DEF Closing
  <2> QED BY <1>1, <1>2, <2>1, <2>2, LeftKept
<1>6. CASE s.pc = "md5Resp" /\ Received({"OK"}) /\ NextFile("skipped", obj)
  <2>1. /\ s'.pc = (IF Last(s.idx) THEN "done" ELSE "name")
        /\ Last(s.idx) => verdict'[N - 1] = "skipped"
    BY <1>1, <1>6, SenderMoves
  <2>2. \A p : Closing(p) => Closing(p)'
    BY <2>1 DEF Closing
  <2>3. CASE ~ Last(s.idx)
    BY <1>1, <1>2, <1>6, <2>2, <2>3, LeftKept
  <2>4. CASE Last(s.idx)
    <3>1. ToPeer => RelayLeft'
      BY <1>1, <1>6, <2>1, <2>4, LeftBegins
    <3> QED BY <1>2, <2>2, <3>1 DEF RelayLeft
  <2> QED BY <2>3, <2>4
<1>7. CASE s.pc = "blockResp" /\ NextFile("sent", obj)
  <2>1. s'.pc = (IF Last(s.idx) THEN "done" ELSE "name")
    BY <1>1, <1>7, SenderMoves
  <2>2. \A p : Closing(p) => Closing(p)'
    BY <1>7, <2>1 DEF Closing
  <2> QED BY <1>1, <1>2, <1>7, <2>2, LeftKept
<1> QED BY <1>3, <1>4, <1>5, <1>6, <1>7
        DEF recv_name_resp, recv_md5_resp, recv_block_resp, MovesTo, Orderly

-----------------------------------------------------------------------------
LEMMA RelaySenderStep ==
  ASSUME Orderly, RelayInv, send_files_by_put_req
  PROVE  RelayInv'
<1>1. OrderlyInv /\ QueuesTyped /\ SenderFrame /\ ~ nonblock /\ relay' = relay
  BY InStepFacts DEF RelayInv, OrderlyInv, send_files_by_put_req, SenderFrame
<1>2. OrderlyInv'
  BY <1>1, OrderlySenderStep
<1>3. ~ recv_no_resp
  BY <1>1 DEF recv_no_resp
<1>4. (ToPeer => RelayAt') /\ RelayLeft'
  BY <1>1, <1>3, ClosingSenderSends, ClosingSenderTakes DEF send_files_by_put_req
<1>5. req'[2] = req[2] /\ resp'[2] = resp[2]
  <2>1. req' = req \/ \E p : req' = [req EXCEPT ![1] = Append(req[1], p)]
    BY <1>3 DEF send_files_by_put_req, send_file_name_by_put_req, recv_name_resp,
                send_file_md5_by_put_req, recv_md5_resp, send_file_content_by_put_req,
                recv_block_resp, Send
  <2>2. resp' = resp \/ resp' = [resp EXCEPT ![1] = Tail(resp[1])]
    BY <1>3 DEF send_files_by_put_req, send_file_name_by_put_req, recv_name_resp,
                send_file_md5_by_put_req, recv_md5_resp, send_file_content_by_put_req,
                recv_block_resp, Received
  <2> QED BY <1>1, <2>1, <2>2 DEF QueuesTyped
<1> QED BY <1>1, <1>2, <1>4, <1>5, WaitsKept DEF RelayInv

\* The relay and the receiver do nothing more when the last file was unchanged.
LEMMA LeftStays ==
  ASSUME RelayInv, s' = s, verdict' = verdict,
         \/ relay.pc # "recv" \/ Stream # << >> \/ Answers # << >>
  PROVE  RelayLeft'
<1>1. ~ (ToPeer /\ verdict[N - 1] = "skipped")
  BY DEF RelayInv, RelayLeft
<1> QED BY <1>1 DEF RelayLeft

LEMMA StreamSome ==
  ASSUME QueuesTyped, req[1] # << >> \/ req[2] # << >>
  PROVE  Stream # << >>
BY StreamTyped, ConcatEmpty DEF Stream

LEMMA RelayForwardStep ==
  ASSUME Orderly, RelayInv, ToPeer, RelayFrame, req[1] # << >>, Forward(Head(req[1])), relay.pc # "resp"
  PROVE  RelayWaits' /\ RelayAt' /\ RelayLeft'
<1>1. /\ QueuesTyped /\ RelayAt /\ s' = s /\ verdict' = verdict /\ size' = size
  BY InStepFacts DEF RelayInv, RelayFrame
<1>2. RelayWaits'
  BY RelayWaitsForward
<1>3. RelayLeft'
  BY <1>1, StreamSome, LeftStays
<1>4. PICK u \in Seq(Packet) : u = req[1]
  BY <1>1, StreamTyped
<1>5. PICK p \in Packet : p = Head(u)
  BY <1>1, <1>4, StreamForward DEF Forward
<1>6. /\ relay' = [pc |-> IF p.reply THEN "resp" ELSE AfterPacket(p), pkt |-> p]
      /\ req'[1] = Tail(u) /\ p.stop \in BOOLEAN
  BY <1>1, <1>4, <1>5, StreamForward, PacketFields DEF Forward
<1>7. relay'.pkt = p /\ (relay'.pc = "recv" => ~ p.stop)
  BY <1>6 DEF AfterPacket, Orderly
<1>8. PICK x, y : x = Tail(u) /\ y = u[Len(u)]
  OBVIOUS
<1>9. IF x = << >> THEN y = p ELSE y = x[Len(x)]
  <2>1. /\ Len(u) \in Nat /\ Len(u) > 0 /\ Head(u) = u[1] /\ Len(x) = Len(u) - 1
        /\ (\A k \in 1 .. Len(x) : x[k] = u[k + 1]) /\ (Len(x) = 0 <=> x = << >>)
    BY <1>4, <1>8, TailFacts
  <2>2. x = << >> => Len(u) = 1
    BY <2>1
  <2>3. x # << >> => Len(x) \in 1 .. Len(x) /\ Len(x) + 1 = Len(u)
    BY <2>1
  <2> QED BY <1>5, <1>8, <2>1, <2>2, <2>3
<1>10. Closing(y)'
  <2>1. Closing(y)
    BY <1>1, <1>4, <1>8 DEF RelayAt
  <2> QED BY <1>1, <2>1 DEF Closing, NothingFailed, NameOf, IsDir
<1>11. IF req'[1] = << >> THEN Closing(relay.pkt)' ELSE Closing(req[1][Len(req[1])])'
  <2>1. PICK z, w : z = relay'.pkt /\ w = req'[1][Len(req'[1])]
    OBVIOUS
  <2>2. IF x = << >> THEN z = y ELSE w = y
    BY <1>6, <1>7, <1>8, <1>9, <2>1
  <2>3. IF x = << >> THEN Closing(z)' ELSE Closing(w)'
    BY <1>10, <2>2
  <2> QED BY <1>6, <1>8, <2>1, <2>3
<1> QED BY <1>2, <1>3, <1>7, <1>11 DEF RelayAt

LEMMA RelayRefuseStep ==
  ASSUME RelayInv, ToPeer, RelayFrame, relay.pc = "loop", req[1] # << >>, Refuse(Head(req[1]))
  PROVE  RelayWaits' /\ RelayAt' /\ RelayLeft'
<1>1. /\ QueuesTyped /\ RelayWaits /\ RelayRight /\ relay' = relay /\ s' = s /\ verdict' = verdict
  BY InStepFacts DEF RelayInv, OrderlyInv, IInv, RelayFrame, Refuse
<1>2. PICK p \in Packet : req[1] = << p >>
  BY <1>1 DEF RelayRight, FirstName
<1>3. /\ req' = [req EXCEPT ![1] = Tail(req[1])] /\ req \in [1 .. 2 -> Seq(Packet)]
      /\ resp' = [resp EXCEPT ![1] = Append(resp[1], Answer(Head(req[1]), "ERR"))]
      /\ resp \in [1 .. 2 -> Seq(Reply)]
  BY <1>1 DEF Refuse, QueuesTyped
<1>4. req'[1] = << >>
  <2>1. Tail(<< p >>) = << >>
    OBVIOUS
  <2> QED BY <1>2, <1>3, <2>1
<1>5. req'[2] = req[2] /\ resp'[2] = resp[2]
  BY <1>3
<1>6. RelayAt'
  BY <1>1, <1>4 DEF RelayAt
<1>7. RelayLeft'
  BY <1>1, LeftStays
<1> QED BY <1>1, <1>5, <1>6, <1>7, WaitsKept

LEMMA RelayFwdRespStep ==
  ASSUME Orderly, RelayInv, ToPeer, RelayFrame, FwdResp
  PROVE  RelayWaits' /\ RelayAt' /\ RelayLeft'
<1>1. /\ QueuesTyped /\ RelayAt /\ RelayTyped /\ s' = s /\ verdict' = verdict /\ size' = size
      /\ req' = req /\ relay.pc = "resp"
  BY InStepFacts DEF RelayInv, Typed, RelayFrame, FwdResp
<1>2. RelayWaits'
  BY RelayWaitsFwdResp
<1>3. RelayLeft'
  BY <1>1, LeftStays
<1>4. /\ relay'.pkt = relay.pkt /\ relay'.pc = AfterPacket(relay.pkt)
      /\ relay.pkt.stop \in BOOLEAN
  BY <1>1, PacketFields DEF FwdResp, RelayTyped
<1>5. relay'.pc = "recv" => ~ relay'.pkt.stop
  BY <1>4 DEF AfterPacket, Orderly
<1>6. PICK y, z : y = req[1][Len(req[1])] /\ z = relay.pkt
  OBVIOUS
<1>7. \A p : Closing(p) => Closing(p)'
  BY <1>1 DEF Closing, NothingFailed, NameOf, IsDir
<1>8. IF req[1] = << >> THEN Closing(z)' ELSE Closing(y)'
  BY <1>1, <1>6, <1>7 DEF RelayAt
<1>9. (Closing(relay.pkt)' <=> Closing(z)') /\ (Closing(req[1][Len(req[1])])' <=> Closing(y)')
  BY <1>1, <1>4, <1>6
<1> QED BY <1>1, <1>2, <1>3, <1>5, <1>8, <1>9 DEF RelayAt

LEMMA RelayRelayStep ==
  ASSUME Orderly, RelayInv, handle_fwd_put_req
  PROVE  RelayInv'
<1>1. ToPeer /\ RelayFrame /\ OrderlyInv
  BY DEF handle_fwd_put_req, RelayFrame, RelayInv
<1>2. OrderlyInv'
  BY <1>1, OrderlyRelayStep
<1>3. RelayWaits' /\ RelayAt' /\ RelayLeft'
  <2>1. CASE FwdStart
    BY <1>1, <2>1, RelayForwardStep, RelayRefuseStep DEF FwdStart
  <2>2. CASE FwdNext
    BY <1>1, <2>2, RelayForwardStep DEF FwdNext
  <2>3. CASE FwdResp
    BY <1>1, <2>3, RelayFwdRespStep
  <2> QED BY <2>1, <2>2, <2>3 DEF handle_fwd_put_req
<1> QED BY <1>2, <1>3 DEF RelayInv

\* A step that keeps the sender, the relay and hop 1 keeps the last request.
LEMMA RelayAtKept ==
  ASSUME RelayAt, relay' = relay, s' = s, verdict' = verdict, size' = size, req'[1] = req[1]
  PROVE  RelayAt'
<1>1. PICK y, z : y = req[1][Len(req[1])] /\ z = relay.pkt
  OBVIOUS
<1>2. \A p : Closing(p)' <=> Closing(p)
  BY DEF Closing, NothingFailed, NameOf, IsDir
<1>3. (Closing(relay.pkt)' <=> Closing(z)') /\ (Closing(req[1][Len(req[1])])' <=> Closing(y)')
  BY <1>1
<1> QED BY <1>1, <1>2, <1>3 DEF RelayAt

LEMMA RelayReceiverStep ==
  ASSUME Orderly, RelayInv, recv_files_from_put_req
  PROVE  RelayInv'
<1>1. OrderlyInv /\ QueuesTyped /\ ReceiverFrame
  BY InStepFacts DEF recv_files_from_put_req, ReceiverFrame, RelayInv
<1>2. size' = size /\ s' = s /\ verdict' = verdict /\ relay' = relay
  BY <1>1 DEF ReceiverFrame
<1>3. OrderlyInv'
  BY <1>1, OrderlyReceiverStep
<1>4. RelayWaits' /\ (ToPeer => req'[1] = req[1])
  BY RelayWaitsReceiver
<1>5. ToPeer => RelayAt'
  BY <1>2, <1>4, RelayAtKept DEF RelayInv
<1>6. RelayLeft'
  <2>1. req[1] # << >> \/ req[2] # << >>
    BY <1>1, ReceiverReplies DEF Hop
  <2> QED BY <1>1, <1>2, <2>1, StreamSome, LeftStays
<1> QED BY <1>3, <1>4, <1>5, <1>6 DEF RelayInv

LEMMA RelayInit == Init => RelayInv
<1> SUFFICES ASSUME Init PROVE RelayInv
  OBVIOUS
<1>1. OrderlyInv
  BY OrderlyInit
<1>2. /\ s.pc = "name" /\ relay.pc = "loop" /\ req[1] = << >> /\ req[2] = << >>
      /\ resp[2] = << >> /\ verdict = [i \in Entry |-> "none"]
  BY DEF Init
<1>3. verdict[N - 1] # "skipped"
  <2>1. N - 1 \in Entry
    BY PutAssumption DEF Entry
  <2> QED BY <1>2, <2>1
<1>4. RelayWaits
  BY <1>2, AsksFacts DEF RelayWaits
<1>5. RelayAt
  BY <1>2 DEF RelayAt
<1> QED BY <1>1, <1>3, <1>4, <1>5 DEF RelayInv, RelayLeft

LEMMA RelayNextStep ==
  ASSUME Orderly, RelayInv, [Next]_vars
  PROVE  RelayInv'
<1>1. CASE handle_port_update_req \/ notify_client_after_updating
  BY <1>1 DEF handle_port_update_req, notify_client_after_updating, Orderly
<1>2. CASE UNCHANGED vars
  <2>1. /\ relay' = relay /\ req' = req /\ resp' = resp /\ s' = s /\ verdict' = verdict
        /\ size' = size
    BY <1>2 DEF vars
  <2>2. OrderlyInv' /\ RelayWaits'
    BY <1>2, <2>1, OrderlyNextStep, WaitsKept DEF RelayInv
  <2>3. (ToPeer => RelayAt') /\ RelayLeft'
    BY <2>1, RelayAtKept DEF RelayInv, RelayLeft, Stream, Answers
  <2> QED BY <2>2, <2>3 DEF RelayInv
<1> QED BY <1>1, <1>2, RelaySenderStep, RelayRelayStep, RelayReceiverStep DEF Next, Idle

\* The invariant of the relay: it waits for an answer exactly while the peer
\* owes it one, and the last request the sender sent before it ended is still
\* on its way to the relay or is the one handle_fwd_put_req dealt with last.
THEOREM RelayKept ==
  ASSUME Orderly
  PROVE  Spec => []RelayInv
<1>1. RelayInv /\ [Next]_vars => RelayInv'
  BY RelayNextStep
<1> QED BY <1>1, RelayInit, PTL DEF Spec

LEMMA SomeoneMoves == ASSUME RelayInv PROVE NobodyStuck
<1>1. /\ QueuesTyped /\ SenderTyped /\ RelayTyped /\ RelayWaits /\ InStep(Stream, Answers)
      /\ ~ ToPeer => req[2] = << >>
  BY InStepFacts DEF RelayInv, OrderlyInv, IInv, Typed
<1> SUFFICES ASSUME s.pc \in {"nameResp", "md5Resp", "blockResp"}
             PROVE  \/ resp[1] # << >>
                    \/ req[Hop] # << >>
                    \/ ToPeer /\ \/ relay.pc \in {"loop", "recv"} /\ req[1] # << >>
                                 \/ relay.pc = "resp" /\ resp[2] # << >>
  BY <1>1 DEF NobodyStuck, SenderTyped
<1>2. ~ Ready
  BY DEF Ready
<1>3. CASE Answers # << >>
  <2>1. resp[1] # << >> \/ resp[2] # << >>
    BY <1>3 DEF Answers
  <2>2. resp[2] # << >> => ToPeer /\ relay.pc = "resp"
    BY <1>1 DEF RelayWaits
  <2> QED BY <2>1, <2>2
<1>4. CASE Answers = << >> /\ Stream # << >>
  <2>1. req[1] # << >> \/ req[2] # << >>
    BY <1>4 DEF Stream
  <2>2. CASE ToPeer /\ req[2] = << >>
    <3>1. resp[2] = << >>
      BY <1>1, <1>4, AnswersGone
    <3>2. relay.pc # "resp"
      BY <1>1, <2>2, <3>1, AsksFacts DEF RelayWaits
    <3> QED BY <1>1, <2>1, <2>2, <3>2 DEF RelayTyped
  <2> QED BY <1>1, <2>1, <2>2 DEF Hop
<1>5. Len(<< >>) = 0
  OBVIOUS
<1> QED BY <1>1, <1>2, <1>3, <1>4, <1>5 DEF InStep

\* A put of the XDR build does not get stuck, whatever the entries: until the command returns
\* the sender can send, or an answer has arrived for it, or the receiver has a
\* request it waits for, or handle_fwd_put_req has something to hand on.  With
\* the threads running this is why send_files_by_put_req comes to its end.
THEOREM PutMoves ==
  ASSUME Orderly
  PROVE  Spec => []NobodyStuck
<1>1. RelayInv => NobodyStuck
  BY SomeoneMoves
<1> QED BY <1>1, RelayKept, PTL

LEMMA RelayEnds == ASSUME RelayInv PROVE RelayFreed
<1>1. /\ QueuesTyped /\ RelayTyped /\ RelayWaits /\ (ToPeer => RelayAt)
      /\ Answers # << >> => Answered(Answers[1])
  BY InStepFacts DEF RelayInv, Typed
<1> SUFFICES ASSUME Quiet, NothingFailed, verdict[N - 1] # "skipped", ToPeer
             PROVE  relay.pc = "loop"
  BY <1>1 DEF RelayFreed, RelayWaits
<1>2. s.pc = "done" /\ req[1] = << >> /\ req[2] = << >>
  BY DEF Quiet
<1>3. Answers = << >>
  BY <1>1, <1>2 DEF Answered
<1>4. resp[2] = << >>
  BY <1>1, <1>3, AnswersGone
<1>5. relay.pc # "resp"
  BY <1>1, <1>2, <1>4, AsksFacts DEF RelayWaits
<1>6. relay.pc # "recv"
  BY <1>1, <1>2 DEF RelayAt, Closing
<1> QED BY <1>1, <1>5, <1>6 DEF RelayTyped

\* When a put of the XDR build is over, nothing has failed and the last entry
\* was sent, the server has left handle_fwd_put_req: the STOP of the last block
\* or directory has reached it, and it is not waiting for an answer.
THEOREM RelayStops ==
  ASSUME Orderly
  PROVE  Spec => []RelayFreed
<1>1. RelayInv => RelayFreed
  BY RelayEnds
<1> QED BY <1>1, RelayKept, PTL

\* When the last file was unchanged, the server stays in handle_fwd_put_req
\* even in the XDR build: it waits for a request after the md5, and the sender
\* has returned without one, with nothing under way on either connection.
THEOREM RelayStays ==
  ASSUME Orderly
  PROVE  Spec => []RelayLeft
<1>1. RelayInv => RelayLeft
  BY DEF RelayInv
<1> QED BY <1>1, RelayKept, PTL

\* In the default build the server never leaves handle_fwd_put_req once it has
\* forwarded a request: it looks for STOP in the object it has just sent, whose
\* flags put_req_raw_encode has reversed.
THEOREM RelayHeld ==
  ASSUME InPlace
  PROVE  Spec => [][relay.pc # "loop" => relay'.pc # "loop"]_vars
<1>1. ASSUME IInv, [Next]_vars PROVE [relay.pc # "loop" => relay'.pc # "loop"]_vars
  <2>1. relay \in [pc : {"loop", "recv", "resp"}, pkt : Packet]
    BY <1>1 DEF IInv, Typed, RelayTyped
  <2>2. CASE handle_fwd_put_req
    <3>1. CASE FwdStart
      BY <3>1 DEF FwdStart
    <3>2. CASE FwdNext
      BY <3>2 DEF FwdNext, Forward, AfterPacket
    <3>3. CASE FwdResp
      BY <2>1, <3>3 DEF FwdResp, AfterPacket
    <3> QED BY <2>2, <3>1, <3>2, <3>3 DEF handle_fwd_put_req
  <2>3. CASE relay' = relay
    BY <2>3
  <2> QED BY <1>1, <2>2, <2>3 DEF Next, Idle, vars, send_files_by_put_req,
             handle_port_update_req, notify_client_after_updating, recv_files_from_put_req
<1> QED BY <1>1, PutKept, PTL DEF Spec
=============================================================================
