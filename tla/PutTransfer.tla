----------------------------- MODULE PutTransfer -----------------------------
(***************************************************************************)
(* The put command: src/file_send.c (the *_by_put_req functions), the      *)
(* receiving side in src/file_recv.c (the *_from_put_req functions) with   *)
(* the packet loop it is called from (server.c, and client.c for a peer),  *)
(* and the server's relay handle_fwd_put_req between two clients.          *)
(*                                                                         *)
(* A put to the server has one hop: sender -> receiver.  A put to a peer   *)
(* has two: sender -> relay -> receiver.  A hop is a TCP connection: a     *)
(* queue of PUT_REQ packets one way and of PUT_RESP packets the other way. *)
(* Every request is the same C structure with the same packet type: what   *)
(* it means follows only from the order of the packets.  The fields kind,  *)
(* off and the answer's "to" are what the sender meant; the code never     *)
(* reads them, the model uses them for the content of a packet and to      *)
(* state the properties.                                                   *)
(*                                                                         *)
(* A file of the receiver is described by its number of leading bytes that *)
(* are the sender's: it is the sender's file when that is the whole size.  *)
(* The md5 of a file is the file's content (no collisions).                *)
(*                                                                         *)
(* The sender fills one put_req object and sends it again and again.  The  *)
(* XDR codec copies it; the raw codec, the default build, turns its        *)
(* integers into network order in place, so on a little-endian host a      *)
(* field that is not assigned again goes out reversed the next time, and   *)
(* what the code reads from the object after a send is reversed too:       *)
(* InPlace.  An int has two bytes here.                                    *)
(***************************************************************************)
(* A server that moves to a new port announces it on every task connection *)
(* of every client, one that a put is using included.                      *)
(***************************************************************************)
EXTENDS Integers, Sequences

CONSTANTS
    N,              \* entries sent: total_files
    B,              \* CONTENT_BLOCK_SIZE
    Sizes,          \* sizes a file to send may have
    NameLen,        \* this_size of a name packet
    Md5Len,         \* this_size of an md5 packet
    IntMax,         \* the largest C int: total_size is an int on the receiver
    Byte,           \* values of a byte; an int has two
    InPlace,        \* the raw codec on a little-endian host
    Garbage,        \* values of an int read behind the end of an object
    ToPeer,         \* put to a peer, through the relay, or to the server
    NonBlocking,    \* the receiver's socket is non-blocking
    PortUpdate,     \* the server's port may move during the put
    Fault           \* file system calls may fail

ASSUME PutAssumption ==
    /\ N \in Nat \ {0} /\ B \in Nat \ {0} /\ Sizes \subseteq Nat
    /\ NameLen \in Nat /\ Md5Len \in Nat /\ IntMax \in Nat
    /\ N <= IntMax /\ Byte \in Nat \ {0} /\ InPlace \in BOOLEAN
    /\ Garbage \subseteq Nat
    /\ ToPeer \in BOOLEAN /\ NonBlocking \in BOOLEAN
    /\ PortUpdate \in BOOLEAN /\ Fault \in BOOLEAN

ASSUME ByteAssumption == Byte * Byte = 2 * (IntMax + 1)

Entry == 0 .. N - 1
Dir == -1           \* as a size: FILE_TYPE_DIR
Absent == -2        \* as a content: no such file
Other == -1         \* as a content: not a prefix of the sender's file
Junk == -1          \* as an entry: a file name that is not one of the list
NotYet == -1        \* as an update: the server's port has not moved
Taken == -2         \* as an update: the peer has read the announcement

VARIABLES
    size,       \* size[i]: the size of entry i, or Dir
    disk,       \* disk[i]: what the receiver's file system has for entry i
    s,          \* the sender: pc, entry of the list, bytes read
    obj,        \* its put_req: total_files, file_idx, total_size; and is_last
    nonblock,   \* the sender's socket is non-blocking
    verdict,    \* verdict[i]: what the sender concluded about entry i
    relay,      \* the relay: pc and the request in hand
    r,          \* the receiver: pc, rp, md5, whether file_idx is the last,
                \* recv_size, total_size
    req,        \* req[h]: requests under way on hop h
    update,     \* requests ahead of a PORT_UPDATE_REQ on the peer's connection
    resp,       \* resp[h]: answers under way on hop h
    stored      \* entries the receiver reported as received

vars == <<size, disk, s, obj, nonblock, verdict, relay, r, req, update, resp,
          stored>>

Hop == IF ToPeer THEN 2 ELSE 1          \* the receiver's hop
IsDir(i) == size[i] = Dir
Last(i) == i = N - 1

UInt == 2 * (IntMax + 1)
AsInt(u) == IF u > IntMax THEN u - UInt ELSE u
htonl(u) == (u % Byte) * Byte + u \div Byte

(* The long file size is cut to a u_int in the packet and read as an int.  *)
(* A directory's, the end offset of its stream, is all ones on ext4: -1.   *)
WireSize(n) == AsInt(n % UInt)

(* file_idx == total_files - 1, on the sender and on the receiver.         *)
LastFile(o) == (o.file_idx + 1) % UInt = o.total_files

(* Mutant: XDR converts the object in place as well.                       *)
AfterSendReversed(o) ==
    [o EXCEPT !.total_files = htonl(@), !.file_idx = htonl(@),
              !.total_size = htonl(@)]

(* The object after a send.  The fields left out are assigned before every *)
(* send, or are only compared with what their reversal does not change     *)
(* (to_peer and need_reply with 0, the type of a file with FILE_TYPE_DIR). *)
AfterSend(o) ==
    IF InPlace
    THEN [o EXCEPT !.total_files = htonl(@), !.file_idx = htonl(@),
                   !.total_size = htonl(@)]
    ELSE o

(* What the receiver reads: it reverses again what was reversed to send.   *)
NamePacket(i, o) ==
    [kind |-> "name", idx |-> i, off |-> 0, n |-> NameLen, reply |-> TRUE,
     stop |-> o.is_last /\ IsDir(i), last |-> LastFile(o),
     total |-> AsInt(o.total_size)]
Md5Packet(i, o) ==
    [kind |-> "md5", idx |-> i, off |-> 0, n |-> Md5Len, reply |-> TRUE,
     stop |-> FALSE, last |-> LastFile(o), total |-> AsInt(o.total_size)]

BlockPacket(i, off, n, eof, o) ==
    [kind |-> "block", idx |-> i, off |-> off, n |-> n,
     reply |-> o.is_last /\ eof, stop |-> o.is_last /\ eof,
     last |-> LastFile(o), total |-> AsInt(o.total_size)]

(* A PORT_UPDATE_REQ, where an answer is given to it.                      *)
Announcement == [kind |-> "update", idx |-> Junk]

Answer(p, status) == [status |-> status, to |-> p]

TypeOK ==
    LET Packet == [kind : {"name", "md5", "block"}, idx : Entry, off : Nat,
                   n : Nat, reply : BOOLEAN, stop : BOOLEAN,
                   last : BOOLEAN, total : Int]
        Reply == [status : {"OK", "CONT", "ERR"},
                  to : Packet \union {Announcement}]
    IN  /\ size \in [Entry -> Sizes \union {Dir}]
        /\ disk \in [Entry -> Int]
        /\ \A i \in Entry : disk[i] \in {Absent, Other} \union Nat
                            /\ (IsDir(i) => disk[i] \in {Absent, 0})
        /\ s \in [pc : {"name", "nameResp", "md5", "md5Resp", "block",
                        "blockResp", "done"},
                  idx : 0 .. N, off : Nat]
        /\ s.pc # "done" => s.idx \in Entry
        /\ obj \in [total_files : Nat, file_idx : Nat, total_size : Nat,
                    is_last : BOOLEAN]
        /\ nonblock \in BOOLEAN
        /\ verdict \in [Entry -> {"none", "skipped", "sent", "failed"}]
        /\ relay \in [pc : {"loop", "recv", "resp"}, pkt : Packet]
        /\ r \in [pc : {"loop", "next", "md5", "block", "moved"},
                  name : Entry \union {Junk}, md5 : Entry \union {Junk},
                  last : BOOLEAN, got : Nat, total : Int]
        /\ req \in [1 .. 2 -> Seq(Packet)]
        /\ update \in {NotYet, Taken} \union Nat
        /\ resp \in [1 .. 2 -> Seq(Reply)]
        /\ stored \subseteq Entry

Init ==
    /\ size \in [Entry -> Sizes \union {Dir}]
    /\ disk \in {d \in [Entry -> Sizes \union {Absent, Other, 0}] :
                   \A i \in Entry : d[i] \in IF IsDir(i) THEN {Absent, 0}
                                             ELSE {Absent, Other, size[i]}}
    /\ s = [pc |-> "name", idx |-> 0, off |-> 0]
    /\ nonblock = FALSE
    /\ verdict = [i \in Entry |-> "none"]
    /\ obj = [total_files |-> N, file_idx |-> 0, total_size |-> 0,
              is_last |-> FALSE]
    /\ relay = [pc |-> "loop", pkt |-> NamePacket(0, obj)]
    /\ r = [pc |-> "loop", name |-> Junk, md5 |-> Junk, last |-> FALSE,
            got |-> 0, total |-> 0]
    /\ req = [h \in 1 .. 2 |-> <<>>]
    /\ update = NotYet
    /\ resp = [h \in 1 .. 2 |-> <<>>]
    /\ stored = {}

------------------------------------------------------------------------------
(* The sender: send_files_by_put_req and what it calls.                    *)

Send(p) == req' = [req EXCEPT ![1] = Append(@, p)]

(* Takes the next answer of the hop.                                       *)
Received(status) ==
    /\ resp[1] # <<>>
    /\ Head(resp[1]).status \in status
    /\ resp' = [resp EXCEPT ![1] = Tail(@)]

(* Mutant: the list is advanced twice.                                     *)
NextFileTwice(v, o) ==
    /\ verdict' = [verdict EXCEPT ![s.idx] = v]
    /\ obj' = [o EXCEPT !.file_idx = (@ + 2) % UInt]
    /\ s' = [pc |-> IF s.idx + 2 >= N THEN "done" ELSE "name",
             idx |-> s.idx + 2, off |-> 0]

(* send_file_by_put_req returns 0, the object being o: send_dir_by_put_req *)
(* goes on along its list.                                                 *)
NextFile(v, o) ==
    /\ verdict' = [verdict EXCEPT ![s.idx] = v]
    /\ obj' = [o EXCEPT !.file_idx = (@ + 1) % UInt]
    /\ s' = [pc |-> IF Last(s.idx) THEN "done" ELSE "name",
             idx |-> s.idx + 1, off |-> 0]

(* It returns -1: send_dir_by_put_req breaks out of its loop.              *)
GiveUp ==
    /\ verdict' = [verdict EXCEPT ![s.idx] = "failed"]
    /\ s' = [s EXCEPT !.pc = "done"]
    /\ UNCHANGED obj

(* is_last and total_size are set before the name of an entry is sent.     *)
NewEntry(o) ==
    [o EXCEPT !.is_last = LastFile(o), !.total_size = size[s.idx] % UInt]

send_file_name_by_put_req ==
    /\ s.pc = "name"
    /\ Send(NamePacket(s.idx, NewEntry(obj)))
    /\ obj' = AfterSend(NewEntry(obj))
    /\ s' = [s EXCEPT !.pc = "nameResp"]
    /\ UNCHANGED <<verdict, resp>>

recv_name_resp ==
    /\ s.pc = "nameResp"
    /\ \/ Received({"CONT", "ERR"}) /\ GiveUp
       \/ Received({"OK"}) /\ IsDir(s.idx) /\ NextFile("sent", obj)
       \/ Received({"OK"}) /\ ~IsDir(s.idx)
          /\ s' = [s EXCEPT !.pc = "md5"] /\ UNCHANGED <<obj, verdict>>
    /\ UNCHANGED req

(* total_size is not assigned again.                                       *)
send_file_md5_by_put_req ==
    /\ s.pc = "md5"
    /\ \/ /\ Send(Md5Packet(s.idx, obj))
          /\ obj' = AfterSend(obj)
          /\ s' = [s EXCEPT !.pc = "md5Resp"]
          /\ UNCHANGED verdict
       \/ Fault /\ GiveUp /\ UNCHANGED req              \* md5_file failed
    /\ UNCHANGED resp

recv_md5_resp ==
    /\ s.pc = "md5Resp"
    /\ \/ Received({"OK"}) /\ NextFile("skipped", obj)  \* "file not changed"
       \/ Received({"CONT", "ERR"})
          /\ \/ /\ s' = [s EXCEPT !.pc = "block"]
                /\ obj' = [obj EXCEPT !.total_size = size[s.idx] % UInt]
                /\ UNCHANGED verdict
             \/ Fault /\ GiveUp                         \* fopen failed
    /\ UNCHANGED req

(* One round of while (!feof(fp)): a short read is what sets feof.         *)
send_file_content_by_put_req ==
    /\ s.pc = "block"
    /\ LET left == size[s.idx] - s.off
           n == IF left < B THEN left ELSE B
           eof == n < B
           p == BlockPacket(s.idx, s.off, n, eof, obj)
       IN  /\ Send(p)
           /\ \/ ~eof /\ s' = [s EXCEPT !.off = @ + n]
                 /\ obj' = AfterSend(obj) /\ UNCHANGED verdict
              \/ eof /\ p.reply /\ s' = [s EXCEPT !.pc = "blockResp"]
                 /\ obj' = AfterSend(obj) /\ UNCHANGED verdict
              \/ eof /\ ~p.reply /\ NextFile("sent", AfterSend(obj))
    /\ UNCHANGED resp

(* A status other than RESP_OK only leaves the loop, which feof ends too.  *)
recv_block_resp ==
    /\ s.pc = "blockResp"
    /\ Received({"OK", "CONT", "ERR"})
    /\ NextFile("sent", obj)
    /\ UNCHANGED req

(* recv_sftt_packet returns -1 with EAGAIN: the file has failed.           *)
recv_no_resp ==
    /\ nonblock
    /\ s.pc \in {"nameResp", "md5Resp", "blockResp"}
    /\ resp[1] = <<>>
    /\ GiveUp
    /\ UNCHANGED <<req, resp>>

send_files_by_put_req ==
    /\ \/ send_file_name_by_put_req \/ recv_name_resp
       \/ send_file_md5_by_put_req \/ recv_md5_resp
       \/ send_file_content_by_put_req \/ recv_block_resp
       \/ recv_no_resp
    /\ UNCHANGED <<size, disk, nonblock, relay, r, update, stored>>

(* A task handler of the sender's client moves its connection to the new   *)
(* port and then makes the main socket, not its own, non-blocking.         *)
handle_port_update_req ==
    /\ PortUpdate
    /\ ~nonblock
    /\ nonblock' = TRUE
    /\ UNCHANGED <<size, disk, s, obj, verdict, relay, r, req, update, resp,
                   stored>>

(* The update thread of the server announces the new port on the peer's    *)
(* task connection, which the put is using, behind what is under way.      *)
(* Once per put: the bound of the model.                                   *)
notify_client_after_updating ==
    /\ PortUpdate /\ ToPeer
    /\ update = NotYet
    /\ relay.pc # "loop" \/ req[2] # <<>> \/ r.pc # "loop"
    /\ update' = Len(req[2])
    /\ UNCHANGED <<size, disk, s, obj, nonblock, verdict, relay, r, req, resp,
                   stored>>

------------------------------------------------------------------------------
(* The relay: handle_fwd_put_req on the server, both sockets blocking.     *)

(* Mutant: the relay does not look at STOP.                                *)
AfterPacketNoStop(p) == "recv"

(* After a request has been dealt with: STOP ends the forwarding.  It is   *)
(* looked for in the object just sent on: reversed, it is not found.       *)
AfterPacket(p) == IF p.stop /\ ~InPlace THEN "loop" ELSE "recv"

Forward(p) ==
    /\ req' = [req EXCEPT ![1] = Tail(@), ![2] = Append(@, p)]
    /\ relay' = [pc |-> IF p.reply THEN "resp" ELSE AfterPacket(p), pkt |-> p]
    /\ UNCHANGED resp

(* Mutant: the relay drops a request it cannot forward.                    *)
RefuseSilently(p) ==
    /\ req' = [req EXCEPT ![1] = Tail(@)]
    /\ UNCHANGED <<resp, relay>>

(* check_user failed, or the peer has no free task connection.             *)
Refuse(p) ==
    /\ req' = [req EXCEPT ![1] = Tail(@)]
    /\ resp' = [resp EXCEPT ![1] = Append(@, Answer(p, "ERR"))]
    /\ UNCHANGED relay

FwdStart ==
    /\ relay.pc = "loop" /\ req[1] # <<>>
    /\ Forward(Head(req[1])) \/ Refuse(Head(req[1]))

FwdNext ==
    /\ relay.pc = "recv" /\ req[1] # <<>>
    /\ Forward(Head(req[1]))

FwdResp ==
    /\ relay.pc = "resp" /\ resp[2] # <<>>
    /\ resp' = [resp EXCEPT ![2] = Tail(@), ![1] = Append(@, Head(resp[2]))]
    /\ relay' = [relay EXCEPT !.pc = AfterPacket(relay.pkt)]
    /\ UNCHANGED req

handle_fwd_put_req ==
    /\ ToPeer
    /\ FwdStart \/ FwdNext \/ FwdResp
    /\ UNCHANGED <<size, disk, s, obj, nonblock, verdict, r, update, stored>>

------------------------------------------------------------------------------
(* The receiver: the packet loop, recv_files_from_put_req and              *)
(* recv_file_from_put_req.                                                 *)

Next_packet == Head(req[Hop])

Take(answers) ==
    /\ req' = [req EXCEPT ![Hop] = Tail(@)]
    /\ resp' = [resp EXCEPT ![Hop] = @ \o answers]

(* The values same_file can return.  An entry's file has the md5 of an     *)
(* entry if it is that entry's content, or if both are empty; a file that  *)
(* is not of the list (Junk) is unrelated or, just created, empty.         *)
same_file(name, md5, d) ==
    CASE md5 = Junk                    -> {FALSE}
      [] md5 # Junk /\ name = Junk     -> IF size[md5] = 0 THEN BOOLEAN
                                         ELSE {FALSE}
      [] md5 # Junk /\ name # Junk     ->
           {d[name] = size[md5] /\ (md5 = name \/ d[name] = 0)}

(* recv_one_file_done: has_more, and whether another name is awaited.      *)
FileDone(name, last) ==
    /\ r' = [r EXCEPT !.pc = IF last THEN "loop" ELSE "next",
                      !.name = name, !.last = last]
    /\ stored' = stored \union ({name} \ {Junk})

(* recv_file_from_put_req returns -1: recv_files_from_put_req returns to   *)
(* the packet loop.                                                        *)
FileFailed ==
    /\ r' = [r EXCEPT !.pc = "loop"]
    /\ UNCHANGED stored

(* A request read as a file name.  Its file_idx and type are the sender's, *)
(* its path is its content: a path of the list if it was sent as a name.   *)
RecvName ==
    LET p == Next_packet
        i == p.idx
        name == IF p.kind = "name" THEN i ELSE Junk
    IN
    /\ r.pc \in {"loop", "next"}
    /\ \/ /\ IsDir(i)
          /\ \/ disk' = [disk EXCEPT ![i] = 0]
             \/ Fault /\ UNCHANGED disk             \* mkdirp failed: ignored
          /\ Take(<<Answer(p, "OK")>>)
          /\ FileDone(name, p.last)
       \/ /\ ~IsDir(i)
          /\ disk' = IF name # Junk /\ disk[i] = Absent
                     THEN [disk EXCEPT ![i] = 0] ELSE disk
          /\ Take(<<Answer(p, "OK")>>)
          /\ r' = [r EXCEPT !.pc = "md5", !.name = name, !.last = p.last]
          /\ UNCHANGED stored
       \/ /\ ~IsDir(i)
          /\ name # Junk => Fault /\ disk[i] = Absent   \* create failed
          /\ Take(<<Answer(p, "ERR")>>)
          /\ FileFailed
          /\ UNCHANGED disk

(* The request after a name, read as the md5.                              *)
RecvMd5 ==
    LET p == Next_packet
        md5 == IF p.kind = "md5" THEN p.idx ELSE Junk
        trunc == IF r.name = Junk THEN disk ELSE [disk EXCEPT ![r.name] = 0]
    IN
    /\ r.pc = "md5"
    /\ \E same \in same_file(r.name, md5, disk) :
         \/ /\ same
            /\ Take(<<Answer(p, "OK")>>)
            /\ FileDone(r.name, r.last)
            /\ UNCHANGED disk
         \/ /\ ~same
            /\ Take(<<Answer(p, "CONT")>>)
            /\ \/ /\ r' = [r EXCEPT !.pc = "block", !.md5 = md5, !.got = 0,
                                    !.total = p.total]
                  /\ disk' = trunc
                  /\ UNCHANGED stored
               \/ Fault /\ FileFailed /\ UNCHANGED disk  \* fopen failed

(* Mutant: only the size is checked.                                       *)
CheckFileSize(got, d) ==
    IF got = r.total THEN FileDone(r.name, r.last) ELSE FileFailed

(* After the do ... while of the blocks: the size and md5 checks.          *)
CheckFile(got, d) ==
    \E same \in same_file(r.name, r.md5, d) :
      IF got = r.total /\ same THEN FileDone(r.name, r.last) ELSE FileFailed

(* Mutant: one block too many is awaited.                                  *)
MoreBlocksOffByOne(got) == got <= r.total

(* The condition of the loop over the blocks.                              *)
MoreBlocks(got) == got < r.total

(* A request read as a block.  It is appended to the file; the file stays  *)
(* a prefix of the sender's if it is that file's next block.  Under Fault  *)
(* fwrite may fail, its result is not looked at.                           *)
RecvBlock ==
    LET p == Next_packet
        got == r.got + p.n
        right == p.kind = "block" /\ p.idx = r.name /\ p.off = disk[r.name]
        write == IF r.name = Junk \/ p.n = 0 THEN disk
                 ELSE [disk EXCEPT ![r.name] = IF right THEN @ + p.n ELSE Other]
        broken == IF r.name = Junk THEN disk
                  ELSE [disk EXCEPT ![r.name] = Other]
    IN
    /\ r.pc = "block"
    /\ disk' = write \/ (Fault /\ p.n > 0 /\ disk' = broken)
    /\ Take(IF p.reply THEN <<Answer(p, "OK")>> ELSE <<>>)
    /\ IF MoreBlocks(got) THEN r' = [r EXCEPT !.got = got] /\ UNCHANGED stored
                          ELSE CheckFile(got, disk')

(* recv_sftt_packet returns -1 with EAGAIN on a non-blocking socket.       *)
NoPacket ==
    /\ NonBlocking
    /\ req[Hop] = <<>> /\ update # 0
    /\ \/ r.pc \in {"next", "md5"} /\ FileFailed
       \/ r.pc = "block" /\ CheckFile(r.got, disk)
    /\ UNCHANGED <<disk, req, resp>>

(* The announcement of the new port is next on the connection.  The packet *)
(* loop knows what it is: the connection is closed and made again at the   *)
(* new port, where the model stops.  Inside a put every packet is read as  *)
(* a put_req, without a look at its type: this one is shorter, and what is *)
(* read of it is what the memory behind it holds (a this_size beyond an    *)
(* int would make fwrite leave the memory: that crash is left out).        *)
RecvUpdate ==
    /\ update = 0
    /\ update' = Taken
    /\ UNCHANGED req
    /\ \/ /\ r.pc = "loop"
          /\ r' = [r EXCEPT !.pc = "moved"]
          /\ UNCHANGED <<disk, resp, stored>>
       \/ /\ r.pc = "next"                           \* as a name
          /\ \E last \in BOOLEAN :
               \/ /\ resp' = [resp EXCEPT ![Hop] = Append(@, Answer(Announcement, "OK"))]
                  /\ \/ FileDone(Junk, last)
                     \/ /\ r' = [r EXCEPT !.pc = "md5", !.name = Junk, !.last = last]
                        /\ UNCHANGED stored
               \/ /\ resp' = [resp EXCEPT ![Hop] = Append(@, Answer(Announcement, "ERR"))]
                  /\ FileFailed
          /\ UNCHANGED disk
       \/ /\ r.pc = "md5"                            \* as an md5
          /\ resp' = [resp EXCEPT ![Hop] = Append(@, Answer(Announcement, "CONT"))]
          /\ \/ /\ \E g \in Garbage :
                    r' = [r EXCEPT !.pc = "block", !.md5 = Junk, !.got = 0,
                                   !.total = AsInt(g)]
                /\ disk' = IF r.name = Junk THEN disk
                           ELSE [disk EXCEPT ![r.name] = 0]
                /\ UNCHANGED stored
             \/ Fault /\ FileFailed /\ UNCHANGED disk
       \/ /\ r.pc = "block"                          \* as a block
          /\ \E n \in {g \in Garbage : g <= IntMax} :
               /\ disk' = IF r.name = Junk \/ n = 0 THEN disk
                          ELSE [disk EXCEPT ![r.name] = Other]
               /\ IF MoreBlocks(r.got + n)
                  THEN r' = [r EXCEPT !.got = @ + n] /\ UNCHANGED stored
                  ELSE CheckFile(r.got + n, disk')
          /\ \/ UNCHANGED resp
             \/ resp' = [resp EXCEPT ![Hop] = Append(@, Answer(Announcement, "OK"))]

recv_files_from_put_req ==
    /\ \/ /\ req[Hop] # <<>> /\ update # 0
          /\ RecvName \/ RecvMd5 \/ RecvBlock
          /\ update' = IF update > 0 THEN update - 1 ELSE update
       \/ NoPacket /\ UNCHANGED update
       \/ RecvUpdate
    /\ UNCHANGED <<size, s, obj, nonblock, verdict, relay>>

Quiet == s.pc = "done" /\ \A h \in 1 .. 2 : req[h] = <<>>

(* Nothing is left to do: the command has returned on the client, or the   *)
(* peer has left its connection.                                           *)
Idle == (Quiet \/ r.pc = "moved") /\ UNCHANGED vars

Next ==
    \/ send_files_by_put_req
    \/ handle_port_update_req
    \/ notify_client_after_updating
    \/ handle_fwd_put_req
    \/ recv_files_from_put_req
    \/ Idle

Spec == Init /\ [][Next]_vars

(* Each of the three is a running thread, TCP delivers what was sent.      *)
Fairness ==
    /\ WF_vars(send_files_by_put_req)
    /\ WF_vars(handle_fwd_put_req)
    /\ WF_vars(recv_files_from_put_req)

FairSpec == Spec /\ Fairness

------------------------------------------------------------------------------
(* Properties.                                                             *)

(* Every request the receiver takes is taken for what the sender sent it   *)
(* for: a name when it waits for a name, the md5 of the file just named,   *)
(* and that file's next block.  Every answer the sender takes, through the *)
(* relay or not, is the answer to the request it is waiting on.  It needs  *)
(* a codec that leaves the sender's object alone: with the raw one the md5 *)
(* packet carries a reversed total_size (recv_file_from_put_req).          *)
PacketsUnderstood ==
    /\ req[Hop] # <<>> =>
         LET p == Head(req[Hop]) IN
         \/ r.pc \in {"loop", "next"} /\ p.kind = "name"
         \/ r.pc = "md5" /\ p.kind = "md5" /\ p.idx = r.name
         \/ r.pc = "block" /\ p.kind = "block" /\ p.idx = r.name /\ p.off = r.got
    /\ resp[1] # <<>> =>
         LET p == Head(resp[1]).to IN
         /\ p.idx = s.idx
         /\ p.kind = CASE s.pc = "nameResp" -> "name" [] s.pc = "md5Resp" -> "md5"
                       [] s.pc = "blockResp" -> "block" [] OTHER -> "none"

Whole(i) == disk[i] = IF IsDir(i) THEN 0 ELSE size[i]

(* Once a put that reported no failure is over and its packets are taken,  *)
(* the receiver has every entry as the sender has it; also for such a      *)
(* codec only (send_files_by_put_req, recv_files_from_put_req).            *)
AllStored ==
    Quiet /\ (\A i \in Entry : verdict[i] # "failed") => \A i \in Entry : Whole(i)

(* A file the receiver accepted has the sender's content, whatever failed  *)
(* and however the two got out of step: the md5 check catches it.          *)
NoSilentCorruption ==
    \A i \in stored : ~IsDir(i) => Whole(i)

(* The put stores the entries whole and in order.                          *)
Abstract == INSTANCE FileCopy WITH copied <- {i \in stored : Whole(i)}

RefinesFileCopy == Abstract!CopySpec

(* The put command returns, whatever failed, was lost or was taken for     *)
(* something else; unless the peer left its connection during the put.     *)
PutEnds == <>(s.pc = "done" \/ r.pc = "moved")

(* The relay stops forwarding, and returns the peer's connection, when the *)
(* put is over; not so when the sender failed or the last file was skipped *)
(* as unchanged, because STOP comes only with the last block or directory, *)
(* and not with the raw codec (handle_fwd_put_req).                        *)
RelayReturns ==
    relay.pc # "loop" ~> \/ relay.pc = "loop"
                         \/ \E i \in Entry : verdict[i] = "failed"
                         \/ verdict[N - 1] = "skipped"
=============================================================================
