----------------------------- MODULE Transport -----------------------------
(***************************************************************************)
(* One direction of one TCP connection: a sender that fills in one object  *)
(* and sends it up to MaxSends times (a put request, a listing, a sequence *)
(* of responses), the byte stream, and the receiver (src/net_trans.c with  *)
(* the receive loop of handle_client_session, src/server.c).               *)
(*                                                                         *)
(* Memory is modelled by byte order: the bytes of a short or int lie in    *)
(* the order of the host that reads them right, or reversed.  A header is  *)
(* HeaderLen bytes, a content ContentLen, and the stream is counted: byte  *)
(* i of the stream belongs to packet (i - 1) \div PacketLen + 1.           *)
(*                                                                         *)
(* Three kinds of link, by which of its ends is O_NONBLOCK: a request goes *)
(* to the session loop of the server, which polls; a response comes from   *)
(* it; a task connection blocks at both ends.                              *)
(***************************************************************************)
EXTENDS Serialize, FiniteSets

CONSTANTS
    Types,       \* the packet types sent, a subset of PacketTypes
    Builds,      \* of "raw" (CONFIG_SERIALIZE_RAW, the default) and "xdr"
    Hosts,       \* pairs of byte orders: of the sender, of the receiver
    Links,       \* of "request", "response" and "task"
    Arrivals,    \* how much of the stream arrives at once
    MaxSends,    \* bound: packets sent on the connection
    SendBuffer   \* bound: bytes the two socket buffers hold

HeaderLen == 2

ContentLen == 2

PacketLen == HeaderLen + ContentLen

ASSUME TransportAssumption ==
    /\ Types \subseteq PacketTypes
    /\ Builds \subseteq {"raw", "xdr"}
    /\ Hosts \subseteq {"big", "little"} \X {"big", "little"}
    /\ Links \subseteq {"request", "response", "task"}
    /\ Arrivals \subseteq {"packet", "send", "byte"}
    /\ MaxSends \in Nat \ {0}
    /\ SendBuffer \in Nat /\ SendBuffer >= PacketLen

VARIABLES
    conf,       \* build, host byte orders, link and arrival of this run
    type,       \* the packet type, which fixes the object
    mem,        \* the object of the sender: the byte order of each field
    age,        \* history: how often a field was sent since it was assigned
    sent,       \* history: what the sender meant and what it put in a packet
    spc,        \* where the sender is in send_sftt_packet
    written,    \* bytes handed to send()
    arrived,    \* bytes that reached the receiver's socket
    taken,      \* bytes the receiver took with recv()
    rpc,        \* where the receiver is in recv_sftt_packet
    errno,      \* errno of the receiving thread, sticky as in C
    rte_errno,  \* the copy sftt_packet_recv_header makes of it
    got         \* history: the packets delivered and the fields they have right

vars == << conf, type, mem, age, sent, spc, written, arrived, taken, rpc,
           errno, rte_errno, got >>

-----------------------------------------------------------------------------
(* The codecs. *)

handlers == IF conf.build = "raw" THEN serializables_raw ELSE serializables

codec == handlers[type]

Paths(s) == {s[i].at : i \in {j \in DOMAIN s : s[j].w > 1}}

Fields == Paths(codec.obj)

Swapped(o) == IF o = "big" THEN "little" ELSE "big"

Times(f, list) == Cardinality({i \in DOMAIN list : list[i].at = f})

(* hton and ntoh on a list of fields: on a little-endian host each one     *)
(* reverses the bytes of its field.                                        *)
Converted(m, list, host) ==
    [f \in DOMAIN m |-> IF host = "little" /\ Times(f, list) % 2 = 1
                        THEN Swapped(m[f]) ELSE m[f]]

(* XDR puts the value the host reads in the field into the stream, high    *)
(* byte first, and does not touch the object.                              *)
xdr_put(m, list, host) ==
    [f \in Paths(list) |-> IF m[f] = host THEN "big" ELSE "little"]

xdr_get(c, list, host) ==
    [f \in Paths(list) \cap DOMAIN c |->
        IF c[f] = "big" THEN host ELSE Swapped(host)]

Serialized ==
    IF conf.build = "raw" THEN Converted(mem, codec.encode, conf.hosts[1])
                          ELSE xdr_put(mem, codec.encode, conf.hosts[1])

(* Mutant: both encoders convert the caller's object. *)
ObjectAfterMut == Serialized

(* The raw encoder converts the caller's object and copies it.             *)
ObjectAfter == IF conf.build = "raw" THEN Serialized ELSE mem

(* Mutant: the raw decoder hands the bytes on as they came. *)
DeserializedMut(c) ==
    IF conf.build = "raw" THEN c ELSE xdr_get(c, codec.decode, conf.hosts[2])

Deserialized(c) ==
    IF conf.build = "raw" THEN Converted(c, codec.decode, conf.hosts[2])
                          ELSE xdr_get(c, codec.decode, conf.hosts[2])

(* The content is compressed and then encrypted, the header is neither.    *)
sftt_buffer_encode(c) == [form |-> "coded", bytes |-> c]

sftt_buffer_decode(b) == IF b.form = "coded" THEN b.bytes ELSE << >>

Right(m, host) == {f \in DOMAIN m : m[f] = host}

-----------------------------------------------------------------------------
SenderBlocks == conf.link # "response"

ReceiverBlocks == conf.link # "request"

Init ==
    /\ conf \in [build : Builds, hosts : Hosts, link : Links, arrival : Arrivals]
    /\ type \in Types
    /\ mem = [f \in Fields |-> Swapped(conf.hosts[1])]
    /\ age = [f \in Fields |-> 0]
    /\ sent = << >>
    /\ spc = "assign"
    /\ written = 0 /\ arrived = 0 /\ taken = 0
    /\ rpc = "header"
    /\ errno = "none" /\ rte_errno = "none"
    /\ got = << >>

sender == << mem, age, sent, spc, written >>

receiver == << taken, rpc, errno, rte_errno, got >>

(* The caller fills the object in: all of it, or, for a further packet,    *)
(* only what send_X_resp sets.                                             *)
Assign(S) ==
    /\ spc = "assign"
    /\ Len(sent) < MaxSends
    /\ sent = << >> => S = Fields
    /\ mem' = [f \in DOMAIN mem |-> IF f \in S THEN conf.hosts[1] ELSE mem[f]]
    /\ age' = [f \in DOMAIN age |-> IF f \in S THEN 0 ELSE age[f]]
    /\ spc' = "serialize"
    /\ UNCHANGED << conf, type, sent, written, arrived, receiver >>

(* Serialise the object, then encode the result into a second packet.      *)
sftt_packet_serialize ==
    /\ spc = "serialize"
    /\ sent' = Append(sent, [own |-> Right(mem, conf.hosts[1]), age |-> age,
                             content |-> sftt_buffer_encode(Serialized)])
    /\ mem' = ObjectAfter
    /\ age' = [f \in DOMAIN age |-> age[f] + 1]
    /\ spc' = "header"
    /\ UNCHANGED << conf, type, written, arrived, receiver >>

Room(n) == written + n - taken <= SendBuffer

sftt_packet_send_header ==
    /\ spc = "header"
    /\ Room(HeaderLen)
    /\ written' = written + HeaderLen
    /\ spc' = "content"
    /\ UNCHANGED << conf, type, mem, age, sent, arrived, receiver >>

sftt_packet_send_content ==
    /\ spc = "content"
    /\ Room(ContentLen)
    /\ written' = written + ContentLen
    /\ spc' = "assign"
    /\ UNCHANGED << conf, type, mem, age, sent, arrived, receiver >>

(* On a socket that does not block, send() writes what the buffers take    *)
(* and returns less than asked, and assert(ret == len) ends the process.   *)
send_assert_fails ==
    /\ ~ SenderBlocks
    /\ \/ spc = "header" /\ ~ Room(HeaderLen)
       \/ spc = "content" /\ ~ Room(ContentLen)
    /\ written' = taken + SendBuffer
    /\ spc' = "aborted"
    /\ UNCHANGED << conf, type, mem, age, sent, arrived, receiver >>

close_sock ==
    /\ spc = "assign"
    /\ sent # << >>
    /\ spc' = "closed"
    /\ UNCHANGED << conf, type, mem, age, sent, written, arrived, receiver >>

-----------------------------------------------------------------------------
(* TCP delivers a prefix of what was written: whole packets, what one      *)
(* send() wrote, or any number of bytes.                                   *)
Arrivable ==
    CASE conf.arrival = "packet" -> {k * PacketLen : k \in 0..MaxSends}
      [] conf.arrival = "send"   -> {k * HeaderLen : k \in 0..(2 * MaxSends)}
      [] conf.arrival = "byte"   -> 0..(MaxSends * PacketLen)

Arrive(n) ==
    /\ n \in Arrivable \/ (spc = "aborted" /\ n = written)
    /\ n > arrived /\ n <= written
    /\ arrived' = n
    /\ UNCHANGED << conf, type, sender, receiver >>

-----------------------------------------------------------------------------
(* recv_sftt_packet *)

Waiting == arrived - taken

(* Mutant: EAGAIN is taken for the end of the connection. *)
recv_header_would_blockMut ==
    /\ rpc = "header"
    /\ ~ ReceiverBlocks
    /\ Waiting = 0 /\ spc \notin {"closed", "aborted"}
    /\ errno' = "EAGAIN" /\ rte_errno' = "EAGAIN"
    /\ rpc' = "exit"
    /\ UNCHANGED << conf, type, sender, arrived, taken, got >>

(* Nothing is there: a blocking recv() waits; the session loop gets        *)
(* EAGAIN, sleeps and polls again.                                         *)
recv_header_would_block ==
    /\ rpc = "header"
    /\ ~ ReceiverBlocks
    /\ Waiting = 0 /\ spc \notin {"closed", "aborted"}
    /\ errno' = "EAGAIN" /\ rte_errno' = "EAGAIN"
    /\ UNCHANGED << conf, type, sender, arrived, taken, rpc, got >>

(* recv() returns 0: the peer has closed and everything was read.          *)
recv_header_end ==
    /\ rpc = "header"
    /\ spc \in {"closed", "aborted"} /\ taken = written
    /\ rpc' = "exit"
    /\ rte_errno' = errno
    /\ UNCHANGED << conf, type, sender, arrived, taken, errno, got >>

(* Without MSG_WAITALL recv() returns what is there; a part of a header is *)
(* an error and its bytes are gone.  errno is what it was before.          *)
recv_header_short ==
    /\ rpc = "header"
    /\ Waiting \in 1..(HeaderLen - 1)
    /\ taken' = taken + Waiting
    /\ rpc' = "error"
    /\ rte_errno' = errno
    /\ UNCHANGED << conf, type, sender, arrived, errno, got >>

(* type and data_len are copied as they lie in memory.  Bytes that are not *)
(* a header, or a header of the other byte order, give a length nobody     *)
(* sent: from there on the model says nothing but "garbage".               *)
HeaderUnderstood ==
    /\ taken % PacketLen = 0
    /\ conf.hosts[1] = conf.hosts[2]

recv_header ==
    /\ rpc = "header"
    /\ Waiting >= HeaderLen
    /\ taken' = taken + HeaderLen
    /\ rpc' = IF HeaderUnderstood THEN "content" ELSE "garbage"
    /\ rte_errno' = errno
    /\ UNCHANGED << conf, type, sender, arrived, errno, got >>

(* Mutant: the content is read without MSG_WAITALL. *)
recv_content_shortMut ==
    /\ rpc = "content"
    /\ Waiting < ContentLen
    /\ taken' = arrived
    /\ errno' = IF Waiting = 0 /\ ~ ReceiverBlocks THEN "EAGAIN" ELSE errno
    /\ rpc' = "error"
    /\ UNCHANGED << conf, type, sender, arrived, rte_errno, got >>

(* MSG_WAITALL waits for the whole content unless the socket does not      *)
(* block or the peer is gone; rte_errno is not set here.                   *)
recv_content_short ==
    /\ rpc = "content"
    /\ Waiting < ContentLen
    /\ \/ ~ ReceiverBlocks
       \/ spc \in {"closed", "aborted"} /\ arrived = written
    /\ taken' = arrived
    /\ errno' = IF Waiting = 0 /\ ~ ReceiverBlocks THEN "EAGAIN" ELSE errno
    /\ rpc' = "error"
    /\ UNCHANGED << conf, type, sender, arrived, rte_errno, got >>

sftt_packet_deserialize(k) ==
    Deserialized(sftt_buffer_decode(sent[k].content))

recv_content ==
    /\ rpc = "content"
    /\ Waiting >= ContentLen
    /\ taken' = taken + ContentLen
    /\ LET k == taken \div PacketLen + 1
       IN  got' = Append(got, [pkt |-> k, right |-> Right(sftt_packet_deserialize(k),
                                                         conf.hosts[2])])
    /\ rpc' = "header"
    /\ UNCHANGED << conf, type, sender, arrived, errno, rte_errno >>

(* After -1 the session loop goes on if rte_errno says that nothing was    *)
(* there yet, and ends the session otherwise; a client gives up.           *)
recv_error ==
    /\ rpc = "error"
    /\ rpc' = IF ~ ReceiverBlocks /\ rte_errno = "EAGAIN" THEN "header" ELSE "exit"
    /\ UNCHANGED << conf, type, sender, arrived, taken, errno, rte_errno, got >>

-----------------------------------------------------------------------------
Send ==
    \/ \E S \in {Fields, send_resp_sets} : Assign(S)
    \/ sftt_packet_serialize
    \/ sftt_packet_send_header
    \/ sftt_packet_send_content
    \/ send_assert_fails
    \/ close_sock

Recv ==
    \/ recv_header_would_block
    \/ recv_header_end
    \/ recv_header_short
    \/ recv_header
    \/ recv_content_short
    \/ recv_content
    \/ recv_error

Network == \E n \in 1..(MaxSends * PacketLen) : Arrive(n)

Next == Send \/ Network \/ Recv

(* A sender inside send_sftt_packet goes on, TCP delivers what was         *)
(* written, and the receiver, which does nothing but receive, goes on.     *)
Spec ==
    /\ Init /\ [][Next]_vars
    /\ WF_vars(sftt_packet_serialize \/ sftt_packet_send_header
               \/ sftt_packet_send_content)
    /\ WF_vars(Network)
    /\ WF_vars(Recv)

-----------------------------------------------------------------------------
(* Every variable holds a value of its C type; the receiver is never ahead *)
(* of the network, nor the network of the sender (src/net_trans.c).        *)
TypeOK ==
    /\ type \in Types
    /\ DOMAIN mem = Fields /\ \A f \in Fields : mem[f] \in {"big", "little"}
    /\ spc \in {"assign", "serialize", "header", "content", "aborted", "closed"}
    /\ rpc \in {"header", "content", "error", "garbage", "exit"}
    /\ errno \in {"none", "EAGAIN"} /\ rte_errno \in {"none", "EAGAIN"}
    /\ Len(sent) <= MaxSends /\ Len(got) <= Len(sent)
    /\ 0 <= taken /\ taken <= arrived /\ arrived <= written

(* Whatever is sent, the descriptions of its message agree: the struct is  *)
(* one the generators read as a request or a response, and both tables     *)
(* have it; the XDR routine visits exactly its fields, in order; the raw   *)
(* codec converts exactly what its generator would write for it today; and *)
(* a response has the fields that send_X_resp sets.  The generated files   *)
(* are kept in the repository and could be stale (src/serialize_raw.c).    *)
LayoutsAgree ==
    /\ \E s \in st_list : req_resp_filter(s) /\ s.layout = codec.obj
    /\ serializables_raw[type].obj = serializables[type].obj
    /\ conf.build = "xdr" => codec.encode = codec.obj /\ codec.decode = codec.obj
    /\ conf.build = "raw" =>
         /\ codec.encode = output_encode(codec.obj)
         /\ codec.decode = output_decode(codec.obj)
    /\ \A s \in st_list : s.layout = codec.obj =>
         /\ s.raw = output_native_decode(s.layout)
         /\ resp_filter(s) => send_resp_sets \subseteq {s.layout[i].at : i \in DOMAIN s.layout}

(* A received packet has exactly those fields right that were right in the *)
(* sender's object when it was sent, with either codec, between two hosts  *)
(* of the same byte order.  (Between hosts of different order the header,  *)
(* which no codec converts, is not understood and nothing is delivered.)   *)
(* (sftt_packet_serialize, sftt_packet_deserialize.)                       *)
Faithful == \A i \in DOMAIN got : got[i].right = sent[got[i].pkt].own

(* The raw encoder converts the object of its caller, and htonl on a       *)
(* little-endian host is not the identity.                                 *)
SpoilsObject == conf.build = "raw" /\ conf.hosts[1] = "little"

(* What is delivered of an object that is sent again with only some of its *)
(* fields assigned anew, as the listings and the put do it.  With XDR, or  *)
(* on a big-endian host, every field is right every time.  In the default  *)
(* build on a little-endian host exactly the fields that were sent an even *)
(* number of times since their assignment are: every field, of every       *)
(* message, is reversed by each sending, none is left alone and none is    *)
(* converted twice (src/serialize_raw.c, sftt_packet_serialize).           *)
ResentAlternate ==
    \A i \in DOMAIN got : LET a == sent[got[i].pkt].age IN
        got[i].right = {f \in Fields : SpoilsObject => a[f] % 2 = 0}

(* The stream arrives in pieces the receiver copes with: a packet at a     *)
(* time, or, if its socket blocks, one send() at a time.                   *)
Whole ==
    /\ conf.hosts[1] = conf.hosts[2]
    /\ conf.arrival = "packet" \/ (conf.arrival = "send" /\ ReceiverBlocks)

(* While the stream arrives in such pieces the receiver never takes the    *)
(* middle of a packet for a header, skips no packet, and reports an error  *)
(* only if the sender died in the middle of one (recv_sftt_packet).        *)
InStep ==
    Whole => /\ rpc # "garbage"
             /\ \A i \in DOMAIN got : got[i].pkt = i
             /\ rpc = "error" => spc = "aborted"

(* Then every packet sent is received, unless one of the two ends died.    *)
Delivery ==
    \A k \in 1..MaxSends :
        (Whole /\ Len(sent) = k) ~> (Len(got) >= k \/ spc = "aborted")
=============================================================================
