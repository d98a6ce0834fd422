-------------------------- MODULE TransportProofs --------------------------
(***************************************************************************)
(* The proofs about the packets, for every packet type, any number of      *)
(* packets, any size of the socket buffers and the array lengths of the    *)
(* code: a delivered packet has right what the sender had right, a field   *)
(* that is sent again without being assigned is right every second time    *)
(* where the encoder reverses it in place, and a receiver whose stream     *)
(* arrives in whole pieces never loses its place in it, nor do the two     *)
(* ends then wait for each other.                                          *)
(*                                                                         *)
(* A fourth is about the generated files: whatever is sent, its XDR        *)
(* routine, its raw routine and the two tables agree with its struct and   *)
(* with what the generator writes for it.  It needs an induction over the  *)
(* layouts, which are concatenations of any length (the arrays).           *)
(*                                                                         *)
(* The first rests on the two tables of codecs: each XDR routine visits    *)
(* the fields of its struct, and each raw decoder undoes its encoder.  The *)
(* last rests on counting: where the sender is inside a packet, how much   *)
(* of the stream has arrived, and how many packets were delivered.         *)
(***************************************************************************)
EXTENDS Transport, SequenceTheorems, WellFoundedInduction, TLAPS

Orders == {"big", "little"}

SenderHost == conf.hosts[1]

ReceiverHost == conf.hosts[2]

\* A packet of an object with the fields F, and a delivered one.
Message(F) ==
  [own : SUBSET F, age : [F -> Nat],
   content : [form : {"coded"}, bytes : [F -> Orders]]]

Delivered(F) == [pkt : Nat, right : SUBSET F]

ConfTyped ==
  /\ conf \in [build : Builds, hosts : Hosts, link : Links, arrival : Arrivals]
  /\ type \in Types

SenderTyped ==
  /\ mem \in [Fields -> Orders] /\ age \in [Fields -> Nat]
  /\ sent \in Seq(Message(Fields))
  /\ spc \in {"assign", "serialize", "header", "content", "aborted", "closed"}
  /\ Len(sent) <= MaxSends /\ (spc = "serialize" => Len(sent) < MaxSends)

ReceiverTyped ==
  /\ rpc \in {"header", "content", "error", "garbage", "exit"}
  /\ errno \in {"none", "EAGAIN"} /\ rte_errno \in {"none", "EAGAIN"}
  /\ got \in Seq(Delivered(Fields))

\* How much of the stream there is, by where the sender is.
StreamRight ==
  /\ written \in Nat /\ arrived \in Nat /\ taken \in Nat
  /\ taken <= arrived /\ arrived <= written /\ written - taken <= SendBuffer
  /\ written <= 4 * Len(sent)
  /\ spc \in {"assign", "serialize", "closed"} => written = 4 * Len(sent)
  /\ spc = "header" => written = 4 * Len(sent) - 4
  /\ spc = "content" => written = 4 * Len(sent) - 2
  /\ spc = "aborted" => ~ SenderBlocks

\* How much of it the receiver has made packets of.
TakenRight ==
  /\ 4 * Len(got) <= taken
  /\ rpc = "content" => /\ taken % 4 = 2 /\ 4 * Len(got) + 2 <= taken
                        /\ SenderHost = ReceiverHost

\* What the receiver would make of a packet.
Reads(m) == Right(Deserialized(sftt_buffer_decode(m.content)), ReceiverHost)

ContentRight ==
  /\ \A k \in 1 .. Len(sent) : SenderHost = ReceiverHost => Reads(sent[k]) = sent[k].own
  /\ \A i \in 1 .. Len(got) :
       got[i].pkt \in 1 .. Len(sent) /\ got[i].right = sent[got[i].pkt].own

\* The encoder reverses field f of its caller's object.
Reversed(f) == SpoilsObject /\ Times(f, codec.encode) % 2 = 1

\* The fields that are right after the sendings that a counts.
RightAfter(a) == {f \in Fields : Reversed(f) => a[f] % 2 = 0}

\* The object between two packets, and at the sending of each one.
ObjectAged ==
  /\ \A k \in 1 .. Len(sent) : sent[k].own = RightAfter(sent[k].age)
  /\ spc = "serialize" \/ sent # << >> => Right(mem, SenderHost) = RightAfter(age)

\* The receiver's place in a stream that arrives in whole pieces.
PlaceRight ==
  Whole =>
    /\ spc # "aborted" => arrived % 2 = 0 /\ (conf.arrival = "packet" => arrived % 4 = 0)
    /\ rpc = "header" => taken = 4 * Len(got)
    /\ rpc = "content" => taken = 4 * Len(got) + 2
    /\ rpc = "error" => spc = "aborted"
    /\ rpc # "garbage"
    /\ \A i \in 1 .. Len(got) : got[i].pkt = i

IInv ==
  /\ ConfTyped /\ SenderTyped /\ ReceiverTyped
  /\ StreamRight /\ TakenRight /\ ContentRight /\ ObjectAged /\ PlaceRight

-----------------------------------------------------------------------------
\* The tables: rpcgen's routine for a struct visits its fields, all of them and
\* in order.
LEMMA XdrLayouts ==
  /\ xdr_version_info = version_info
  /\ xdr_channel_info_req = channel_info_req
  /\ xdr_channel_info_resp_data = channel_info_resp_data
  /\ xdr_channel_info_resp = channel_info_resp
  /\ xdr_validate_req = validate_req
  /\ xdr_validate_resp_data = validate_resp_data
  /\ xdr_validate_resp = validate_resp
  /\ xdr_append_conn_req = append_conn_req
  /\ xdr_append_conn_resp_data = append_conn_resp_data
  /\ xdr_append_conn_resp = append_conn_resp
  /\ xdr_logged_in_user = logged_in_user
  /\ xdr_pwd_req = pwd_req
  /\ xdr_pwd_resp_data = pwd_resp_data
  /\ xdr_pwd_resp = pwd_resp
  /\ xdr_ll_req = ll_req
  /\ xdr_file_entry = file_entry
  /\ xdr_ll_resp_data = ll_resp_data
  /\ xdr_ll_resp = ll_resp
  /\ xdr_cd_req = cd_req
  /\ xdr_cd_resp_data = cd_resp_data
  /\ xdr_cd_resp = cd_resp
  /\ xdr_get_req = get_req
  /\ xdr_trans_entry = trans_entry
  /\ xdr_get_resp_data = get_resp_data
  /\ xdr_get_resp = get_resp
  /\ xdr_put_req_data = put_req_data
  /\ xdr_put_req = put_req
  /\ xdr_put_resp = put_resp
  /\ xdr_common_resp = common_resp
  /\ xdr_write_msg_req = write_msg_req
  /\ xdr_read_msg_req = read_msg_req
  /\ xdr_read_msg_resp_data = read_msg_resp_data
  /\ xdr_read_msg_resp = read_msg_resp
  /\ xdr_mp_stat_req = mp_stat_req
  /\ xdr_mp_stat_resp_data = mp_stat_resp_data
  /\ xdr_mp_stat_resp = mp_stat_resp
  /\ xdr_directcmd_req = directcmd_req
  /\ xdr_directcmd_resp_data = directcmd_resp_data
  /\ xdr_directcmd_resp = directcmd_resp
  /\ xdr_who_req = who_req
  /\ xdr_who_resp_data = who_resp_data
  /\ xdr_who_resp = who_resp
  /\ xdr_write_req = write_req
  /\ xdr_write_resp_data = write_resp_data
  /\ xdr_write_resp = write_resp
  /\ xdr_port_update_req = port_update_req
  /\ xdr_port_update_resp = port_update_resp
  /\ xdr_reconnect_req = reconnect_req
  /\ xdr_reconnect_resp = reconnect_resp
BY DEF xdr_int, xdr_chars, xdr_short, xdr_vector, Int32, Chars, Short,
       xdr_version_info, xdr_channel_info_req, xdr_channel_info_resp_data,
       xdr_channel_info_resp, xdr_validate_req, xdr_validate_resp_data,
       xdr_validate_resp, xdr_append_conn_req, xdr_append_conn_resp_data,
       xdr_append_conn_resp, xdr_logged_in_user, xdr_pwd_req, xdr_pwd_resp_data,
       xdr_pwd_resp, xdr_ll_req, xdr_file_entry, xdr_ll_resp_data, xdr_ll_resp,
       xdr_cd_req, xdr_cd_resp_data, xdr_cd_resp, xdr_get_req, xdr_trans_entry,
       xdr_get_resp_data, xdr_get_resp, xdr_put_req_data, xdr_put_req, xdr_put_resp,
       xdr_common_resp, xdr_write_msg_req, xdr_read_msg_req, xdr_read_msg_resp_data,
       xdr_read_msg_resp, xdr_mp_stat_req, xdr_mp_stat_resp_data, xdr_mp_stat_resp,
       xdr_directcmd_req, xdr_directcmd_resp_data, xdr_directcmd_resp, xdr_who_req,
       xdr_who_resp_data, xdr_who_resp, xdr_write_req, xdr_write_resp_data,
       xdr_write_resp, xdr_port_update_req, xdr_port_update_resp, xdr_reconnect_req,
       xdr_reconnect_resp, version_info, channel_info_req, channel_info_resp_data,
       channel_info_resp, validate_req, validate_resp_data, validate_resp,
       append_conn_req, append_conn_resp_data, append_conn_resp, logged_in_user,
       pwd_req, pwd_resp_data, pwd_resp, ll_req, file_entry, ll_resp_data, ll_resp,
       cd_req, cd_resp_data, cd_resp, get_req, trans_entry, get_resp_data, get_resp,
       put_req_data, put_req, put_resp, common_resp, write_msg_req, read_msg_req,
       read_msg_resp_data, read_msg_resp, mp_stat_req, mp_stat_resp_data,
       mp_stat_resp, directcmd_req, directcmd_resp_data, directcmd_resp, who_req,
       who_resp_data, who_resp, write_req, write_resp_data, write_resp,
       port_update_req, port_update_resp, reconnect_req, reconnect_resp

LEMMA XdrTable ==
  ASSUME NEW t \in PacketTypes
  PROVE  /\ serializables[t].encode = serializables[t].obj
         /\ serializables[t].decode = serializables[t].obj
BY XdrLayouts
   DEF PacketTypes, serializables, Codec,
       validate_req_codec, validate_resp_codec, pwd_req_codec, pwd_resp_codec,
       cd_req_codec, cd_resp_codec, ll_req_codec, ll_resp_codec, get_req_codec,
       get_resp_codec, put_req_codec, put_resp_codec, common_resp_codec,
       write_msg_req_codec, read_msg_req_codec, read_msg_resp_codec,
       mp_stat_req_codec, mp_stat_resp_codec, directcmd_req_codec,
       directcmd_resp_codec, who_req_codec, who_resp_codec, write_req_codec,
       write_resp_codec, append_conn_req_codec, append_conn_resp_codec,
       channel_info_req_codec, channel_info_resp_codec, port_update_req_codec,
       port_update_resp_codec, reconnect_req_codec, reconnect_resp_codec

\* Both tables describe the same structs, and a raw decoder converts what its
\* encoder does.
LEMMA RawTable ==
  ASSUME NEW t \in PacketTypes
  PROVE  /\ serializables_raw[t].obj = serializables[t].obj
         /\ serializables_raw[t].decode = serializables_raw[t].encode
BY DEF PacketTypes, serializables, serializables_raw, Codec,
       validate_req_codec, validate_resp_codec, pwd_req_codec, pwd_resp_codec,
       cd_req_codec, cd_resp_codec, ll_req_codec, ll_resp_codec, get_req_codec,
       get_resp_codec, put_req_codec, put_resp_codec, common_resp_codec,
       write_msg_req_codec, read_msg_req_codec, read_msg_resp_codec,
       mp_stat_req_codec, mp_stat_resp_codec, directcmd_req_codec,
       directcmd_resp_codec, who_req_codec, who_resp_codec, write_req_codec,
       write_resp_codec, append_conn_req_codec, append_conn_resp_codec,
       channel_info_req_codec, channel_info_resp_codec, port_update_req_codec,
       port_update_resp_codec, reconnect_req_codec, reconnect_resp_codec

LEMMA ConfFacts ==
  ASSUME ConfTyped
  PROVE  /\ conf.build \in {"raw", "xdr"} /\ type \in PacketTypes
         /\ SenderHost \in Orders /\ ReceiverHost \in Orders
         /\ conf.link \in {"request", "response", "task"}
         /\ conf.build = "xdr" => codec.encode = codec.obj /\ codec.decode = codec.obj
         /\ conf.build = "raw" => codec.decode = codec.encode
<1>1. /\ conf.build \in {"raw", "xdr"} /\ type \in PacketTypes
      /\ conf.link \in {"request", "response", "task"}
  BY TransportAssumption DEF ConfTyped
<1>2. conf.hosts \in Orders \X Orders
  BY TransportAssumption DEF ConfTyped, Orders
<1>3. SenderHost \in Orders /\ ReceiverHost \in Orders
  BY <1>2 DEF SenderHost, ReceiverHost
<1>4. conf.build = "xdr" => codec = serializables[type]
  BY DEF codec, handlers
<1>5. conf.build = "raw" => codec = serializables_raw[type]
  BY DEF codec, handlers
<1> QED BY <1>1, <1>3, <1>4, <1>5, XdrTable, RawTable

LEMMA Swaps ==
  ASSUME NEW o \in Orders
  PROVE  Swapped(o) \in Orders /\ Swapped(o) # o /\ Swapped(Swapped(o)) = o
BY DEF Orders, Swapped

\* Converting in place keeps the fields, is undone by the same conversion, and
\* changes nothing on a big-endian host.
LEMMA Conversions ==
  ASSUME NEW F, NEW m \in [F -> Orders], NEW list, NEW host
  PROVE  /\ Converted(m, list, host) \in [F -> Orders]
         /\ Converted(Converted(m, list, host), list, host) = m
         /\ host = "big" => Converted(m, list, host) = m
<1> DEFINE odd(f) == host = "little" /\ Times(f, list) % 2 = 1
           c == Converted(m, list, host)
<1>1. c = [f \in F |-> IF odd(f) THEN Swapped(m[f]) ELSE m[f]]
  BY DEF Converted
<1>2. c \in [F -> Orders]
  BY <1>1, Swaps
<1>3. Converted(c, list, host) = [f \in F |-> IF odd(f) THEN Swapped(c[f]) ELSE c[f]]
  BY <1>2 DEF Converted
<1> HIDE DEF c
<1>4. ASSUME NEW f \in F PROVE (IF odd(f) THEN Swapped(c[f]) ELSE c[f]) = m[f]
  BY <1>1, Swaps
<1>5. Converted(c, list, host) = m
  BY <1>3, <1>4
<1>6. host = "big" => c = m
  <2> SUFFICES ASSUME host = "big" PROVE c = m
    OBVIOUS
  <2>1. \A f \in F : ~ odd(f)
    OBVIOUS
  <2> QED BY <1>1, <2>1
<1> QED BY <1>2, <1>5, <1>6 DEF c

\* What XDR puts is what it gets.
LEMMA XdrRoundTrip ==
  ASSUME NEW m, NEW list, NEW host \in Orders, m \in [Paths(list) -> Orders]
  PROVE  /\ xdr_put(m, list, host) \in [Paths(list) -> Orders]
         /\ xdr_get(xdr_put(m, list, host), list, host) = m
<1>1. PICK F : F = Paths(list)
  OBVIOUS
<1>2. PICK c : c = xdr_put(m, list, host)
  OBVIOUS
<1>3. c = [f \in F |-> IF m[f] = host THEN "big" ELSE "little"]
  BY <1>1, <1>2 DEF xdr_put
<1>4. c \in [F -> Orders] /\ F \cap DOMAIN c = F
  BY <1>3 DEF Orders
<1>5. xdr_get(c, list, host) = [f \in F |-> IF c[f] = "big" THEN host ELSE Swapped(host)]
  BY <1>1, <1>4 DEF xdr_get
<1>6. ASSUME NEW f \in F PROVE (IF c[f] = "big" THEN host ELSE Swapped(host)) = m[f]
  BY <1>1, <1>3 DEF Orders, Swapped
<1>7. xdr_get(c, list, host) = m
  BY <1>1, <1>5, <1>6
<1> QED BY <1>1, <1>2, <1>4, <1>7

LEMMA RoundTrip ==
  ASSUME ConfTyped, mem \in [Fields -> Orders]
  PROVE  /\ Serialized \in [Fields -> Orders] /\ ObjectAfter \in [Fields -> Orders]
         /\ SenderHost = ReceiverHost => Deserialized(Serialized) = mem
         /\ \A f \in Fields : ObjectAfter[f] = IF Reversed(f) THEN Swapped(mem[f]) ELSE mem[f]
<1>1. PICK F : F = Fields
  OBVIOUS
<1>2. mem \in [F -> Orders]
  BY <1>1
<1>3. CASE conf.build = "raw"
  <2>1. PICK e : e = codec.encode
    OBVIOUS
  <2>2. Serialized = Converted(mem, e, SenderHost) /\ ObjectAfter = Serialized
    BY <1>3, <2>1 DEF Serialized, ObjectAfter, SenderHost
  <2>3. \A c : Deserialized(c) = Converted(c, e, ReceiverHost)
    BY <1>3, <2>1, ConfFacts DEF Deserialized, ReceiverHost
  <2>4. Serialized \in [F -> Orders]
    BY <1>2, <2>2, Conversions
  <2>5. Converted(Converted(mem, e, SenderHost), e, SenderHost) = mem
    BY <1>2, Conversions
  <2>6. \A f : Reversed(f) <=> SenderHost = "little" /\ Times(f, e) % 2 = 1
    BY <1>3, <2>1 DEF Reversed, SpoilsObject, SenderHost
  <2>7. \A f \in F : ObjectAfter[f] = IF Reversed(f) THEN Swapped(mem[f]) ELSE mem[f]
    BY <1>2, <2>2, <2>6 DEF Converted
  <2> QED BY <1>1, <2>2, <2>3, <2>4, <2>5, <2>7
<1>4. CASE conf.build = "xdr"
  <2>1. PICK e : e = codec.encode
    OBVIOUS
  <2>2. codec.decode = e /\ F = Paths(e) /\ SenderHost \in Orders
    BY <1>1, <1>4, <2>1, ConfFacts DEF Fields
  <2>3. Serialized = xdr_put(mem, e, SenderHost) /\ ObjectAfter = mem
    BY <1>4, <2>1 DEF Serialized, ObjectAfter, SenderHost
  <2>4. \A c : Deserialized(c) = xdr_get(c, e, ReceiverHost)
    BY <1>4, <2>2 DEF Deserialized, ReceiverHost
  <2>5. mem \in [Paths(e) -> Orders]
    BY <1>2, <2>2
  <2>6. Serialized \in [F -> Orders] /\ xdr_get(Serialized, e, SenderHost) = mem
    BY <2>2, <2>3, <2>5, XdrRoundTrip
  <2>7. \A f : ~ Reversed(f)
    BY <1>4 DEF Reversed, SpoilsObject
  <2> QED BY <1>1, <1>2, <2>3, <2>4, <2>6, <2>7
<1> QED BY <1>3, <1>4, ConfFacts

-----------------------------------------------------------------------------
\* The build, the hosts and the packet type do not change.
SameConf == conf' = conf /\ type' = type

LEMMA ConfKept ==
  ASSUME SameConf
  PROVE  /\ Fields' = Fields /\ SenderHost' = SenderHost /\ ReceiverHost' = ReceiverHost
         /\ Whole' = Whole /\ SenderBlocks' = SenderBlocks /\ ReceiverBlocks' = ReceiverBlocks
         /\ (ConfTyped => ConfTyped')
         /\ \A m : Reads(m)' = Reads(m)
         /\ \A a : RightAfter(a)' = RightAfter(a)
<1>1. conf' = conf /\ type' = type
  BY DEF SameConf
<1>2. codec' = codec
  BY <1>1 DEF codec, handlers
<1>3. Fields' = Fields
  BY <1>2 DEF Fields
<1>4. \A c : Deserialized(c)' = Deserialized(c)
  BY <1>1, <1>2 DEF Deserialized
<1>5. ReceiverHost' = ReceiverHost /\ SenderHost' = SenderHost
  BY <1>1 DEF ReceiverHost, SenderHost
<1>6. \A m : Reads(m)' = Reads(m)
  BY <1>4, <1>5 DEF Reads
<1>7. \A f : Reversed(f)' = Reversed(f)
  BY <1>1, <1>2 DEF Reversed, SpoilsObject
<1>8. \A a : RightAfter(a)' = RightAfter(a)
  BY <1>3, <1>7 DEF RightAfter
<1> QED BY <1>1, <1>3, <1>5, <1>6, <1>8 DEF Whole, SenderBlocks, ReceiverBlocks, ConfTyped

\* Sender and receiver apart.
SenderStill ==
  mem' = mem /\ age' = age /\ sent' = sent /\ spc' = spc /\ written' = written

ReceiverStill ==
  /\ taken' = taken /\ rpc' = rpc /\ errno' = errno /\ rte_errno' = rte_errno /\ got' = got

LEMMA LenFacts ==
  ASSUME IInv
  PROVE  /\ Len(sent) \in Nat /\ Len(got) \in Nat
         /\ DOMAIN sent = 1 .. Len(sent) /\ DOMAIN got = 1 .. Len(got)
         /\ MaxSends \in Nat /\ SendBuffer \in Nat
BY TransportAssumption DEF IInv, SenderTyped, ReceiverTyped

\* What a step of the sender leaves to be shown.
LEMMA SenderRest ==
  ASSUME IInv, SameConf, ReceiverStill, arrived' = arrived, spc # "aborted",
         SenderTyped', StreamRight', ObjectAged', ContentRight'
  PROVE  IInv'
<1>1. ConfTyped' /\ Fields' = Fields /\ Whole' = Whole /\ SenderHost' = SenderHost
      /\ ReceiverHost' = ReceiverHost
  BY ConfKept DEF IInv
<1>2. conf' = conf
  BY DEF SameConf
<1>3. ReceiverTyped'
  BY <1>1 DEF IInv, ReceiverTyped, ReceiverStill
<1>4. TakenRight'
  BY <1>1 DEF IInv, TakenRight, ReceiverStill
<1>5. PlaceRight'
  BY <1>1, <1>2 DEF IInv, PlaceRight, ReceiverStill
<1> QED BY <1>1, <1>3, <1>4, <1>5 DEF IInv

LEMMA SameObject ==
  ASSUME IInv, SameConf, SenderStill
  PROVE  SenderTyped' /\ ObjectAged'
<1>1. /\ mem' = mem /\ age' = age /\ sent' = sent /\ spc' = spc
      /\ Fields' = Fields /\ SenderHost' = SenderHost
      /\ \A a : RightAfter(a)' = RightAfter(a)
  BY ConfKept DEF SenderStill
<1>2. Right(mem, SenderHost)' = Right(mem, SenderHost)
  BY <1>1 DEF Right
<1>3. SenderTyped'
  BY <1>1 DEF IInv, SenderTyped
<1>4. ObjectAged'
  BY <1>1, <1>2 DEF IInv, ObjectAged
<1> QED BY <1>3, <1>4

LEMMA SameSent ==
  ASSUME IInv, SameConf, ReceiverStill, sent' = sent
  PROVE  ContentRight'
BY ConfKept DEF IInv, ContentRight, ReceiverStill

LEMMA AssignStep ==
  ASSUME IInv, NEW S, Assign(S) PROVE IInv'
<1>1. /\ SameConf /\ ReceiverStill /\ arrived' = arrived /\ spc = "assign" /\ spc' = "serialize"
      /\ sent' = sent /\ written' = written /\ Len(sent) < MaxSends
      /\ (sent = << >> => S = Fields)
  BY DEF Assign, SameConf, ReceiverStill, receiver
<1>2. Fields' = Fields /\ SenderHost' = SenderHost /\ SenderBlocks' = SenderBlocks /\ conf' = conf
  BY <1>1, ConfKept DEF SameConf
<1>3. PICK F : F = Fields
  OBVIOUS
<1>4. /\ mem \in [F -> Orders] /\ age \in [F -> Nat] /\ SenderHost \in Orders
      /\ SenderTyped /\ StreamRight
  BY <1>3, ConfFacts DEF IInv, SenderTyped
<1>5. /\ mem' = [f \in F |-> IF f \in S THEN SenderHost ELSE mem[f]]
      /\ age' = [f \in F |-> IF f \in S THEN 0 ELSE age[f]]
  BY <1>4 DEF Assign, SenderHost
<1>6. mem' \in [F -> Orders] /\ age' \in [F -> Nat]
  BY <1>4, <1>5
<1>7. SenderTyped'
  BY <1>1, <1>2, <1>3, <1>4, <1>6 DEF SenderTyped
<1>8. StreamRight'
  BY <1>1, <1>2, <1>4 DEF StreamRight, ReceiverStill
<1>9. ObjectAged'
  <2>1. \A a : RightAfter(a)' = RightAfter(a)
    BY <1>1, ConfKept
  <2>2. \A k \in 1 .. Len(sent') : sent'[k].own = RightAfter(sent'[k].age)
    BY <1>1 DEF IInv, ObjectAged
  <2>3. ASSUME NEW f \in F
        PROVE  mem'[f] = SenderHost <=> (Reversed(f) => age'[f] % 2 = 0)
    <3>1. CASE f \in S
      BY <1>5, <3>1
    <3>2. CASE f \notin S
      <4>1. Right(mem, SenderHost) = RightAfter(age)
        BY <1>1, <1>3, <3>2 DEF IInv, ObjectAged
      <4>2. mem[f] = SenderHost <=> (Reversed(f) => age[f] % 2 = 0)
        BY <1>3, <1>4, <4>1 DEF Right, RightAfter
      <4> QED BY <1>5, <3>2, <4>2
    <3> QED BY <3>1, <3>2
  <2>4. Right(mem', SenderHost) = RightAfter(age')
    BY <1>3, <1>6, <2>3 DEF Right, RightAfter
  <2>5. Right(mem, SenderHost)' = RightAfter(age)'
    BY <1>2, <2>1, <2>4 DEF Right
  <2> QED BY <2>1, <2>2, <2>5 DEF ObjectAged
<1>10. ContentRight'
  BY <1>1, SameSent
<1> QED BY <1>1, <1>7, <1>8, <1>9, <1>10, SenderRest

LEMMA SerializeStep ==
  ASSUME IInv, sftt_packet_serialize PROVE IInv'
<1>1. /\ SameConf /\ ReceiverStill /\ arrived' = arrived /\ spc = "serialize" /\ spc' = "header"
      /\ written' = written /\ mem' = ObjectAfter
      /\ age' = [f \in DOMAIN age |-> age[f] + 1]
  BY DEF sftt_packet_serialize, SameConf, ReceiverStill, receiver
<1>2. /\ Fields' = Fields /\ SenderHost' = SenderHost /\ ReceiverHost' = ReceiverHost
      /\ SenderBlocks' = SenderBlocks /\ conf' = conf
      /\ \A m : Reads(m)' = Reads(m)
  BY <1>1, ConfKept DEF SameConf
<1>3. PICK F : F = Fields
  OBVIOUS
<1>4. /\ ConfTyped /\ mem \in [F -> Orders] /\ age \in [F -> Nat] /\ SenderTyped /\ StreamRight
      /\ sent \in Seq(Message(F)) /\ Len(sent) \in Nat /\ MaxSends \in Nat
  BY <1>3, LenFacts DEF IInv, SenderTyped
<1>5. PICK c : c = Serialized
  OBVIOUS
<1>6. PICK a : a = ObjectAfter
  OBVIOUS
<1>7. /\ c \in [F -> Orders] /\ a \in [F -> Orders]
      /\ SenderHost = ReceiverHost => Deserialized(c) = mem
      /\ \A f \in F : a[f] = IF Reversed(f) THEN Swapped(mem[f]) ELSE mem[f]
  BY <1>3, <1>4, <1>5, <1>6, RoundTrip
<1>8. PICK m : m = [own |-> Right(mem, SenderHost), age |-> age,
                    content |-> sftt_buffer_encode(c)]
  OBVIOUS
<1>9. /\ m.own = {f \in F : mem[f] = SenderHost} /\ m.age = age
      /\ m.content = [form |-> "coded", bytes |-> c]
  BY <1>4, <1>8 DEF Right, sftt_buffer_encode
<1>10. m \in Message(F)
  <2>1. m.own \in SUBSET F
    BY <1>9
  <2>2. m.content \in [form : {"coded"}, bytes : [F -> Orders]]
    BY <1>7, <1>9
  <2>3. m = [own |-> m.own, age |-> m.age, content |-> m.content]
    BY <1>8
  <2> QED BY <1>4, <1>9, <2>1, <2>2, <2>3 DEF Message
<1>11. sent' = Append(sent, m)
  BY <1>5, <1>8 DEF sftt_packet_serialize, SenderHost
<1>12. /\ sent' \in Seq(Message(F)) /\ Len(sent') = Len(sent) + 1
       /\ \A k \in 1 .. Len(sent) : sent'[k] = sent[k]
       /\ sent'[Len(sent) + 1] = m /\ sent' # << >>
  BY <1>4, <1>10, <1>11
<1>13. \A k \in 1 .. Len(sent') : k \in 1 .. Len(sent) \/ k = Len(sent) + 1
  BY <1>4, <1>12
<1>14. SenderTyped'
  <2>1. age' \in [F -> Nat]
    BY <1>1, <1>4
  <2> QED BY <1>1, <1>2, <1>3, <1>4, <1>6, <1>7, <1>12, <2>1 DEF SenderTyped
<1>15. StreamRight'
  BY <1>1, <1>2, <1>4, <1>12 DEF StreamRight, ReceiverStill
<1>16. SenderHost = ReceiverHost => Reads(m) = m.own
  <2>1. sftt_buffer_decode(m.content) = c
    BY <1>9 DEF sftt_buffer_decode
  <2>2. Reads(m) = Right(Deserialized(c), ReceiverHost)
    BY <2>1 DEF Reads
  <2> QED BY <1>7, <1>8, <2>2
<1>17. ContentRight'
  <2>1. ASSUME NEW k \in 1 .. Len(sent'), SenderHost = ReceiverHost
        PROVE  Reads(sent'[k]) = sent'[k].own
    <3>1. CASE k \in 1 .. Len(sent)
      BY <1>12, <2>1, <3>1 DEF IInv, ContentRight
    <3>2. CASE k = Len(sent) + 1
      BY <1>12, <1>16, <2>1, <3>2
    <3> QED BY <1>13, <3>1, <3>2
  <2>2. ASSUME NEW i \in 1 .. Len(got)
        PROVE  got[i].pkt \in 1 .. Len(sent') /\ got[i].right = sent'[got[i].pkt].own
    <3>1. got[i].pkt \in 1 .. Len(sent) /\ got[i].right = sent[got[i].pkt].own
      BY DEF IInv, ContentRight
    <3>2. got[i].pkt \in 1 .. Len(sent')
      BY <1>4, <1>12, <3>1
    <3> QED BY <1>12, <3>1, <3>2
  <2>3. got' = got
    BY <1>1 DEF ReceiverStill
  <2>4. ASSUME NEW k \in 1 .. Len(sent'), (SenderHost = ReceiverHost)'
        PROVE  Reads(sent[k])' = sent'[k].own
    <3>1. PICK x : x = sent'[k]
      OBVIOUS
    <3>2. Reads(x)' = Reads(x)
      BY <1>2
    <3>3. Reads(sent[k])' = Reads(x)'
      BY <3>1 DEF Reads
    <3> QED BY <1>2, <2>1, <2>4, <3>1, <3>2, <3>3
  <2> QED BY <2>2, <2>3, <2>4 DEF ContentRight
<1>18. ObjectAged'
  <2>1. \A x : RightAfter(x)' = RightAfter(x)
    BY <1>1, ConfKept
  <2>2. /\ \A k \in 1 .. Len(sent) : sent[k].own = RightAfter(sent[k].age)
        /\ Right(mem, SenderHost) = RightAfter(age)
    BY <1>1 DEF IInv, ObjectAged
  <2>3. \A k \in 1 .. Len(sent') : sent'[k].own = RightAfter(sent'[k].age)
    BY <1>8, <1>12, <1>13, <2>2
  <2>4. \A f \in F : mem[f] = SenderHost <=> (Reversed(f) => age[f] % 2 = 0)
    BY <1>3, <1>4, <2>2 DEF Right, RightAfter
  <2>5. ASSUME NEW f \in F
        PROVE  a[f] = SenderHost <=> (Reversed(f) => age'[f] % 2 = 0)
    <3>1. age'[f] = age[f] + 1 /\ age[f] \in Nat /\ mem[f] \in Orders /\ SenderHost \in Orders
      BY <1>1, <1>4, ConfFacts
    <3>2. age'[f] % 2 = 0 <=> age[f] % 2 # 0
      BY <3>1
    <3>3. a[f] = IF Reversed(f) THEN Swapped(mem[f]) ELSE mem[f]
      BY <1>7
    <3>4. Swapped(mem[f]) = SenderHost <=> mem[f] # SenderHost
      BY <3>1 DEF Orders, Swapped
    <3> QED BY <2>4, <3>2, <3>3, <3>4
  <2>6. Right(a, SenderHost) = RightAfter(age')
    BY <1>3, <1>7, <2>5 DEF Right, RightAfter
  <2>7. Right(mem, SenderHost)' = RightAfter(age)'
    BY <1>1, <1>2, <1>6, <2>1, <2>6 DEF Right
  <2> QED BY <2>1, <2>3, <2>7 DEF ObjectAged
<1> QED BY <1>1, <1>14, <1>15, <1>17, <1>18, SenderRest

\* The steps that write, or close.
LEMMA WriteStep ==
  ASSUME IInv,
         sftt_packet_send_header \/ sftt_packet_send_content \/ send_assert_fails \/ close_sock
  PROVE  IInv'
<1>1. /\ SameConf /\ ReceiverStill /\ arrived' = arrived /\ mem' = mem /\ age' = age
      /\ sent' = sent /\ spc # "aborted" /\ spc # "serialize"
  BY DEF sftt_packet_send_header, sftt_packet_send_content, send_assert_fails, close_sock,
         SameConf, ReceiverStill, receiver
<1>2. /\ Fields' = Fields /\ SenderHost' = SenderHost /\ SenderBlocks' = SenderBlocks /\ conf' = conf
  BY <1>1, ConfKept DEF SameConf
<1>3. /\ SenderTyped /\ StreamRight /\ ObjectAged /\ Len(sent) \in Nat /\ SendBuffer \in Nat
  BY LenFacts DEF IInv
<1>4. spc' \in {"content", "assign", "aborted", "closed"}
  BY DEF sftt_packet_send_header, sftt_packet_send_content, send_assert_fails, close_sock
<1>5. SenderTyped'
  BY <1>1, <1>2, <1>3, <1>4 DEF SenderTyped
<1>6. StreamRight'
  <2>1. taken' = taken /\ arrived' = arrived
    BY <1>1 DEF ReceiverStill
  <2>2. CASE sftt_packet_send_header
    <3>1. /\ spc = "header" /\ spc' = "content" /\ written' = written + 2
          /\ written + 2 - taken <= SendBuffer
      BY <2>2 DEF sftt_packet_send_header, HeaderLen, Room
    <3> QED BY <1>1, <1>3, <2>1, <3>1 DEF StreamRight
  <2>3. CASE sftt_packet_send_content
    <3>1. /\ spc = "content" /\ spc' = "assign" /\ written' = written + 2
          /\ written + 2 - taken <= SendBuffer
      BY <2>3 DEF sftt_packet_send_content, ContentLen, Room
    <3> QED BY <1>1, <1>3, <2>1, <3>1 DEF StreamRight
  <2>4. CASE send_assert_fails
    <3>1. /\ spc \in {"header", "content"} /\ spc' = "aborted" /\ written' = taken + SendBuffer
          /\ ~ (written + 2 - taken <= SendBuffer) /\ ~ SenderBlocks
      BY <2>4 DEF send_assert_fails, HeaderLen, ContentLen, Room
    <3> QED BY <1>1, <1>2, <1>3, <2>1, <3>1 DEF StreamRight
  <2>5. CASE close_sock
    <3>1. spc = "assign" /\ spc' = "closed" /\ written' = written
      BY <2>5 DEF close_sock
    <3> QED BY <1>1, <1>3, <2>1, <3>1 DEF StreamRight
  <2> QED BY <2>2, <2>3, <2>4, <2>5
<1>7. ObjectAged'
  <2>1. \A a : RightAfter(a)' = RightAfter(a)
    BY <1>1, ConfKept
  <2>2. Right(mem, SenderHost)' = Right(mem, SenderHost)
    BY <1>1, <1>2 DEF Right
  <2>3. sent # << >> \/ spc' # "serialize"
    BY <1>4
  <2> QED BY <1>1, <1>3, <1>4, <2>1, <2>2, <2>3 DEF ObjectAged
<1>8. ContentRight'
  BY <1>1, SameSent
<1> QED BY <1>1, <1>5, <1>6, <1>7, <1>8, SenderRest

LEMMA SendStep == ASSUME IInv, Send PROVE IInv'
BY AssignStep, SerializeStep, WriteStep DEF Send

-----------------------------------------------------------------------------
\* The pieces a whole stream arrives in.
LEMMA Pieces ==
  ASSUME Whole, NEW n, n \in Arrivable
  PROVE  n % 2 = 0 /\ (conf.arrival = "packet" => n % 4 = 0)
<1>1. CASE conf.arrival = "packet"
  <2>1. Arrivable = {k * PacketLen : k \in 0 .. MaxSends}
    BY <1>1 DEF Arrivable
  <2>2. PICK k \in Nat : n = k * 4
    BY <2>1 DEF PacketLen, HeaderLen, ContentLen
  <2> QED BY <2>2
<1>2. CASE conf.arrival = "send"
  <2>1. Arrivable = {k * HeaderLen : k \in 0 .. (2 * MaxSends)}
    BY <1>2 DEF Arrivable
  <2>2. PICK k \in Nat : n = k * 2
    BY <2>1 DEF HeaderLen
  <2> QED BY <1>2, <2>2
<1> QED BY <1>1, <1>2 DEF Whole

LEMMA NetworkStep == ASSUME IInv, Network PROVE IInv'
<1>1. PICK n \in 1 .. (MaxSends * PacketLen) : Arrive(n)
  BY DEF Network
<1>2. /\ SameConf /\ SenderStill /\ ReceiverStill /\ arrived' = n
      /\ n > arrived /\ n <= written
      /\ n \in Arrivable \/ spc = "aborted"
  BY <1>1 DEF Arrive, SameConf, SenderStill, ReceiverStill, sender, receiver
<1>3. /\ Fields' = Fields /\ SenderHost' = SenderHost /\ ReceiverHost' = ReceiverHost
      /\ Whole' = Whole /\ SenderBlocks' = SenderBlocks /\ ConfTyped' /\ conf' = conf
  BY <1>2, ConfKept DEF IInv, SameConf
<1>4. n \in Nat
  BY <1>1
<1>5. SenderTyped' /\ ObjectAged'
  BY <1>2, SameObject
<1>6. ReceiverTyped' /\ TakenRight'
  BY <1>2, <1>3 DEF IInv, ReceiverTyped, TakenRight, ReceiverStill
<1>7. StreamRight'
  BY <1>2, <1>3, <1>4 DEF IInv, StreamRight, SenderStill, ReceiverStill
<1>8. ContentRight'
  BY <1>2, SameSent DEF SenderStill
<1>9. PlaceRight'
  BY <1>2, <1>3, Pieces DEF IInv, PlaceRight, SenderStill, ReceiverStill
<1> QED BY <1>3, <1>5, <1>6, <1>7, <1>8, <1>9 DEF IInv

-----------------------------------------------------------------------------
\* What a step of the receiver that delivers nothing leaves to be shown.
LEMMA ReceiverRest ==
  ASSUME IInv, SameConf, SenderStill, arrived' = arrived, got' = got,
         rpc' \in {"header", "content", "error", "garbage", "exit"},
         errno' \in {"none", "EAGAIN"}, rte_errno' \in {"none", "EAGAIN"},
         taken' \in Nat, taken <= taken', taken' <= arrived, TakenRight', PlaceRight'
  PROVE  IInv'
<1>1. /\ Fields' = Fields /\ SenderHost' = SenderHost /\ ReceiverHost' = ReceiverHost
      /\ SenderBlocks' = SenderBlocks /\ ConfTyped' /\ conf' = conf
  BY ConfKept DEF IInv, SameConf
<1>2. SenderTyped' /\ ObjectAged'
  BY SameObject
<1>3. ReceiverTyped'
  BY <1>1 DEF IInv, ReceiverTyped
<1>4. StreamRight'
  BY <1>1, LenFacts DEF IInv, StreamRight, SenderStill
<1>5. ContentRight'
  BY ConfKept DEF IInv, ContentRight, SenderStill
<1> QED BY <1>1, <1>2, <1>3, <1>4, <1>5 DEF IInv

\* Whatever the receiver has read, it is at a place of the stream.
LEMMA PlaceFacts ==
  ASSUME IInv
  PROVE  /\ taken \in Nat /\ arrived \in Nat /\ written \in Nat
         /\ taken <= arrived /\ arrived <= written
         /\ Len(got) \in Nat /\ Len(sent) \in Nat /\ 4 * Len(got) <= taken
         /\ spc = "aborted" => ReceiverBlocks
         /\ errno \in {"none", "EAGAIN"} /\ rte_errno \in {"none", "EAGAIN"}
BY LenFacts DEF IInv, StreamRight, TakenRight, ReceiverTyped, SenderBlocks, ReceiverBlocks

LEMMA IdleReceiverStep ==
  ASSUME IInv, recv_header_would_block \/ recv_header_end \/ recv_error
  PROVE  IInv'
<1>1. /\ SameConf /\ SenderStill /\ arrived' = arrived /\ got' = got /\ taken' = taken
      /\ errno' \in {errno, "EAGAIN"} /\ rte_errno' \in {errno, rte_errno, "EAGAIN"}
  BY DEF recv_header_would_block, recv_header_end, recv_error, SameConf, SenderStill, sender
<1>3. Whole' = Whole /\ SenderHost' = SenderHost /\ ReceiverHost' = ReceiverHost /\ conf' = conf
  BY <1>1, ConfKept DEF SameConf
<1>4. /\ rpc' \in {"header", "exit"}
      /\ rpc' = "header" => (rpc = "header" \/ (rpc = "error" /\ ~ ReceiverBlocks))
  BY DEF recv_header_would_block, recv_header_end, recv_error
<1>5. TakenRight'
  BY <1>1, <1>4 DEF IInv, TakenRight
<1>6. PlaceRight'
  BY <1>1, <1>3, <1>4, PlaceFacts DEF IInv, PlaceRight, SenderStill
<1> QED BY <1>1, <1>4, <1>5, <1>6, PlaceFacts, ReceiverRest

LEMMA HeaderShortStep == ASSUME IInv, recv_header_short PROVE IInv'
<1>1. /\ SameConf /\ SenderStill /\ arrived' = arrived /\ got' = got /\ rpc = "header"
      /\ rpc' = "error" /\ errno' = errno /\ rte_errno' = errno
  BY DEF recv_header_short, SameConf, SenderStill, sender
<1>2. arrived - taken = 1 /\ taken' = arrived
  BY PlaceFacts DEF recv_header_short, Waiting, HeaderLen
<1>3. Whole' = Whole /\ SenderHost' = SenderHost /\ ReceiverHost' = ReceiverHost /\ conf' = conf
  BY <1>1, ConfKept DEF SameConf
<1>4. TakenRight'
  BY <1>1, <1>2, PlaceFacts DEF TakenRight
<1>5. Whole => spc = "aborted"
  <2>1. Whole => taken = 4 * Len(got) /\ (spc # "aborted" => arrived % 2 = 0)
    BY <1>1 DEF IInv, PlaceRight
  <2> QED BY <1>2, <2>1, PlaceFacts
<1>6. PlaceRight'
  BY <1>1, <1>3, <1>5 DEF IInv, PlaceRight, SenderStill
<1> QED BY <1>1, <1>2, <1>4, <1>6, PlaceFacts, ReceiverRest

LEMMA HeaderStep == ASSUME IInv, recv_header PROVE IInv'
<1>1. /\ SameConf /\ SenderStill /\ arrived' = arrived /\ got' = got /\ rpc = "header"
      /\ rpc' \in {"content", "garbage"} /\ errno' = errno /\ rte_errno' = errno
      /\ rpc' = "content" <=> HeaderUnderstood
  BY DEF recv_header, SameConf, SenderStill, sender
<1>2. arrived - taken >= 2 /\ taken' = taken + 2
  BY DEF recv_header, Waiting, HeaderLen
<1>3. Whole' = Whole /\ SenderHost' = SenderHost /\ ReceiverHost' = ReceiverHost /\ conf' = conf
  BY <1>1, ConfKept DEF SameConf
<1>4. HeaderUnderstood <=> taken % 4 = 0 /\ SenderHost = ReceiverHost
  BY DEF HeaderUnderstood, PacketLen, HeaderLen, ContentLen, SenderHost, ReceiverHost
<1>5. TakenRight'
  BY <1>1, <1>2, <1>3, <1>4, PlaceFacts DEF TakenRight
<1>6. Whole => taken = 4 * Len(got) /\ rpc' = "content"
  <2>1. Whole => taken = 4 * Len(got)
    BY <1>1 DEF IInv, PlaceRight
  <2>2. Whole => SenderHost = ReceiverHost
    BY DEF Whole, SenderHost, ReceiverHost
  <2> QED BY <1>1, <1>4, <2>1, <2>2, PlaceFacts
<1>7. PlaceRight'
  BY <1>1, <1>2, <1>3, <1>6, PlaceFacts DEF IInv, PlaceRight, SenderStill
<1> QED BY <1>1, <1>2, <1>5, <1>7, PlaceFacts, ReceiverRest

LEMMA ContentShortStep == ASSUME IInv, recv_content_short PROVE IInv'
<1>1. /\ SameConf /\ SenderStill /\ arrived' = arrived /\ got' = got /\ rpc = "content"
      /\ rpc' = "error" /\ errno' \in {errno, "EAGAIN"} /\ rte_errno' = rte_errno
      /\ taken' = arrived /\ arrived - taken < 2
      /\ ~ ReceiverBlocks \/ (spc \in {"closed", "aborted"} /\ arrived = written)
  BY DEF recv_content_short, SameConf, SenderStill, sender, Waiting, ContentLen
<1>2. Whole' = Whole /\ SenderHost' = SenderHost /\ ReceiverHost' = ReceiverHost /\ conf' = conf
  BY <1>1, ConfKept DEF SameConf
<1>3. TakenRight'
  BY <1>1, PlaceFacts DEF TakenRight
<1>4. ASSUME Whole PROVE spc = "aborted"
  <2> SUFFICES ASSUME spc # "aborted" PROVE FALSE
    OBVIOUS
  <2>1. taken = 4 * Len(got) + 2 /\ arrived % 2 = 0 /\ (conf.arrival = "packet" => arrived % 4 = 0)
    BY <1>1, <1>4 DEF IInv, PlaceRight
  <2>2. arrived = taken
    BY <1>1, <2>1, PlaceFacts
  <2>3. ReceiverBlocks /\ spc = "closed" /\ arrived = written
    <3>1. arrived % 4 # 0
      BY <2>1, <2>2, PlaceFacts
    <3>2. conf.arrival # "packet"
      BY <2>1, <3>1
    <3> QED BY <1>1, <1>4, <3>2 DEF Whole
  <2>4. written = 4 * Len(sent)
    BY <2>3 DEF IInv, StreamRight
  <2> QED BY <2>1, <2>2, <2>3, <2>4, PlaceFacts
<1>5. PlaceRight'
  BY <1>1, <1>2, <1>4 DEF IInv, PlaceRight, SenderStill
<1> QED BY <1>1, <1>3, <1>5, PlaceFacts, ReceiverRest

LEMMA Fourths ==
  ASSUME NEW n \in Nat, n % 4 = 2
  PROVE  n \div 4 \in Nat /\ 4 * (n \div 4) + 2 = n
OBVIOUS

LEMMA ContentStep == ASSUME IInv, recv_content PROVE IInv'
<1>1. /\ SameConf /\ SenderStill /\ arrived' = arrived /\ rpc = "content"
      /\ rpc' = "header" /\ errno' = errno /\ rte_errno' = rte_errno
      /\ arrived - taken >= 2 /\ taken' = taken + 2
  BY DEF recv_content, SameConf, SenderStill, sender, Waiting, ContentLen
<1>2. /\ Fields' = Fields /\ SenderHost' = SenderHost /\ ReceiverHost' = ReceiverHost
      /\ SenderBlocks' = SenderBlocks /\ ConfTyped' /\ conf' = conf /\ Whole' = Whole
  BY <1>1, ConfKept DEF IInv, SameConf
<1>3. PICK F : F = Fields
  OBVIOUS
<1>4. /\ sent \in Seq(Message(F)) /\ got \in Seq(Delivered(F))
      /\ taken % 4 = 2 /\ 4 * Len(got) + 2 <= taken /\ SenderHost = ReceiverHost
      /\ written <= 4 * Len(sent)
  BY <1>1, <1>3 DEF IInv, SenderTyped, ReceiverTyped, TakenRight, StreamRight
<1>5. PICK k : k = taken \div 4 + 1
  OBVIOUS
<1>6. k \in 1 .. Len(sent) /\ (taken = 4 * Len(got) + 2 => k = Len(got) + 1)
  <2>1. PICK d \in Nat : d = taken \div 4 /\ 4 * d + 2 = taken
    <3>1. taken \in Nat /\ taken % 4 = 2
      BY <1>4, PlaceFacts
    <3> QED BY <3>1, Fourths
  <2>2. PICK gl \in Nat, sl \in Nat : gl = Len(got) /\ sl = Len(sent)
    BY PlaceFacts
  <2>3. /\ taken \in Nat /\ arrived \in Nat /\ written \in Nat
        /\ arrived <= written /\ written <= 4 * sl /\ arrived - taken >= 2
    BY <1>1, <1>4, <2>2, PlaceFacts
  <2>4. k = d + 1 /\ 4 * d + 4 <= 4 * sl
    BY ONLY <1>5, <2>1, <2>3
  <2>5. k \in 1 .. sl /\ (taken = 4 * gl + 2 => k = gl + 1)
    <3>1. d \in Nat /\ gl \in Nat /\ sl \in Nat /\ d + 1 <= sl
      BY <2>4
    <3>2. 4 * d + 2 = 4 * gl + 2 => d = gl
      BY <3>1
    <3>3. taken = 4 * gl + 2 => k = gl + 1
      BY <2>1, <2>4, <3>2
    <3> QED BY <2>4, <3>1, <3>3
  <2> QED BY <2>2, <2>5
<1>7. PICK g : g = [pkt |-> k, right |-> Reads(sent[k])]
  OBVIOUS
<1>8. got' = Append(got, g)
  BY <1>5, <1>7
     DEF recv_content, PacketLen, HeaderLen, ContentLen, Reads, sftt_packet_deserialize, ReceiverHost
<1>9. g.pkt = k /\ g.right = sent[k].own
  BY <1>4, <1>6, <1>7 DEF IInv, ContentRight
<1>10. g \in Delivered(F)
  <2>1. sent[k] \in Message(F)
    BY <1>4, <1>6
  <2>2. sent[k].own \in SUBSET F
    BY <2>1 DEF Message
  <2>3. k \in Nat
    BY <1>6
  <2> QED BY <1>7, <1>9, <2>2, <2>3 DEF Delivered
<1>11. /\ got' \in Seq(Delivered(F)) /\ Len(got') = Len(got) + 1
       /\ \A i \in 1 .. Len(got) : got'[i] = got[i]
       /\ got'[Len(got) + 1] = g
  BY <1>4, <1>8, <1>10
<1>12. \A i \in 1 .. Len(got') : i \in 1 .. Len(got) \/ i = Len(got) + 1
  BY <1>11, PlaceFacts
<1>13. SenderTyped' /\ ObjectAged'
  BY <1>1, SameObject
<1>14. ReceiverTyped'
  BY <1>1, <1>2, <1>3, <1>11 DEF IInv, ReceiverTyped
<1>15. StreamRight'
  BY <1>1, <1>2, PlaceFacts, LenFacts DEF IInv, StreamRight, SenderStill
<1>16. TakenRight'
  BY <1>1, <1>4, <1>11, PlaceFacts DEF TakenRight
<1>17. ContentRight'
  <2>1. sent' = sent
    BY <1>1 DEF SenderStill
  <2>2. \A i \in 1 .. Len(got') : got'[i].pkt \in 1 .. Len(sent) /\ got'[i].right = sent[got'[i].pkt].own
    BY <1>6, <1>9, <1>11, <1>12 DEF IInv, ContentRight
  <2>3. \A m : Reads(m)' = Reads(m)
    BY <1>1, ConfKept
  <2>4. \A j \in 1 .. Len(sent) : (SenderHost = ReceiverHost)' => Reads(sent[j])' = sent[j].own
    <3> SUFFICES ASSUME NEW j \in 1 .. Len(sent) PROVE Reads(sent[j])' = sent[j].own
      OBVIOUS
    <3>1. PICK x : x = sent[j]
      OBVIOUS
    <3>2. Reads(sent[j])' = Reads(x)'
      BY <2>1, <3>1 DEF Reads
    <3>3. Reads(x) = x.own
      BY <1>4, <3>1 DEF IInv, ContentRight
    <3> QED BY <2>3, <3>1, <3>2, <3>3
  <2> QED BY <2>1, <2>2, <2>4 DEF ContentRight
<1>18. PlaceRight'
  <2> SUFFICES ASSUME Whole PROVE PlaceRight'
    BY <1>2 DEF PlaceRight
  <2>1. taken = 4 * Len(got) + 2 /\ \A i \in 1 .. Len(got) : got[i].pkt = i
    BY <1>1 DEF IInv, PlaceRight
  <2>2. taken' = 4 * Len(got')
    BY <1>1, <1>11, <2>1, PlaceFacts
  <2>3. \A i \in 1 .. Len(got') : got'[i].pkt = i
    BY <1>6, <1>9, <1>11, <1>12, <2>1
  <2> QED BY <1>1, <1>2, <2>2, <2>3 DEF IInv, PlaceRight, SenderStill
<1> QED BY <1>2, <1>13, <1>14, <1>15, <1>16, <1>17, <1>18 DEF IInv

LEMMA RecvStep == ASSUME IInv, Recv PROVE IInv'
BY IdleReceiverStep, HeaderShortStep, HeaderStep, ContentShortStep, ContentStep DEF Recv

LEMMA InitRight == Init => IInv
<1> SUFFICES ASSUME Init PROVE IInv
  OBVIOUS
<1>1. ConfTyped
  BY DEF Init, ConfTyped
<1>2. PICK F : F = Fields
  OBVIOUS
<1>3. Swapped(SenderHost) \in Orders
  BY <1>1, ConfFacts, Swaps
<1>4. mem = [f \in F |-> Swapped(SenderHost)]
  BY <1>2 DEF Init, SenderHost
<1>5. mem \in [F -> Orders] /\ age \in [F -> Nat]
  BY <1>2, <1>3, <1>4 DEF Init
<1>6. << >> \in Seq(Message(F)) /\ << >> \in Seq(Delivered(F)) /\ Len(<< >>) = 0 /\ 1 .. 0 = {}
  OBVIOUS
<1>7. sent = << >> /\ got = << >> /\ spc = "assign" /\ rpc = "header"
      /\ written = 0 /\ arrived = 0 /\ taken = 0
  BY DEF Init
<1>8. SenderTyped
  BY <1>2, <1>5, <1>6, <1>7, TransportAssumption DEF SenderTyped
<1>9. ReceiverTyped
  BY <1>2, <1>6, <1>7 DEF Init, ReceiverTyped
<1>10. StreamRight /\ TakenRight /\ ContentRight /\ ObjectAged /\ PlaceRight
  BY <1>6, <1>7, TransportAssumption
     DEF StreamRight, TakenRight, ContentRight, ObjectAged, PlaceRight
<1> QED BY <1>1, <1>8, <1>9, <1>10 DEF IInv

LEMMA StutterStep == ASSUME IInv, UNCHANGED vars PROVE IInv'
<1>1. /\ SameConf /\ SenderStill /\ ReceiverStill /\ arrived' = arrived
  BY DEF vars, SameConf, SenderStill, ReceiverStill
<1>2. Whole' = Whole /\ SenderHost' = SenderHost /\ ReceiverHost' = ReceiverHost /\ conf' = conf
  BY <1>1, ConfKept DEF SameConf
<1>3. TakenRight' /\ PlaceRight' /\ ReceiverTyped
  BY <1>1, <1>2 DEF IInv, TakenRight, PlaceRight, SenderStill, ReceiverStill
<1> QED BY <1>1, <1>3, PlaceFacts, ReceiverRest DEF ReceiverStill, ReceiverTyped

\* The invariant of the packet transport: the bytes written, arrived and taken
\* stay where the sender and the receiver are in their packet, over every link
\* and however the stream is cut (src/net_trans.c).
THEOREM TransportKept == Spec => []IInv
<1>1. IInv /\ [Next]_vars => IInv'
  BY SendStep, NetworkStep, RecvStep, StutterStep DEF Next
<1> QED BY <1>1, InitRight, PTL DEF Spec

\* A delivered packet is right in exactly the fields that were right when it
\* was sent, for every packet type, either codec and every length of the arrays.
\* Only between hosts of one byte order is anything delivered at all: the header
\* is converted by neither codec (sftt_packet_serialize, recv_sftt_packet).
THEOREM DeliveredFaithfully == Spec => []Faithful
<1>1. IInv => Faithful
  BY LenFacts DEF IInv, ContentRight, Faithful
<1> QED BY <1>1, TransportKept, PTL

\* Every field that has a byte order is reversed by the raw encoder of its
\* message, whichever message it is: the generated files leave none alone and
\* convert none twice (src/serialize_raw.c).
EveryFieldConverted ==
  \A t \in PacketTypes : \A f \in Paths(serializables_raw[t].obj) :
    Times(f, serializables_raw[t].encode) % 2 = 1

\* If so, what is delivered of an object that is sent again and again, for any
\* number of sendings and whatever is assigned in between: with XDR and on a
\* big-endian host every field is right, in the default build on a little-endian
\* host exactly the fields that were sent an even number of times since they
\* were assigned (sftt_packet_serialize).
THEOREM ResentHalfRight ==
  ASSUME EveryFieldConverted
  PROVE  Spec => []ResentAlternate
<1>1. ASSUME IInv PROVE ResentAlternate
  <2>1. SpoilsObject => codec = serializables_raw[type] /\ type \in PacketTypes
    BY <1>1, ConfFacts DEF IInv, SpoilsObject, codec, handlers
  <2>2. \A f \in Fields : SpoilsObject => Times(f, codec.encode) % 2 = 1
    BY <2>1 DEF EveryFieldConverted, Fields
  <2>3. \A f \in Fields : Reversed(f) <=> SpoilsObject
    BY <2>2 DEF Reversed
  <2>4. \A a : RightAfter(a) = {f \in Fields : SpoilsObject => a[f] % 2 = 0}
    BY <2>3 DEF RightAfter
  <2>5. \A i \in DOMAIN got :
          /\ got[i].pkt \in 1 .. Len(sent) /\ got[i].right = sent[got[i].pkt].own
          /\ sent[got[i].pkt].own = RightAfter(sent[got[i].pkt].age)
    BY <1>1, LenFacts DEF IInv, ContentRight, ObjectAged
  <2> QED BY <2>4, <2>5 DEF ResentAlternate
<1> QED BY <1>1, TransportKept, PTL

\* A receiver whose stream arrives in whole pieces keeps its place in it: no
\* byte of a content is taken for a header, no packet is skipped, and an error
\* means that the sender died inside a packet (recv_sftt_packet).
THEOREM PlaceKept == Spec => []InStep
<1>1. IInv => InStep
  BY LenFacts DEF IInv, PlaceRight, InStep
<1> QED BY <1>1, TransportKept, PTL

\* The types of the two ends and of the stream, and that there are never more
\* packets delivered than sent.
THEOREM TransportTyped == Spec => []TypeOK
<1>1. IInv => TypeOK
  <2> SUFFICES ASSUME IInv PROVE TypeOK
    OBVIOUS
  <2>1. type \in Types /\ DOMAIN mem = Fields /\ \A f \in Fields : mem[f] \in {"big", "little"}
    BY DEF IInv, ConfTyped, SenderTyped, Orders
  <2>2. Len(got) <= Len(sent)
    BY PlaceFacts DEF IInv, StreamRight
  <2> QED BY <2>1, <2>2, PlaceFacts DEF IInv, SenderTyped, ReceiverTyped, TypeOK
<1> QED BY <1>1, TransportKept, PTL

-----------------------------------------------------------------------------
\* While a packet is under way on a stream that arrives in whole pieces, one of
\* the sender, the network and the receiver can go on.
NeverStuck ==
  Whole /\ Len(got) < Len(sent) /\ spc # "aborted" =>
    \/ spc = "serialize"
    \/ spc = "header" /\ Room(HeaderLen)
    \/ spc = "content" /\ Room(ContentLen)
    \/ \E n \in 1 .. (MaxSends * PacketLen) : n \in Arrivable /\ n > arrived /\ n <= written
    \/ rpc = "header" /\ Waiting >= HeaderLen
    \/ rpc = "content" /\ Waiting >= ContentLen

\* The receiver leaves its loop only when it has everything or the sender died.
ExitRight ==
  Whole /\ rpc = "exit" => spc = "aborted" \/ (spc = "closed" /\ Len(got) = Len(sent))

LEMMA ExitStep == ASSUME IInv, ExitRight, [Next]_vars PROVE ExitRight'
<1>1. conf' = conf
  BY DEF Next, vars, Send, Network, Recv, Assign, sftt_packet_serialize, sftt_packet_send_header,
         sftt_packet_send_content, send_assert_fails, close_sock, Arrive, recv_header_would_block,
         recv_header_end, recv_header_short, recv_header, recv_content_short, recv_content,
         recv_error
<1>2. Whole' = Whole
  BY <1>1 DEF Whole, ReceiverBlocks
<1> SUFFICES ASSUME Whole, rpc' = "exit"
             PROVE  spc' = "aborted" \/ (spc' = "closed" /\ Len(got') = Len(sent'))
  BY <1>2 DEF ExitRight
<1>3. CASE rpc = "exit"
  <2>1. rpc = "exit" /\ got' = got
    BY <1>3 DEF Next, vars, Send, Network, Recv, Assign, sftt_packet_serialize,
         sftt_packet_send_header, sftt_packet_send_content, send_assert_fails, close_sock, Arrive,
         recv_header_would_block, recv_header_end, recv_header_short, recv_header,
         recv_content_short, recv_content, recv_error, receiver
  <2>2. spc \in {"aborted", "closed"}
    BY <2>1 DEF ExitRight
  <2>3. spc' = spc /\ sent' = sent
    BY <2>2 DEF Next, vars, Send, Network, Recv, Assign, sftt_packet_serialize,
         sftt_packet_send_header, sftt_packet_send_content, send_assert_fails, close_sock, Arrive,
         recv_header_would_block, recv_header_end, recv_header_short, recv_header,
         recv_content_short, recv_content, recv_error, sender
  <2> QED BY <2>1, <2>3 DEF ExitRight
<1>4. CASE rpc # "exit"
  <2>1. recv_header_end \/ recv_error
    BY <1>4 DEF Next, vars, Send, Network, Recv, Assign, sftt_packet_serialize,
         sftt_packet_send_header, sftt_packet_send_content, send_assert_fails, close_sock, Arrive,
         recv_header_would_block, recv_header_end, recv_header_short, recv_header,
         recv_content_short, recv_content, recv_error, receiver
  <2>2. spc' = spc /\ sent' = sent /\ got' = got
    BY <2>1 DEF recv_header_end, recv_error, sender
  <2>3. CASE recv_error
    BY <2>2, <2>3 DEF recv_error, IInv, PlaceRight
  <2>4. CASE recv_header_end /\ spc = "closed"
    <3>1. taken = 4 * Len(got) /\ taken = written /\ written = 4 * Len(sent)
      BY <2>4 DEF recv_header_end, IInv, PlaceRight, StreamRight
    <3>2. Len(got) = Len(sent)
      <4>1. ASSUME NEW a \in Nat, NEW b \in Nat, 4 * a = 4 * b PROVE a = b
        BY <4>1
      <4> QED BY <3>1, <4>1, LenFacts
    <3> QED BY <2>2, <2>4, <3>2
  <2> QED BY <2>1, <2>2, <2>3, <2>4 DEF recv_header_end
<1> QED BY <1>3, <1>4

\* What can arrive next, as numbers.
LEMMA NextPiece ==
  ASSUME NEW g \in Nat, NEW k \in Nat, NEW m \in Nat, NEW w \in Nat, NEW t \in Nat, NEW b \in Nat,
         g < k, k <= m, b >= 4, t = 4 * g \/ t = 4 * g + 2,
         \/ w = 4 * k
         \/ w = 4 * k - 4 /\ w + 2 - t > b
         \/ w = 4 * k - 2 /\ w + 2 - t > b
  PROVE  /\ \E i \in 0 .. 2 * m : i * 2 > t /\ i * 2 <= w /\ i * 2 \in 1 .. (m * 4)
         /\ t % 4 = 0 => \E i \in 0 .. m : i * 4 > t /\ i * 4 <= w /\ i * 4 \in 1 .. (m * 4)
<1>1. w >= t + 2 /\ w <= 4 * m
  OBVIOUS
<1>2. CASE t = 4 * g
  <2>1. (2 * g + 1) * 2 = t + 2 /\ 2 * g + 1 \in 0 .. 2 * m
    BY <1>2
  <2>2. (g + 1) * 4 = t + 4 /\ g + 1 \in 0 .. m /\ w >= t + 4
    BY <1>2
  <2>3. (2 * g + 1) * 2 > t /\ (2 * g + 1) * 2 <= w /\ (2 * g + 1) * 2 \in 1 .. (m * 4)
    BY <1>1, <2>1
  <2>4. (g + 1) * 4 > t /\ (g + 1) * 4 <= w /\ (g + 1) * 4 \in 1 .. (m * 4)
    BY <1>1, <2>2
  <2>5. \E i \in 0 .. 2 * m : i * 2 > t /\ i * 2 <= w /\ i * 2 \in 1 .. (m * 4)
    BY ONLY <2>1, <2>3
  <2>6. \E i \in 0 .. m : i * 4 > t /\ i * 4 <= w /\ i * 4 \in 1 .. (m * 4)
    BY ONLY <2>2, <2>4
  <2> QED BY <2>5, <2>6
<1>3. CASE t = 4 * g + 2
  <2>1. (2 * g + 2) * 2 = t + 2 /\ 2 * g + 2 \in 0 .. 2 * m /\ t % 4 = 2
    BY <1>3
  <2>2. (2 * g + 2) * 2 > t /\ (2 * g + 2) * 2 <= w /\ (2 * g + 2) * 2 \in 1 .. (m * 4)
    BY <1>1, <2>1
  <2>3. \E i \in 0 .. 2 * m : i * 2 > t /\ i * 2 <= w /\ i * 2 \in 1 .. (m * 4)
    BY ONLY <2>1, <2>2
  <2>4. ~ (t % 4 = 0)
    BY ONLY <2>1
  <2> QED BY ONLY <2>3, <2>4
<1> QED BY <1>2, <1>3

LEMMA SomebodyGoesOn == ASSUME IInv, ExitRight PROVE NeverStuck
<1> SUFFICES ASSUME Whole, Len(got) < Len(sent), spc # "aborted",
                    ~ (rpc = "header" /\ Waiting >= HeaderLen),
                    ~ (rpc = "content" /\ Waiting >= ContentLen),
                    spc # "serialize",
                    ~ (spc = "header" /\ Room(HeaderLen)),
                    ~ (spc = "content" /\ Room(ContentLen))
             PROVE  \E n \in 1 .. (MaxSends * PacketLen) :
                       n \in Arrivable /\ n > arrived /\ n <= written
  BY DEF NeverStuck
<1>1. HeaderLen = 2 /\ ContentLen = 2 /\ PacketLen = 4
  BY DEF HeaderLen, ContentLen, PacketLen
<1>2. /\ taken \in Nat /\ arrived \in Nat /\ written \in Nat /\ taken <= arrived
      /\ Len(got) \in Nat /\ Len(sent) \in Nat /\ MaxSends \in Nat /\ Len(sent) <= MaxSends
      /\ SendBuffer \in Nat /\ SendBuffer >= 4
  BY <1>1, LenFacts, PlaceFacts, TransportAssumption DEF IInv, SenderTyped
<1>3. rpc \in {"header", "content"}
  <2>1. rpc # "exit"
    BY <1>2 DEF ExitRight
  <2> QED BY <2>1 DEF IInv, PlaceRight, ReceiverTyped
<1>4. /\ taken = 4 * Len(got) \/ taken = 4 * Len(got) + 2
      /\ arrived % 2 = 0 /\ (conf.arrival = "packet" => arrived % 4 = 0)
  BY <1>3 DEF IInv, PlaceRight
<1>5. arrived = taken
  <2>1. arrived - taken < 2
    BY <1>1, <1>2, <1>3 DEF Waiting
  <2>2. taken % 2 = 0
    BY <1>2, <1>4
  <2> QED BY <1>2, <1>4, <2>1, <2>2
<1>6. \/ written = 4 * Len(sent)
      \/ written = 4 * Len(sent) - 4 /\ written + 2 - taken > SendBuffer
      \/ written = 4 * Len(sent) - 2 /\ written + 2 - taken > SendBuffer
  <2>1. spc \in {"assign", "closed", "header", "content"}
    BY DEF IInv, SenderTyped
  <2>2. CASE spc \in {"assign", "closed"}
    BY <2>2 DEF IInv, StreamRight
  <2>3. CASE spc = "header"
    <3>1. ~ (written + 2 - taken <= SendBuffer)
      BY <1>1, <2>3 DEF Room
    <3>2. written + 2 - taken > SendBuffer
      BY <1>2, <3>1
    <3> QED BY <2>3, <3>2 DEF IInv, StreamRight
  <2>4. CASE spc = "content"
    <3>1. ~ (written + 2 - taken <= SendBuffer)
      BY <1>1, <2>4 DEF Room
    <3>2. written + 2 - taken > SendBuffer
      BY <1>2, <3>1
    <3> QED BY <2>4, <3>2 DEF IInv, StreamRight
  <2> QED BY <2>1, <2>2, <2>3, <2>4
<1>7. /\ \E i \in 0 .. 2 * MaxSends :
            i * 2 > taken /\ i * 2 <= written /\ i * 2 \in 1 .. (MaxSends * 4)
      /\ taken % 4 = 0 => \E i \in 0 .. MaxSends :
            i * 4 > taken /\ i * 4 <= written /\ i * 4 \in 1 .. (MaxSends * 4)
  BY <1>2, <1>4, <1>6, NextPiece
<1>8. CASE conf.arrival = "packet"
  <2>1. PICK i \in 0 .. MaxSends :
            i * 4 > taken /\ i * 4 <= written /\ i * 4 \in 1 .. (MaxSends * 4)
    BY <1>4, <1>5, <1>7, <1>8
  <2>2. i * 4 \in Arrivable
    BY <1>1, <1>8 DEF Arrivable
  <2> QED BY <1>1, <1>5, <2>1, <2>2
<1>9. CASE conf.arrival = "send"
  <2>1. PICK i \in 0 .. 2 * MaxSends :
            i * 2 > taken /\ i * 2 <= written /\ i * 2 \in 1 .. (MaxSends * 4)
    BY <1>7
  <2>2. i * 2 \in Arrivable
    BY <1>1, <1>9 DEF Arrivable
  <2> QED BY <1>1, <1>5, <2>1, <2>2
<1> QED BY <1>8, <1>9 DEF Whole

\* A sender that waits for room and a receiver that waits for the rest of a
\* packet never wait for each other, for any size of the socket buffers that
\* holds one packet: as long as something sent was not delivered, send(), the
\* network or recv() can go on (send_sftt_packet, recv_sftt_packet).
THEOREM PacketsMove == Spec => []NeverStuck
<1>1. Init => ExitRight
  BY DEF Init, ExitRight
<1>2. IInv /\ ExitRight /\ [Next]_vars => ExitRight'
  BY ExitStep
<1>3. IInv /\ ExitRight => NeverStuck
  BY SomebodyGoesOn
<1> QED BY <1>1, <1>2, <1>3, TransportKept, PTL DEF Spec

-----------------------------------------------------------------------------
\* Induction on the naturals, with a set in the place of the predicate.
LEMMA NatSet ==
  ASSUME NEW S \in SUBSET Nat, 0 \in S, \A n \in S : n + 1 \in S
  PROVE  S = Nat
<1> SUFFICES ASSUME Nat \ S # {} PROVE FALSE
  OBVIOUS
<1>1. IsWellFoundedOn(OpToRel(<, Nat), Nat)
  BY NatLessThanWellFounded
<1>2. PICK m \in Nat \ S : \A n \in Nat \ S : ~ (<<n, m>> \in OpToRel(<, Nat))
  <2>1. Nat \ S \subseteq Nat /\ Nat \ S # {}
    OBVIOUS
  <2> QED BY <1>1, <2>1, WFMin
<1>3. \A n \in Nat \ S : ~ (n < m)
  BY <1>2 DEF OpToRel
<1>4. m \in Nat /\ m # 0
  BY <1>3
<1>5. m - 1 \in Nat /\ m - 1 < m /\ (m - 1) + 1 = m
  BY ONLY <1>4
<1> QED BY <1>3, <1>5

\* The function with which FlattenSeq concatenates the first k sequences of s: it
\* exists, it is the only one, and FlattenSeq is its last value.
Flattens(s, k, g) ==
  \A i \in 1 .. k : g[i] = IF i = 1 THEN s[1] ELSE g[i - 1] \o s[i]

LEMMA FlatExists ==
  ASSUME NEW E, NEW s \in Seq(Seq(E))
  PROVE  \A k \in 0 .. Len(s) : \E g \in [1 .. k -> Seq(E)] : Flattens(s, k, g)
<1> DEFINE P(k) == \E g \in [1 .. k -> Seq(E)] : Flattens(s, k, g)
<1> DEFINE S == {k \in Nat : k <= Len(s) => P(k)}
<1>0. Len(s) \in Nat /\ \A i \in 1 .. Len(s) : s[i] \in Seq(E)
  OBVIOUS
<1>1. 0 \in S
  <2>1. Flattens(s, 0, << >>) /\ << >> \in [1 .. 0 -> Seq(E)]
    BY DEF Flattens
  <2> QED BY <2>1
<1>2. ASSUME NEW n \in S PROVE n + 1 \in S
  <2> SUFFICES ASSUME n + 1 <= Len(s) PROVE P(n + 1)
    OBVIOUS
  <2>1. PICK g \in [1 .. n -> Seq(E)] : Flattens(s, n, g)
    BY <1>0
  <2> DEFINE last == IF n = 0 THEN s[1] ELSE g[n] \o s[n + 1]
  <2> DEFINE h == [i \in 1 .. n + 1 |-> IF i = n + 1 THEN last ELSE g[i]]
  <2>2. last \in Seq(E)
    <3>1. CASE n = 0
      BY <3>1, <1>0
    <3>2. CASE n # 0
      <4>1. g[n] \in Seq(E) /\ s[n + 1] \in Seq(E)
        BY <3>2, <1>0
      <4> QED BY <3>2, <4>1
    <3> QED BY <3>1, <3>2
  <2>3. h \in [1 .. n + 1 -> Seq(E)]
    <3> HIDE DEF last
    <3> QED BY <2>2
  <2>4. Flattens(s, n + 1, h)
    <3> SUFFICES ASSUME NEW i \in 1 .. n + 1
                 PROVE  h[i] = IF i = 1 THEN s[1] ELSE h[i - 1] \o s[i]
      BY DEF Flattens
    <3>1. CASE i = n + 1
      <4>1. i # 1 => i - 1 = n /\ i - 1 \in 1 .. n + 1 /\ h[i - 1] = g[n]
        BY <3>1
      <4> QED BY <3>1, <4>1
    <3>2. CASE i # n + 1
      <4>1. i \in 1 .. n /\ h[i] = g[i]
        BY <3>2
      <4>2. i # 1 => i - 1 \in 1 .. n /\ h[i - 1] = g[i - 1]
        BY <4>1
      <4>3. g[i] = IF i = 1 THEN s[1] ELSE g[i - 1] \o s[i]
        BY <4>1, <2>1 DEF Flattens
      <4> HIDE DEF h
      <4> QED BY <4>1, <4>2, <4>3
    <3> QED BY <3>1, <3>2
  <2> HIDE DEF h
  <2> QED BY <2>3, <2>4
<1>3. S = Nat
  <2> HIDE DEF S
  <2>1. 0 \in S /\ \A n \in S : n + 1 \in S
    BY <1>1, <1>2
  <2>2. S \in SUBSET Nat
    BY DEF S
  <2> QED BY <2>1, <2>2, NatSet
<1> HIDE DEF P
<1>4. \A k \in Nat : k <= Len(s) => P(k)
  BY <1>3
<1>5. \A k \in 0 .. Len(s) : k \in Nat /\ k <= Len(s)
  BY <1>0
<1> QED BY <1>4, <1>5 DEF P

\* Two functions that flatten the same prefix are the same there.
LEMMA FlatUnique ==
  ASSUME NEW s, NEW m \in Nat, NEW g, NEW h, Flattens(s, m, g), Flattens(s, m, h)
  PROVE  \A k \in 1 .. m : g[k] = h[k]
<1> DEFINE S == {k \in Nat : k \in 1 .. m => g[k] = h[k]}
<1>1. 0 \in S
  OBVIOUS
<1>2. ASSUME NEW n \in S PROVE n + 1 \in S
  <2> SUFFICES ASSUME n + 1 \in 1 .. m PROVE g[n + 1] = h[n + 1]
    OBVIOUS
  <2>1. /\ g[n + 1] = IF n + 1 = 1 THEN s[1] ELSE g[(n + 1) - 1] \o s[n + 1]
        /\ h[n + 1] = IF n + 1 = 1 THEN s[1] ELSE h[(n + 1) - 1] \o s[n + 1]
    BY DEF Flattens
  <2>2. (n + 1) - 1 = n /\ (n + 1 # 1 => n \in 1 .. m)
    OBVIOUS
  <2>3. n + 1 # 1 => g[n] = h[n]
    BY <2>2
  <2> QED BY <2>1, <2>2, <2>3
<1>3. S = Nat
  <2> HIDE DEF S
  <2>1. 0 \in S /\ \A n \in S : n + 1 \in S
    BY <1>1, <1>2
  <2>2. S \in SUBSET Nat
    BY DEF S
  <2> QED BY <2>1, <2>2, NatSet
<1> QED BY <1>3

\* FlattenSeq is the last value of such a function.
LEMMA FlattenIs ==
  ASSUME NEW E, NEW s \in Seq(Seq(E)), NEW g, Len(s) # 0, Flattens(s, Len(s), g)
  PROVE  FlattenSeq(s) = g[Len(s)]
<1> DEFINE Fix(h) == h = [i \in 1 .. Len(s) |-> IF i = 1 THEN s[i] ELSE h[i - 1] \o s[i]]
<1>0. Len(s) \in Nat /\ Len(s) \in 1 .. Len(s) /\ Len(s) \in 0 .. Len(s)
  OBVIOUS
<1>1. PICK h \in [1 .. Len(s) -> Seq(E)] : Flattens(s, Len(s), h)
  BY <1>0, FlatExists
<1>2. Fix(h)
  <2> DEFINE r == [i \in 1 .. Len(s) |-> IF i = 1 THEN s[i] ELSE h[i - 1] \o s[i]]
  <2>1. \A i \in 1 .. Len(s) : h[i] = r[i]
    BY <1>1 DEF Flattens
  <2> QED BY <2>1
<1> DEFINE F == CHOOSE f : Fix(f)
<1>3. Fix(F)
  BY <1>2
<1>4. FlattenSeq(s) = F[Len(s)]
  BY <1>0 DEF FlattenSeq
<1> HIDE DEF F
<1>5. Flattens(s, Len(s), F)
  BY <1>3 DEF Flattens
<1> QED BY <1>0, <1>4, <1>5, FlatUnique

\* So FlattenSeq is known by what it does with one sequence more.
LEMMA FlattenEmpty == FlattenSeq(<< >>) = << >>
BY DEF FlattenSeq

LEMMA FlattenTyped ==
  ASSUME NEW E, NEW s \in Seq(Seq(E))
  PROVE  FlattenSeq(s) \in Seq(E)
<1>0. Len(s) \in Nat /\ Len(s) \in 0 .. Len(s)
  OBVIOUS
<1>1. CASE Len(s) = 0
  <2>1. s = << >> /\ << >> \in Seq(E)
    BY <1>1
  <2> QED BY <2>1, FlattenEmpty
<1>2. CASE Len(s) # 0
  <2>1. PICK h \in [1 .. Len(s) -> Seq(E)] : Flattens(s, Len(s), h)
    BY <1>0, FlatExists
  <2>2. Len(s) \in 1 .. Len(s)
    BY <1>0, <1>2
  <2>3. h[Len(s)] \in Seq(E)
    BY <2>2
  <2> QED BY <2>1, <2>3, <1>2, FlattenIs
<1> QED BY <1>1, <1>2

LEMMA FlattenAppend ==
  ASSUME NEW E, NEW s \in Seq(Seq(E)), NEW x \in Seq(E)
  PROVE  FlattenSeq(Append(s, x)) = FlattenSeq(s) \o x
<1>m. PICK m \in Nat : m = Len(s)
  OBVIOUS
<1>s. Append(s, x) \in Seq(Seq(E))
  OBVIOUS
<1>t. PICK t \in Seq(Seq(E)) : t = Append(s, x)
  BY <1>s
<1>0. Len(t) = m + 1 /\ m + 1 \in 0 .. (m + 1) /\ m + 1 # 0 /\ m + 1 \in 1 .. (m + 1)
      /\ (m + 1) - 1 = m
  BY <1>m, <1>t
<1>a. t[m + 1] = x /\ \A i \in 1 .. m : t[i] = s[i]
  BY <1>m, <1>t
<1>1. PICK h \in [1 .. m + 1 -> Seq(E)] : Flattens(t, m + 1, h)
  BY <1>0, FlatExists
<1>2. FlattenSeq(t) = h[m + 1]
  BY <1>0, <1>1, FlattenIs
<1>3. h[m + 1] = IF m + 1 = 1 THEN t[1] ELSE h[m] \o t[m + 1]
  BY <1>0, <1>1 DEF Flattens
<1>4. CASE m = 0
  <2>1. s = << >> /\ << >> \o x = x
    BY <1>4, <1>m
  <2>2. FlattenSeq(t) = x
    BY <1>2, <1>3, <1>a, <1>4
  <2> QED BY <2>1, <2>2, <1>t, FlattenEmpty
<1>5. CASE m # 0
  <2>1. Flattens(s, m, h)
    <3>1. \A i \in 1 .. m : i \in 1 .. m + 1 /\ (i = 1 => s[1] = t[1]) /\ s[i] = t[i]
      BY <1>a
    <3> QED BY <3>1, <1>1 DEF Flattens
  <2>2. FlattenSeq(s) = h[m]
    BY <2>1, <1>5, <1>m, FlattenIs
  <2>3. h[m + 1] = h[m] \o x
    BY <1>3, <1>5, <1>a
  <2> QED BY <2>2, <2>3, <1>2, <1>t
<1> QED BY <1>4, <1>5

-----------------------------------------------------------------------------
\* The names of the fields of include/req_resp.h, and what an index is called.
FieldNames ==
  { "a_time", "c_time", "cmd", "connect_id", "content", "data", "entries",
    "entry", "file_idx", "flags", "free_nodes", "ip", "len", "length", "m_time",
    "main_port", "major", "message", "minor", "mode", "mtext", "mtype", "name",
    "name_len", "need_reply", "passwd_len", "passwd_md5", "path", "pid", "port",
    "pwd", "revision", "second_port", "session_id", "size", "status",
    "this_len", "this_nr", "this_size", "to_peer", "total", "total_files",
    "total_len", "total_nodes", "total_size", "type", "uid", "user", "users",
    "using_nodes", "ver" }

Names == FieldNames \cup {ToString(i) : i \in Nat}

\* An element of a layout.
Leaf == [at : Seq(Names), w : Nat]

\* What the generator writes for each element of a struct.
Outputs(s) == [i \in DOMAIN s |-> output_elem(s[i])]

LEMMA ElemTyped ==
  ASSUME NEW e \in Leaf
  PROVE  output_elem(e) \in Seq(Leaf)
BY DEF output_elem

LEMMA OutputsTyped ==
  ASSUME NEW s \in Seq(Leaf)
  PROVE  Outputs(s) \in Seq(Seq(Leaf)) /\ output_encode(s) \in Seq(Leaf)
<1>1. Len(s) \in Nat /\ DOMAIN s = 1 .. Len(s) /\ \A i \in 1 .. Len(s) : s[i] \in Leaf
  OBVIOUS
<1>2. Outputs(s) \in [1 .. Len(s) -> Seq(Leaf)]
  BY <1>1, ElemTyped DEF Outputs
<1>3. Outputs(s) \in Seq(Seq(Leaf))
  BY <1>1, <1>2
<1> QED BY <1>3, FlattenTyped DEF output_encode, Outputs

\* The generator goes through the elements one by one ...
LEMMA EncodeAppend ==
  ASSUME NEW s \in Seq(Leaf), NEW e \in Leaf
  PROVE  output_encode(Append(s, e)) = output_encode(s) \o output_elem(e)
<1>1. Outputs(Append(s, e)) = Append(Outputs(s), output_elem(e))
  <2>1. Outputs(s) \in Seq(Seq(Leaf)) /\ output_elem(e) \in Seq(Leaf)
    BY OutputsTyped, ElemTyped
  <2>s. Append(s, e) \in Seq(Leaf)
    OBVIOUS
  <2>2. Outputs(Append(s, e)) \in Seq(Seq(Leaf))
    BY <2>s, OutputsTyped
  <2>3. Len(Outputs(s)) = Len(s) /\ Len(s) \in Nat
    BY <2>1 DEF Outputs
  <2>4. Len(Outputs(Append(s, e))) = Len(s) + 1 /\ DOMAIN Append(s, e) = 1 .. Len(s) + 1
    BY <2>2 DEF Outputs
  <2>5. ASSUME NEW i \in 1 .. Len(s) + 1
        PROVE  Outputs(Append(s, e))[i] = Append(Outputs(s), output_elem(e))[i]
    <3>1. Outputs(Append(s, e))[i] = output_elem(Append(s, e)[i])
      BY <2>4 DEF Outputs
    <3>2. CASE i = Len(s) + 1
      <4>1. Append(s, e)[i] = e
        BY <3>2
      <4>2. Append(Outputs(s), output_elem(e))[i] = output_elem(e)
        BY <3>2, <2>1, <2>3
      <4> QED BY <4>1, <4>2, <3>1
    <3>3. CASE i # Len(s) + 1
      <4>1. i \in 1 .. Len(s) /\ Append(s, e)[i] = s[i]
        BY <3>3
      <4>2. Outputs(s)[i] = output_elem(s[i])
        BY <4>1 DEF Outputs
      <4>3. Append(Outputs(s), output_elem(e))[i] = Outputs(s)[i]
        BY <4>1, <2>1, <2>3
      <4> QED BY <4>1, <4>2, <4>3, <3>1
    <3> QED BY <3>2, <3>3
  <2>6. Append(Outputs(s), output_elem(e)) \in Seq(Seq(Leaf))
        /\ Len(Append(Outputs(s), output_elem(e))) = Len(s) + 1
    BY <2>1, <2>3
  <2> QED BY <2>2, <2>4, <2>5, <2>6, SeqEqual
<1>2. FlattenSeq(Append(Outputs(s), output_elem(e))) = FlattenSeq(Outputs(s)) \o output_elem(e)
  BY OutputsTyped, ElemTyped, FlattenAppend
<1> QED BY <1>1, <1>2 DEF output_encode, Outputs

LEMMA EncodeEmpty == output_encode(<< >>) = << >>
<1>1. Outputs(<< >>) = << >>
  BY DEF Outputs
<1> QED BY <1>1, FlattenEmpty DEF output_encode, Outputs

\* A sequence that is not empty is one element longer than another.
LEMMA LastOf ==
  ASSUME NEW E, NEW s \in Seq(E), NEW n \in Nat, Len(s) = n + 1
  PROVE  LET u == [i \in 1 .. n |-> s[i]]
         IN  u \in Seq(E) /\ Len(u) = n /\ s[n + 1] \in E /\ s = Append(u, s[n + 1])
<1> DEFINE u == [i \in 1 .. n |-> s[i]]
<1>1. n + 1 \in 1 .. Len(s) /\ n = Len(s) - 1
  OBVIOUS
<1>2. u \in Seq(E) /\ Len(u) = n /\ s[n + 1] \in E
  BY <1>1
<1>3. Append(u, s[n + 1]) \in Seq(E) /\ Len(Append(u, s[n + 1])) = n + 1
  BY <1>2
<1>4. \A i \in 1 .. n + 1 : Append(u, s[n + 1])[i] = s[i]
  BY <1>2
<1>5. s = Append(u, s[n + 1])
  BY <1>3, <1>4, SeqEqual
<1> QED BY <1>2, <1>5

\* Induction on sequences, the same way.
LEMMA SeqSet ==
  ASSUME NEW E, NEW T \in SUBSET Seq(E), << >> \in T,
         \A u \in T : \A e \in E : Append(u, e) \in T
  PROVE  T = Seq(E)
<1> DEFINE S == {n \in Nat : \A s \in Seq(E) : Len(s) = n => s \in T}
<1>1. 0 \in S
  <2>1. \A s \in Seq(E) : Len(s) = 0 => s = << >>
    OBVIOUS
  <2> QED BY <2>1
<1>2. ASSUME NEW n \in Nat, n \in S PROVE n + 1 \in S
  <2> SUFFICES ASSUME NEW s \in Seq(E), Len(s) = n + 1 PROVE s \in T
    OBVIOUS
  <2> DEFINE u == [i \in 1 .. n |-> s[i]]
  <2>1. u \in Seq(E) /\ Len(u) = n /\ s[n + 1] \in E /\ s = Append(u, s[n + 1])
    BY LastOf
  <2> HIDE DEF u
  <2>2. u \in T
    BY <1>2, <2>1
  <2> QED BY <2>1, <2>2
<1>3. S = Nat
  <2> HIDE DEF S
  <2>1. S \in SUBSET Nat
    BY DEF S
  <2>2. 0 \in S /\ \A n \in S : n + 1 \in S
    BY <1>1, <1>2, <2>1
  <2> QED BY <2>1, <2>2, NatSet
<1>4. \A s \in Seq(E) : Len(s) \in Nat
  OBVIOUS
<1> QED BY <1>3, <1>4

\* ... so it writes for two parts what it writes for each,
LEMMA EncodeConcat ==
  ASSUME NEW u \in Seq(Leaf)
  PROVE  \A v \in Seq(Leaf) : output_encode(u \o v) = output_encode(u) \o output_encode(v)
<1> DEFINE T == {v \in Seq(Leaf) : output_encode(u \o v) = output_encode(u) \o output_encode(v)}
<1>1. << >> \in T
  <2>1. u \o << >> = u /\ << >> \in Seq(Leaf)
    OBVIOUS
  <2>2. output_encode(u) \in Seq(Leaf)
    BY OutputsTyped
  <2>3. output_encode(u) \o << >> = output_encode(u)
    BY <2>2
  <2> QED BY <2>1, <2>3, EncodeEmpty
<1>2. ASSUME NEW w \in T, NEW e \in Leaf PROVE Append(w, e) \in T
  <2>1. w \in Seq(Leaf) /\ output_encode(u \o w) = output_encode(u) \o output_encode(w)
    OBVIOUS
  <2>2. Append(w, e) \in Seq(Leaf) /\ u \o w \in Seq(Leaf)
        /\ u \o Append(w, e) = Append(u \o w, e)
    BY <2>1
  <2>3. output_encode(u \o Append(w, e))
          = (output_encode(u) \o output_encode(w)) \o output_elem(e)
    BY <2>1, <2>2, EncodeAppend
  <2>4. output_encode(Append(w, e)) = output_encode(w) \o output_elem(e)
    BY <2>1, EncodeAppend
  <2>5. output_encode(u) \in Seq(Leaf) /\ output_encode(w) \in Seq(Leaf)
        /\ output_elem(e) \in Seq(Leaf)
    BY <2>1, OutputsTyped, ElemTyped
  <2>6. (output_encode(u) \o output_encode(w)) \o output_elem(e)
          = output_encode(u) \o (output_encode(w) \o output_elem(e))
    BY ONLY <2>5, ConcatAssociative
  <2> QED BY <2>2, <2>3, <2>4, <2>6
<1>3. T = Seq(Leaf)
  <2> HIDE DEF T
  <2>1. T \in SUBSET Seq(Leaf)
    BY DEF T
  <2> QED BY <2>1, <1>1, <1>2, SeqSet
<1> QED BY <1>3

-----------------------------------------------------------------------------
\* An element of a struct nested as the field f.
Under(f, e) == [e EXCEPT !.at = << f >> \o @]

LEMMA UnderTyped ==
  ASSUME NEW f \in Names, NEW e \in Leaf
  PROVE  Under(f, e) \in Leaf /\ Under(f, e).w = e.w
<1>1. e.at \in Seq(Names) /\ e.w \in Nat /\ e = [at |-> e.at, w |-> e.w]
  BY DEF Leaf
<1>2. << f >> \o e.at \in Seq(Names)
  BY <1>1
<1>3. PICK p \in Seq(Names), w \in Nat : p = << f >> \o e.at /\ w = e.w
  BY <1>1, <1>2
<1>4. Under(f, e) = [e EXCEPT !.at = p]
  BY <1>3 DEF Under
<1>5. Under(f, e) = [at |-> p, w |-> w]
  BY <1>1, <1>3, <1>4
<1> QED BY <1>3, <1>5 DEF Leaf

\* Sub puts each element of the nested struct there.
LEMMA SubTyped ==
  ASSUME NEW f \in Names, NEW s \in Seq(Leaf)
  PROVE  /\ Sub(f, s) \in Seq(Leaf) /\ Len(Sub(f, s)) = Len(s)
         /\ \A i \in 1 .. Len(s) : Sub(f, s)[i] = Under(f, s[i])
<1>1. Len(s) \in Nat /\ DOMAIN s = 1 .. Len(s) /\ \A i \in 1 .. Len(s) : s[i] \in Leaf
  OBVIOUS
<1>2. \A i \in 1 .. Len(s) : Sub(f, s)[i] = Under(f, s[i])
  BY <1>1 DEF Sub, Under
<1>3. DOMAIN Sub(f, s) = 1 .. Len(s) /\ Sub(f, s) = [i \in 1 .. Len(s) |-> Under(f, s[i])]
  BY <1>1 DEF Sub, Under
<1>4. Sub(f, s) \in [1 .. Len(s) -> Leaf]
  BY <1>1, <1>3, UnderTyped
<1> QED BY <1>1, <1>2, <1>4

LEMMA SubElem ==
  ASSUME NEW f \in Names, NEW e \in Leaf
  PROVE  /\ Sub(f, << e >>) = << Under(f, e) >>
         /\ Sub(f, output_elem(e)) = output_elem(Under(f, e))
<1>1. << e >> \in Seq(Leaf) /\ Len(<< e >>) = 1 /\ << e >>[1] = e
  OBVIOUS
<1>2. Under(f, e) \in Leaf /\ Under(f, e).w = e.w
  BY UnderTyped
<1>3. << Under(f, e) >> \in Seq(Leaf) /\ Len(<< Under(f, e) >>) = 1
      /\ << Under(f, e) >>[1] = Under(f, e)
  BY <1>2
<1>4. Sub(f, << e >>) \in Seq(Leaf) /\ Len(Sub(f, << e >>)) = 1
      /\ Sub(f, << e >>)[1] = Under(f, e)
  <2>1. PICK d \in Seq(Leaf) : d = << e >> /\ Len(d) = 1 /\ d[1] = e
    BY <1>1
  <2>2. Sub(f, d) \in Seq(Leaf) /\ Len(Sub(f, d)) = Len(d)
        /\ \A i \in 1 .. Len(d) : Sub(f, d)[i] = Under(f, d[i])
    BY SubTyped
  <2> QED BY <2>1, <2>2
<1>5. Sub(f, << e >>) = << Under(f, e) >>
  BY <1>3, <1>4, SeqEqual
<1>6. CASE e.w \in {2, 4}
  <2>1. output_elem(e) = << e >> /\ output_elem(Under(f, e)) = << Under(f, e) >>
    BY <1>6, <1>2 DEF output_elem
  <2> QED BY <2>1, <1>5
<1>7. CASE e.w \notin {2, 4}
  <2>1. output_elem(e) = << >> /\ output_elem(Under(f, e)) = << >>
    BY <1>7, <1>2 DEF output_elem
  <2>2. Sub(f, << >>) = << >>
    BY DEF Sub
  <2> QED BY <2>1, <2>2, <1>5
<1> QED BY <1>6, <1>7

LEMMA SubConcat ==
  ASSUME NEW f \in Names, NEW u \in Seq(Leaf), NEW v \in Seq(Leaf)
  PROVE  Sub(f, u \o v) = Sub(f, u) \o Sub(f, v)
<1>1. u \o v \in Seq(Leaf) /\ Len(u \o v) = Len(u) + Len(v) /\ Len(u) \in Nat /\ Len(v) \in Nat
  OBVIOUS
<1>2. PICK a \in Seq(Leaf) : a = Sub(f, u) /\ Len(a) = Len(u)
                             /\ \A i \in 1 .. Len(u) : a[i] = Under(f, u[i])
  BY SubTyped
<1>3. PICK b \in Seq(Leaf) : b = Sub(f, v) /\ Len(b) = Len(v)
                             /\ \A i \in 1 .. Len(v) : b[i] = Under(f, v[i])
  BY SubTyped
<1>4. PICK c \in Seq(Leaf) : c = Sub(f, u \o v) /\ Len(c) = Len(u) + Len(v)
                   /\ \A i \in 1 .. Len(u) + Len(v) : c[i] = Under(f, (u \o v)[i])
  <2>1. PICK d \in Seq(Leaf) : d = u \o v /\ Len(d) = Len(u) + Len(v)
    BY <1>1
  <2>2. Sub(f, d) \in Seq(Leaf) /\ Len(Sub(f, d)) = Len(d)
        /\ \A i \in 1 .. Len(d) : Sub(f, d)[i] = Under(f, d[i])
    BY SubTyped
  <2> QED BY <2>1, <2>2
<1>5. a \o b \in Seq(Leaf) /\ Len(a \o b) = Len(u) + Len(v)
  <2>1. a \o b \in Seq(Leaf) /\ Len(a \o b) = Len(a) + Len(b)
    BY ONLY a \in Seq(Leaf), b \in Seq(Leaf), ConcatProperties
  <2> QED BY <2>1, <1>2, <1>3
<1>6. ASSUME NEW i \in 1 .. Len(u) + Len(v) PROVE c[i] = (a \o b)[i]
  <2>1. CASE i <= Len(u)
    <3>1. i \in 1 .. Len(u) /\ (u \o v)[i] = u[i] /\ (a \o b)[i] = a[i]
      BY <2>1, <1>1, <1>2, <1>3
    <3> QED BY <3>1, <1>2, <1>4
  <2>2. CASE ~ (i <= Len(u))
    <3>1. i - Len(u) \in 1 .. Len(v) /\ (u \o v)[i] = v[i - Len(u)]
          /\ (a \o b)[i] = b[i - Len(u)]
      BY <2>2, <1>1, <1>2, <1>3
    <3> QED BY <3>1, <1>3, <1>4
  <2> QED BY <2>1, <2>2
<1>7. c = a \o b
  BY <1>4, <1>5, <1>6, SeqEqual
<1> QED BY <1>2, <1>3, <1>4, <1>7

\* A nested struct is converted by its own routine,
LEMMA EncodeSub ==
  ASSUME NEW f \in Names
  PROVE  \A s \in Seq(Leaf) : output_encode(Sub(f, s)) = Sub(f, output_encode(s))
<1> DEFINE T == {s \in Seq(Leaf) : output_encode(Sub(f, s)) = Sub(f, output_encode(s))}
<1>1. << >> \in T
  <2>1. Sub(f, << >>) = << >> /\ << >> \in Seq(Leaf)
    BY DEF Sub
  <2> QED BY <2>1, EncodeEmpty
<1>2. ASSUME NEW w \in T, NEW e \in Leaf PROVE Append(w, e) \in T
  <2>1. w \in Seq(Leaf) /\ output_encode(Sub(f, w)) = Sub(f, output_encode(w))
    OBVIOUS
  <2>2. PICK s : s = Append(w, e)
    OBVIOUS
  <2>a. s \in Seq(Leaf)
    BY <2>1, <2>2
  <2>3. output_encode(s) = output_encode(w) \o output_elem(e)
    BY <2>1, <2>2, EncodeAppend
  <2>4. output_encode(w) \in Seq(Leaf) /\ output_elem(e) \in Seq(Leaf)
    BY <2>1, OutputsTyped, ElemTyped
  <2>5. Sub(f, output_encode(s)) = Sub(f, output_encode(w)) \o output_elem(Under(f, e))
    BY <2>3, <2>4, SubConcat, SubElem
  <2>6. Sub(f, w) \in Seq(Leaf) /\ Under(f, e) \in Leaf
    BY <2>1, SubTyped, UnderTyped
  <2>7. Sub(f, s) = Append(Sub(f, w), Under(f, e))
    <3>1. s = w \o << e >> /\ << e >> \in Seq(Leaf)
      BY <2>1, <2>2
    <3>2. Sub(f, << e >>) = << Under(f, e) >>
      BY SubElem
    <3>3. Sub(f, w) \o << Under(f, e) >> = Append(Sub(f, w), Under(f, e))
      BY <2>6
    <3> QED BY <2>1, <3>1, <3>2, <3>3, SubConcat
  <2>8. output_encode(Sub(f, s)) = output_encode(Sub(f, w)) \o output_elem(Under(f, e))
    BY <2>6, <2>7, EncodeAppend
  <2> QED BY <2>1, <2>2, <2>a, <2>5, <2>8
<1>3. T = Seq(Leaf)
  <2> HIDE DEF T
  <2>1. T \in SUBSET Seq(Leaf)
    BY DEF T
  <2> QED BY <2>1, <1>1, <1>2, SeqSet
<1> QED BY <1>3

-----------------------------------------------------------------------------
\* The elements of an array, each under its index.
Items(f, n, s) == [i \in 1 .. n |-> Sub(f, Sub(ToString(i), s))]

LEMMA ItemTyped ==
  ASSUME NEW f \in Names, NEW s \in Seq(Leaf), NEW i \in Nat
  PROVE  /\ ToString(i) \in Names
         /\ Sub(ToString(i), s) \in Seq(Leaf) /\ Sub(f, Sub(ToString(i), s)) \in Seq(Leaf)
<1>1. ToString(i) \in Names
  BY DEF Names
<1>2. Sub(ToString(i), s) \in Seq(Leaf)
  BY <1>1, SubTyped
<1> QED BY <1>1, <1>2, SubTyped

\* An array of one element more.
LEMMA ArrayStep ==
  ASSUME NEW f \in Names, NEW s \in Seq(Leaf), NEW n \in Nat
  PROVE  /\ Array(f, 0, s) = << >>
         /\ Array(f, n, s) \in Seq(Leaf)
         /\ Array(f, n + 1, s) = Array(f, n, s) \o Sub(f, Sub(ToString(n + 1), s))
<1>1. ASSUME NEW k \in Nat
      PROVE  /\ Items(f, k, s) \in Seq(Seq(Leaf)) /\ Len(Items(f, k, s)) = k
             /\ \A i \in 1 .. k : Items(f, k, s)[i] = Sub(f, Sub(ToString(i), s))
  <2>1. \A i \in 1 .. k : Sub(f, Sub(ToString(i), s)) \in Seq(Leaf)
    BY ItemTyped
  <2> QED BY <2>1 DEF Items
<1>2. \A k \in Nat : Array(f, k, s) = FlattenSeq(Items(f, k, s))
  BY DEF Array, Items
<1>3. Array(f, 0, s) = << >>
  <2>1. Items(f, 0, s) = << >>
    BY DEF Items
  <2> QED BY <2>1, <1>2, FlattenEmpty
<1>4. Array(f, n, s) \in Seq(Leaf)
  BY <1>1, <1>2, FlattenTyped
<1>5. PICK x \in Seq(Leaf) : x = Sub(f, Sub(ToString(n + 1), s))
  <2>1. n + 1 \in Nat
    OBVIOUS
  <2> QED BY <2>1, ItemTyped
<1>6. Items(f, n + 1, s) = Append(Items(f, n, s), x)
  <2>1. PICK a \in Seq(Seq(Leaf)) : a = Items(f, n, s) /\ Len(a) = n
               /\ \A i \in 1 .. n : a[i] = Sub(f, Sub(ToString(i), s))
    BY <1>1
  <2>2. n + 1 \in Nat
    OBVIOUS
  <2>3. PICK b \in Seq(Seq(Leaf)) : b = Items(f, n + 1, s) /\ Len(b) = n + 1
               /\ \A i \in 1 .. n + 1 : b[i] = Sub(f, Sub(ToString(i), s))
    BY <1>1, <2>2
  <2>4. PICK c : c = Append(a, x)
    OBVIOUS
  <2>5. c \in Seq(Seq(Leaf)) /\ Len(c) = n + 1 /\ c[n + 1] = x /\ \A i \in 1 .. n : c[i] = a[i]
    BY <2>1, <2>4
  <2>6. \A i \in 1 .. n + 1 : c[i] = b[i]
    <3>1. \A i \in 1 .. n + 1 : i \in 1 .. n \/ i = n + 1
      OBVIOUS
    <3>2. \A i \in 1 .. n : i \in 1 .. n + 1
      OBVIOUS
    <3>3. n + 1 \in 1 .. n + 1
      OBVIOUS
    <3> QED BY <3>1, <3>2, <3>3, <2>1, <2>3, <2>5, <1>5
  <2>7. b = c
    BY <2>3, <2>5, <2>6, SeqEqual
  <2> QED BY <2>1, <2>3, <2>4, <2>7
<1>7. FlattenSeq(Append(Items(f, n, s), x)) = FlattenSeq(Items(f, n, s)) \o x
  BY <1>1, FlattenAppend
<1>8. Array(f, n + 1, s) = Array(f, n, s) \o x
  <2>1. n + 1 \in Nat
    OBVIOUS
  <2> QED BY <2>1, <1>2, <1>6, <1>7
<1> QED BY <1>3, <1>4, <1>5, <1>8

\* and an array element by element, whatever its length.
LEMMA EncodeArray ==
  ASSUME NEW f \in Names, NEW s \in Seq(Leaf)
  PROVE  \A n \in Nat : output_encode(Array(f, n, s)) = Array(f, n, output_encode(s))
<1> DEFINE S == {n \in Nat : output_encode(Array(f, n, s)) = Array(f, n, output_encode(s))}
<1>0. output_encode(s) \in Seq(Leaf)
  BY OutputsTyped
<1>1. 0 \in S
  <2>1. Array(f, 0, s) = << >> /\ Array(f, 0, output_encode(s)) = << >>
    BY <1>0, ArrayStep
  <2> QED BY <2>1, EncodeEmpty
<1>2. ASSUME NEW n \in S PROVE n + 1 \in S
  <2>1. n \in Nat /\ n + 1 \in Nat /\ output_encode(Array(f, n, s)) = Array(f, n, output_encode(s))
    OBVIOUS
  <2>2. PICK x : x = Sub(ToString(n + 1), s)
    OBVIOUS
  <2>3. ToString(n + 1) \in Names /\ x \in Seq(Leaf) /\ Sub(f, x) \in Seq(Leaf)
    BY <2>1, <2>2, ItemTyped
  <2>4. output_encode(Sub(f, x)) = Sub(f, Sub(ToString(n + 1), output_encode(s)))
    BY <2>2, <2>3, EncodeSub
  <2>5. Array(f, n, s) \in Seq(Leaf) /\ Array(f, n + 1, s) = Array(f, n, s) \o Sub(f, x)
    BY <2>1, <2>2, ArrayStep
  <2>6. output_encode(Array(f, n + 1, s)) = output_encode(Array(f, n, s)) \o output_encode(Sub(f, x))
    BY <2>3, <2>5, EncodeConcat
  <2>7. Array(f, n + 1, output_encode(s))
          = Array(f, n, output_encode(s)) \o Sub(f, Sub(ToString(n + 1), output_encode(s)))
    BY <1>0, <2>1, ArrayStep
  <2> QED BY <2>1, <2>4, <2>6, <2>7
<1>3. S = Nat
  <2> HIDE DEF S
  <2>1. S \in SUBSET Nat
    BY DEF S
  <2> QED BY <2>1, <1>1, <1>2, NatSet
<1> QED BY <1>3

-----------------------------------------------------------------------------
\* The raw routine r of a struct with the layout s converts what the generator
\* would write for it.
Generated(s, r) == s \in Seq(Leaf) /\ r = output_encode(s)

LEMMA NamesOf == ASSUME NEW f \in FieldNames PROVE f \in Names /\ << f >> \in Seq(Names)
<1>1. f \in Names
  BY DEF Names
<1> QED BY <1>1

\* The rules by which a routine is compared with its struct: an int or a short is
\* converted and a char array is not,
LEMMA GeneratedElems ==
  ASSUME NEW f \in FieldNames
  PROVE  /\ Generated(Chars(f), << >>)
         /\ Generated(Int32(f), htonl(f)) /\ Generated(Short(f), htons(f))
<1>1. ASSUME NEW w \in Nat
      PROVE  Elem(f, w) \in Seq(Leaf)
             /\ output_encode(Elem(f, w)) = output_elem([at |-> << f >>, w |-> w])
  <2>1. PICK e : e = [at |-> << f >>, w |-> w]
    OBVIOUS
  <2>2. e \in Leaf
    <3>1. << f >> \in Seq(Names)
      BY NamesOf
    <3> QED BY <2>1, <3>1 DEF Leaf
  <2>3. << >> \in Seq(Leaf) /\ Append(<< >>, e) = << e >> /\ << e >> \in Seq(Leaf)
    BY <2>2
  <2>4. output_encode(<< e >>) = << >> \o output_elem(e)
    BY <2>2, <2>3, EncodeAppend, EncodeEmpty
  <2>5. << >> \o output_elem(e) = output_elem(e)
    BY <2>2, ElemTyped, ConcatEmptySeq
  <2> QED BY <2>1, <2>3, <2>4, <2>5 DEF Elem
<1>2. output_elem([at |-> << f >>, w |-> 1]) = << >>
  BY DEF output_elem
<1>3. output_elem([at |-> << f >>, w |-> 2]) = Elem(f, 2)
  BY DEF output_elem, Elem
<1>4. output_elem([at |-> << f >>, w |-> 4]) = Elem(f, 4)
  BY DEF output_elem, Elem
<1> QED BY <1>1, <1>2, <1>3, <1>4 DEF Generated, Chars, Int32, Short, htonl, htons

\* fields that follow each other are converted in that order,
LEMMA GeneratedConcat ==
  ASSUME NEW u, NEW a, NEW v, NEW b, Generated(u, a), Generated(v, b)
  PROVE  Generated(u \o v, a \o b)
<1>1. u \o v \in Seq(Leaf)
  BY ConcatProperties DEF Generated
<1> QED BY <1>1, EncodeConcat DEF Generated

\* A char array adds nothing, before or after what is converted.
LEMMA GeneratedChars ==
  ASSUME NEW u, NEW a, Generated(u, a)
  PROVE  /\ \A f \in FieldNames : Generated(u \o Chars(f), a)
         /\ a = << >> => \A v, b : Generated(v, b) => Generated(u \o v, b)
<1>1. a \in Seq(Leaf) /\ a \o << >> = a
  BY OutputsTyped, ConcatEmptySeq DEF Generated
<1>2. ASSUME NEW f \in FieldNames PROVE Generated(u \o Chars(f), a)
  <2>1. Generated(u \o Chars(f), a \o << >>)
    BY GeneratedElems, GeneratedConcat
  <2> QED BY <2>1, <1>1
<1>3. ASSUME a = << >>, NEW v, NEW b, Generated(v, b) PROVE Generated(u \o v, b)
  <2>1. b \in Seq(Leaf)
    BY <1>3, OutputsTyped DEF Generated
  <2>2. << >> \o b = b
    BY <2>1, ConcatEmptySeq
  <2>3. Generated(u \o v, << >> \o b)
    BY <1>3, GeneratedConcat
  <2> QED BY <2>2, <2>3
<1> QED BY <1>2, <1>3

\* and a nested struct or an array of structs by the routine of the struct.
LEMMA GeneratedNested ==
  ASSUME NEW f \in FieldNames, NEW s, NEW r, Generated(s, r)
  PROVE  /\ Generated(Sub(f, s), Sub(f, r))
         /\ \A n \in Nat : Generated(Array(f, n, s), Array(f, n, r))
<1>0. f \in Names /\ s \in Seq(Leaf) /\ r = output_encode(s)
  BY NamesOf DEF Generated
<1>1. Generated(Sub(f, s), Sub(f, r))
  BY <1>0, SubTyped, EncodeSub DEF Generated
<1>2. ASSUME NEW n \in Nat PROVE Generated(Array(f, n, s), Array(f, n, r))
  <2>1. Array(f, n, s) \in Seq(Leaf)
    BY <1>0, ArrayStep
  <2>2. output_encode(Array(f, n, s)) = Array(f, n, output_encode(s))
    BY <1>0, EncodeArray
  <2> QED BY <1>0, <2>1, <2>2 DEF Generated
<1> QED BY <1>1, <1>2

\* Every struct of the protocol, in the order of include/req_resp.h: its raw
\* routine in src/serialize_raw.c is what the generator writes for it today.
LEMMA RawLayouts ==
  /\ Generated(version_info, version_info_raw)
  /\ Generated(channel_info_req, channel_info_req_raw)
  /\ Generated(channel_info_resp_data, channel_info_resp_data_raw)
  /\ Generated(channel_info_resp, channel_info_resp_raw)
  /\ Generated(validate_req, validate_req_raw)
  /\ Generated(validate_resp_data, validate_resp_data_raw)
  /\ Generated(validate_resp, validate_resp_raw)
  /\ Generated(append_conn_req, append_conn_req_raw)
  /\ Generated(append_conn_resp_data, append_conn_resp_data_raw)
  /\ Generated(append_conn_resp, append_conn_resp_raw)
  /\ Generated(logged_in_user, logged_in_user_raw)
  /\ Generated(pwd_req, pwd_req_raw)
  /\ Generated(pwd_resp_data, pwd_resp_data_raw)
  /\ Generated(pwd_resp, pwd_resp_raw)
  /\ Generated(ll_req, ll_req_raw)
  /\ Generated(file_entry, file_entry_raw)
  /\ Generated(ll_resp_data, ll_resp_data_raw)
  /\ Generated(ll_resp, ll_resp_raw)
  /\ Generated(cd_req, cd_req_raw)
  /\ Generated(cd_resp_data, cd_resp_data_raw)
  /\ Generated(cd_resp, cd_resp_raw)
  /\ Generated(get_req, get_req_raw)
  /\ Generated(trans_entry, trans_entry_raw)
  /\ Generated(get_resp_data, get_resp_data_raw)
  /\ Generated(get_resp, get_resp_raw)
  /\ Generated(put_req_data, put_req_data_raw)
  /\ Generated(put_req, put_req_raw)
  /\ Generated(put_resp, put_resp_raw)
  /\ Generated(common_resp, common_resp_raw)
  /\ Generated(write_msg_req, write_msg_req_raw)
  /\ Generated(read_msg_req, read_msg_req_raw)
  /\ Generated(read_msg_resp_data, read_msg_resp_data_raw)
  /\ Generated(read_msg_resp, read_msg_resp_raw)
  /\ Generated(mp_stat_req, mp_stat_req_raw)
  /\ Generated(mp_stat_resp_data, mp_stat_resp_data_raw)
  /\ Generated(mp_stat_resp, mp_stat_resp_raw)
  /\ Generated(directcmd_req, directcmd_req_raw)
  /\ Generated(directcmd_resp_data, directcmd_resp_data_raw)
  /\ Generated(directcmd_resp, directcmd_resp_raw)
  /\ Generated(who_req, who_req_raw)
  /\ Generated(who_resp_data, who_resp_data_raw)
  /\ Generated(who_resp, who_resp_raw)
  /\ Generated(write_req, write_req_raw)
  /\ Generated(write_resp_data, write_resp_data_raw)
  /\ Generated(write_resp, write_resp_raw)
  /\ Generated(port_update_req, port_update_req_raw)
  /\ Generated(port_update_resp, port_update_resp_raw)
  /\ Generated(reconnect_req, reconnect_req_raw)
  /\ Generated(reconnect_resp, reconnect_resp_raw)
<1>1. Generated(version_info, version_info_raw)
  BY GeneratedElems, GeneratedConcat, GeneratedChars
  DEF FieldNames, version_info, version_info_raw
<1>2. Generated(channel_info_req, channel_info_req_raw)
  BY GeneratedElems, GeneratedConcat, GeneratedChars
  DEF FieldNames, channel_info_req, channel_info_req_raw
<1>3. Generated(channel_info_resp_data, channel_info_resp_data_raw)
  BY GeneratedElems, GeneratedConcat, GeneratedChars
  DEF FieldNames, channel_info_resp_data, channel_info_resp_data_raw
<1>4. Generated(channel_info_resp, channel_info_resp_raw)
  BY <1>3, GeneratedElems, GeneratedConcat, GeneratedChars, GeneratedNested
  DEF FieldNames, channel_info_resp, channel_info_resp_raw
<1>5. Generated(validate_req, validate_req_raw)
  BY <1>1, GeneratedElems, GeneratedConcat, GeneratedChars, GeneratedNested
  DEF FieldNames, validate_req, validate_req_raw
<1>6. Generated(validate_resp_data, validate_resp_data_raw)
  BY GeneratedElems, GeneratedConcat, GeneratedChars
  DEF FieldNames, validate_resp_data, validate_resp_data_raw
<1>7. Generated(validate_resp, validate_resp_raw)
  BY <1>6, GeneratedElems, GeneratedConcat, GeneratedChars, GeneratedNested
  DEF FieldNames, validate_resp, validate_resp_raw
<1>8. Generated(append_conn_req, append_conn_req_raw)
  BY GeneratedElems, GeneratedConcat, GeneratedChars
  DEF FieldNames, append_conn_req, append_conn_req_raw
<1>9. Generated(append_conn_resp_data, append_conn_resp_data_raw)
  BY GeneratedElems, GeneratedConcat, GeneratedChars
  DEF FieldNames, append_conn_resp_data, append_conn_resp_data_raw
<1>10. Generated(append_conn_resp, append_conn_resp_raw)
  BY <1>9, GeneratedElems, GeneratedConcat, GeneratedChars, GeneratedNested
  DEF FieldNames, append_conn_resp, append_conn_resp_raw
<1>11. Generated(logged_in_user, logged_in_user_raw)
  <2>1. /\ Generated(Chars("session_id"), << >>) /\ Generated(Int32("port"), htonl("port"))
        /\ "name" \in FieldNames /\ "ip" \in FieldNames
    BY GeneratedElems DEF FieldNames
  <2>2. Generated(Chars("session_id") \o Chars("name") \o Chars("ip"), << >>)
    BY <2>1, GeneratedChars
  <2> QED BY <2>1, <2>2, GeneratedChars DEF logged_in_user, logged_in_user_raw
<1>12. Generated(pwd_req, pwd_req_raw)
  BY GeneratedElems, GeneratedConcat, GeneratedChars
  DEF FieldNames, pwd_req, pwd_req_raw
<1>13. Generated(pwd_resp_data, pwd_resp_data_raw)
  BY GeneratedElems, GeneratedConcat, GeneratedChars
  DEF FieldNames, pwd_resp_data, pwd_resp_data_raw
<1>14. Generated(pwd_resp, pwd_resp_raw)
  BY <1>13, GeneratedElems, GeneratedConcat, GeneratedChars, GeneratedNested
  DEF FieldNames, pwd_resp, pwd_resp_raw
<1>15. Generated(ll_req, ll_req_raw)
  BY <1>11, GeneratedElems, GeneratedConcat, GeneratedChars, GeneratedNested
  DEF FieldNames, ll_req, ll_req_raw
<1>16. Generated(file_entry, file_entry_raw)
  BY GeneratedElems, GeneratedConcat, GeneratedChars
  DEF FieldNames, file_entry, file_entry_raw
<1>17. Generated(ll_resp_data, ll_resp_data_raw)
  BY <1>16, GeneratedElems, GeneratedConcat, GeneratedChars, GeneratedNested, MaxCntAssumption
  DEF FieldNames, ll_resp_data, ll_resp_data_raw
<1>18. Generated(ll_resp, ll_resp_raw)
  BY <1>17, GeneratedElems, GeneratedConcat, GeneratedChars, GeneratedNested
  DEF FieldNames, ll_resp, ll_resp_raw
<1>19. Generated(cd_req, cd_req_raw)
  BY GeneratedElems, GeneratedConcat, GeneratedChars
  DEF FieldNames, cd_req, cd_req_raw
<1>20. Generated(cd_resp_data, cd_resp_data_raw)
  BY GeneratedElems, GeneratedConcat, GeneratedChars
  DEF FieldNames, cd_resp_data, cd_resp_data_raw
<1>21. Generated(cd_resp, cd_resp_raw)
  BY <1>20, GeneratedElems, GeneratedConcat, GeneratedChars, GeneratedNested
  DEF FieldNames, cd_resp, cd_resp_raw
<1>22. Generated(get_req, get_req_raw)
  BY <1>11, GeneratedElems, GeneratedConcat, GeneratedChars, GeneratedNested
  DEF FieldNames, get_req, get_req_raw
<1>23. Generated(trans_entry, trans_entry_raw)
  BY GeneratedElems, GeneratedConcat, GeneratedChars
  DEF FieldNames, trans_entry, trans_entry_raw
<1>24. Generated(get_resp_data, get_resp_data_raw)
  BY <1>23, GeneratedElems, GeneratedConcat, GeneratedChars, GeneratedNested
  DEF FieldNames, get_resp_data, get_resp_data_raw
<1>25. Generated(get_resp, get_resp_raw)
  BY <1>24, GeneratedElems, GeneratedConcat, GeneratedChars, GeneratedNested
  DEF FieldNames, get_resp, get_resp_raw
<1>26. Generated(put_req_data, put_req_data_raw)
  BY <1>23, GeneratedElems, GeneratedConcat, GeneratedChars, GeneratedNested
  DEF FieldNames, put_req_data, put_req_data_raw
<1>27. Generated(put_req, put_req_raw)
  BY <1>11, <1>26, GeneratedElems, GeneratedConcat, GeneratedChars, GeneratedNested
  DEF FieldNames, put_req, put_req_raw
<1>28. Generated(put_resp, put_resp_raw)
  BY GeneratedElems, GeneratedConcat, GeneratedChars
  DEF FieldNames, put_resp, put_resp_raw
<1>29. Generated(common_resp, common_resp_raw)
  BY GeneratedElems, GeneratedConcat, GeneratedChars
  DEF FieldNames, common_resp, common_resp_raw
<1>30. Generated(write_msg_req, write_msg_req_raw)
  BY GeneratedElems, GeneratedConcat, GeneratedChars
  DEF FieldNames, write_msg_req, write_msg_req_raw
<1>31. Generated(read_msg_req, read_msg_req_raw)
  BY GeneratedElems, GeneratedConcat, GeneratedChars
  DEF FieldNames, read_msg_req, read_msg_req_raw
<1>32. Generated(read_msg_resp_data, read_msg_resp_data_raw)
  BY GeneratedElems, GeneratedConcat, GeneratedChars
  DEF FieldNames, read_msg_resp_data, read_msg_resp_data_raw
<1>33. Generated(read_msg_resp, read_msg_resp_raw)
  BY <1>32, GeneratedElems, GeneratedConcat, GeneratedChars, GeneratedNested
  DEF FieldNames, read_msg_resp, read_msg_resp_raw
<1>34. Generated(mp_stat_req, mp_stat_req_raw)
  BY GeneratedElems, GeneratedConcat, GeneratedChars
  DEF FieldNames, mp_stat_req, mp_stat_req_raw
<1>35. Generated(mp_stat_resp_data, mp_stat_resp_data_raw)
  BY GeneratedElems, GeneratedConcat, GeneratedChars
  DEF FieldNames, mp_stat_resp_data, mp_stat_resp_data_raw
<1>36. Generated(mp_stat_resp, mp_stat_resp_raw)
  BY <1>35, GeneratedElems, GeneratedConcat, GeneratedChars, GeneratedNested
  DEF FieldNames, mp_stat_resp, mp_stat_resp_raw
<1>37. Generated(directcmd_req, directcmd_req_raw)
  BY GeneratedElems, GeneratedConcat, GeneratedChars
  DEF FieldNames, directcmd_req, directcmd_req_raw
<1>38. Generated(directcmd_resp_data, directcmd_resp_data_raw)
  BY GeneratedElems, GeneratedConcat, GeneratedChars
  DEF FieldNames, directcmd_resp_data, directcmd_resp_data_raw
<1>39. Generated(directcmd_resp, directcmd_resp_raw)
  BY <1>38, GeneratedElems, GeneratedConcat, GeneratedChars, GeneratedNested
  DEF FieldNames, directcmd_resp, directcmd_resp_raw
<1>40. Generated(who_req, who_req_raw)
  BY GeneratedElems, GeneratedConcat, GeneratedChars
  DEF FieldNames, who_req, who_req_raw
<1>41. Generated(who_resp_data, who_resp_data_raw)
  BY <1>11, GeneratedElems, GeneratedConcat, GeneratedChars, GeneratedNested, MaxCntAssumption
  DEF FieldNames, who_resp_data, who_resp_data_raw
<1>42. Generated(who_resp, who_resp_raw)
  BY <1>41, GeneratedElems, GeneratedConcat, GeneratedChars, GeneratedNested
  DEF FieldNames, who_resp, who_resp_raw
<1>43. Generated(write_req, write_req_raw)
  BY <1>11, GeneratedElems, GeneratedConcat, GeneratedChars, GeneratedNested
  DEF FieldNames, write_req, write_req_raw
<1>44. Generated(write_resp_data, write_resp_data_raw)
  BY GeneratedElems, GeneratedConcat, GeneratedChars
  DEF FieldNames, write_resp_data, write_resp_data_raw
<1>45. Generated(write_resp, write_resp_raw)
  BY <1>44, GeneratedElems, GeneratedConcat, GeneratedChars, GeneratedNested
  DEF FieldNames, write_resp, write_resp_raw
<1>46. Generated(port_update_req, port_update_req_raw)
  BY GeneratedElems, GeneratedConcat, GeneratedChars
  DEF FieldNames, port_update_req, port_update_req_raw
<1>47. Generated(port_update_resp, port_update_resp_raw)
  BY GeneratedElems, GeneratedConcat, GeneratedChars
  DEF FieldNames, port_update_resp, port_update_resp_raw
<1>48. Generated(reconnect_req, reconnect_req_raw)
  BY GeneratedElems, GeneratedConcat, GeneratedChars
  DEF FieldNames, reconnect_req, reconnect_req_raw
<1>49. Generated(reconnect_resp, reconnect_resp_raw)
  BY GeneratedElems, GeneratedConcat, GeneratedChars
  DEF FieldNames, reconnect_resp, reconnect_resp_raw
<1> QED BY <1>1, <1>2, <1>3, <1>4, <1>5, <1>6, <1>7, <1>8, <1>9, <1>10, <1>11,
           <1>12, <1>13, <1>14, <1>15, <1>16, <1>17, <1>18, <1>19, <1>20, <1>21,
           <1>22, <1>23, <1>24, <1>25, <1>26, <1>27, <1>28, <1>29, <1>30, <1>31,
           <1>32, <1>33, <1>34, <1>35, <1>36, <1>37, <1>38, <1>39, <1>40, <1>41,
           <1>42, <1>43, <1>44, <1>45, <1>46, <1>47, <1>48, <1>49

-----------------------------------------------------------------------------
\* The object of a response has the fields that send_X_resp sets.
Settable(s) == s \in Seq(Leaf) /\ send_resp_sets \subseteq {s[i].at : i \in DOMAIN s}

\* The three fields come first, and what follows them takes nothing away.
LEMMA SettableFirst == Settable(Int32("status") \o Int32("flags") \o Chars("message"))
<1>1. Generated(Int32("status") \o Int32("flags") \o Chars("message"), htonl("status") \o htonl("flags"))
  BY GeneratedElems, GeneratedConcat, GeneratedChars DEF FieldNames
<1>2. PICK s \in Seq(Leaf) : s = Int32("status") \o Int32("flags") \o Chars("message")
  BY <1>1 DEF Generated
<1>3. PICK a, b, c : a = Int32("status") /\ b = Int32("flags") /\ c = Chars("message")
  OBVIOUS
<1>a. /\ a \in Seq(Leaf) /\ Len(a) = 1 /\ a[1].at = <<"status">>
      /\ b \in Seq(Leaf) /\ Len(b) = 1 /\ b[1].at = <<"flags">>
      /\ c \in Seq(Leaf) /\ Len(c) = 1 /\ c[1].at = <<"message">>
  <2>1. a \in Seq(Leaf) /\ b \in Seq(Leaf) /\ c \in Seq(Leaf)
    BY <1>3, GeneratedElems DEF Generated, FieldNames
  <2> QED BY <2>1, <1>3 DEF Int32, Chars, Elem
<1>b. PICK ab \in Seq(Leaf) : ab = a \o b /\ Len(ab) = 2 /\ ab[1] = a[1] /\ ab[2] = b[1]
  <2>1. /\ a \o b \in Seq(Leaf) /\ Len(a \o b) = 2
        /\ (a \o b)[1] = a[1] /\ (a \o b)[2] = b[1]
    <3>0. a \in Seq(Leaf) /\ b \in Seq(Leaf)
      BY <1>a
    <3>1. /\ a \o b \in Seq(Leaf) /\ Len(a \o b) = Len(a) + Len(b)
          /\ \A i \in 1 .. Len(a) + Len(b) :
               (a \o b)[i] = IF i <= Len(a) THEN a[i] ELSE b[i - Len(a)]
      BY ONLY <3>0, ConcatProperties
    <3> QED BY ONLY <3>1, <1>a
  <2> QED BY <2>1
<1>c. Len(ab \o c) = 3 /\ (ab \o c)[1] = ab[1] /\ (ab \o c)[2] = ab[2] /\ (ab \o c)[3] = c[1]
  BY <1>a, <1>b, ConcatProperties
<1>4. DOMAIN s = 1 .. 3 /\ s[1].at = <<"status">> /\ s[2].at = <<"flags">> /\ s[3].at = <<"message">>
  BY <1>2, <1>3, <1>a, <1>b, <1>c
<1>5. send_resp_sets \subseteq {s[i].at : i \in DOMAIN s}
  BY <1>4 DEF send_resp_sets
<1> QED BY <1>2, <1>5 DEF Settable

LEMMA SettableMore ==
  ASSUME NEW u, NEW v, Settable(u), v \in Seq(Leaf)
  PROVE  Settable(u \o v)
<1>1. u \in Seq(Leaf) /\ Len(u) \in Nat /\ Len(v) \in Nat /\ DOMAIN u = 1 .. Len(u)
  BY DEF Settable
<1>2. PICK s \in Seq(Leaf) : s = u \o v /\ Len(s) = Len(u) + Len(v)
                            /\ \A i \in 1 .. Len(u) : s[i] = u[i]
  <2>1. u \o v \in Seq(Leaf) /\ Len(u \o v) = Len(u) + Len(v)
        /\ \A i \in 1 .. Len(u) : (u \o v)[i] = u[i]
    BY <1>1, ConcatProperties
  <2> QED BY <2>1
<1>3. DOMAIN s = 1 .. Len(u) + Len(v)
  BY <1>2
<1>4. \A i \in DOMAIN u : i \in DOMAIN s /\ s[i] = u[i]
  BY <1>1, <1>2, <1>3
<1>5. {u[i].at : i \in DOMAIN u} \subseteq {s[i].at : i \in DOMAIN s}
  BY <1>4
<1> QED BY <1>2, <1>5 DEF Settable

LEMMA LayoutTyped ==
  ASSUME NEW f \in FieldNames, NEW s, NEW r, Generated(s, r)
  PROVE  Sub(f, s) \in Seq(Leaf) /\ Int32(f) \in Seq(Leaf)
BY GeneratedElems, GeneratedNested DEF Generated

LEMMA Responses ==
  /\ Settable(channel_info_resp)
  /\ Settable(validate_resp)
  /\ Settable(append_conn_resp)
  /\ Settable(pwd_resp)
  /\ Settable(ll_resp)
  /\ Settable(cd_resp)
  /\ Settable(get_resp)
  /\ Settable(put_resp)
  /\ Settable(common_resp)
  /\ Settable(read_msg_resp)
  /\ Settable(mp_stat_resp)
  /\ Settable(directcmd_resp)
  /\ Settable(who_resp)
  /\ Settable(write_resp)
  /\ Settable(port_update_resp)
  /\ Settable(reconnect_resp)
<1>1. Settable(channel_info_resp)
  BY RawLayouts, SettableFirst, SettableMore, LayoutTyped
  DEF FieldNames, channel_info_resp
<1>2. Settable(validate_resp)
  BY RawLayouts, SettableFirst, SettableMore, LayoutTyped
  DEF FieldNames, validate_resp
<1>3. Settable(append_conn_resp)
  BY RawLayouts, SettableFirst, SettableMore, LayoutTyped
  DEF FieldNames, append_conn_resp
<1>4. Settable(pwd_resp)
  BY RawLayouts, SettableFirst, SettableMore, LayoutTyped
  DEF FieldNames, pwd_resp
<1>5. Settable(ll_resp)
  BY RawLayouts, SettableFirst, SettableMore, LayoutTyped
  DEF FieldNames, ll_resp
<1>6. Settable(cd_resp)
  BY RawLayouts, SettableFirst, SettableMore, LayoutTyped
  DEF FieldNames, cd_resp
<1>7. Settable(get_resp)
  BY RawLayouts, SettableFirst, SettableMore, LayoutTyped
  DEF FieldNames, get_resp
<1>8. Settable(put_resp)
  BY RawLayouts, SettableFirst, SettableMore, LayoutTyped
  DEF FieldNames, put_resp
<1>9. Settable(common_resp)
  BY RawLayouts, SettableFirst, SettableMore, LayoutTyped
  DEF FieldNames, common_resp
<1>10. Settable(read_msg_resp)
  BY RawLayouts, SettableFirst, SettableMore, LayoutTyped
  DEF FieldNames, read_msg_resp
<1>11. Settable(mp_stat_resp)
  BY RawLayouts, SettableFirst, SettableMore, LayoutTyped
  DEF FieldNames, mp_stat_resp
<1>12. Settable(directcmd_resp)
  BY RawLayouts, SettableFirst, SettableMore, LayoutTyped
  DEF FieldNames, directcmd_resp
<1>13. Settable(who_resp)
  BY RawLayouts, SettableFirst, SettableMore, LayoutTyped
  DEF FieldNames, who_resp
<1>14. Settable(write_resp)
  BY RawLayouts, SettableFirst, SettableMore, LayoutTyped
  DEF FieldNames, write_resp
<1>15. Settable(port_update_resp)
  BY RawLayouts, SettableFirst, SettableMore, LayoutTyped
  DEF FieldNames, port_update_resp
<1>16. Settable(reconnect_resp)
  BY RawLayouts, SettableFirst, SettableMore, LayoutTyped
  DEF FieldNames, reconnect_resp
<1> QED BY <1>1, <1>2, <1>3, <1>4, <1>5, <1>6, <1>7, <1>8, <1>9, <1>10, <1>11,
           <1>12, <1>13, <1>14, <1>15, <1>16

\* What the generators read: every struct has the raw routine they would write,
\* and every response the fields that are set.
LEMMA StructsRight ==
  ASSUME NEW s \in st_list
  PROVE  /\ s.raw = output_encode(s.layout)
         /\ resp_filter(s) => send_resp_sets \subseteq {s.layout[i].at : i \in DOMAIN s.layout}
<1>1. Generated(s.layout, s.raw)
  BY RawLayouts DEF st_list, Described
<1>2. resp_filter(s) => Settable(s.layout)
  BY Responses DEF st_list, Described, resp_filter
<1> QED BY <1>1, <1>2 DEF Generated, Settable

\* The tables have only structs that the generators read as a request or as a
\* response, and the raw table the routine that belongs to the struct.
LEMMA TablesRight ==
  ASSUME NEW t \in PacketTypes
  PROVE  /\ \E s \in st_list : req_resp_filter(s) /\ s.layout = serializables[t].obj
         /\ serializables_raw[t].encode = output_encode(serializables_raw[t].obj)
<1>1. \E s \in st_list : req_resp_filter(s) /\ s.layout = serializables[t].obj
  BY DEF st_list, Described, req_resp_filter, PacketTypes, serializables, Codec,
         validate_req_codec, validate_resp_codec, pwd_req_codec, pwd_resp_codec,
         cd_req_codec, cd_resp_codec, ll_req_codec, ll_resp_codec, get_req_codec,
         get_resp_codec, put_req_codec, put_resp_codec, common_resp_codec,
         write_msg_req_codec, read_msg_req_codec, read_msg_resp_codec,
         mp_stat_req_codec, mp_stat_resp_codec, directcmd_req_codec,
         directcmd_resp_codec, who_req_codec, who_resp_codec, write_req_codec,
         write_resp_codec, append_conn_req_codec, append_conn_resp_codec,
         channel_info_req_codec, channel_info_resp_codec, port_update_req_codec,
         port_update_resp_codec, reconnect_req_codec, reconnect_resp_codec
<1>2. \E s \in st_list : s.layout = serializables_raw[t].obj /\ s.raw = serializables_raw[t].encode
  BY DEF st_list, Described, PacketTypes, serializables, serializables_raw, Codec
<1> QED BY <1>1, <1>2, StructsRight

\* The three functions of the generator go through a struct the same way.
LEMMA SameOutput ==
  ASSUME NEW s
  PROVE  output_decode(s) = output_encode(s) /\ output_native_decode(s) = output_encode(s)
BY DEF output_encode, output_decode, output_native_decode

\* Whatever is sent, the descriptions of its message agree, for every length of
\* the two arrays: struct, XDR routine, raw routine, the tables and what
\* xdr/gen_serialize_raw.c writes (src/serialize_raw.c, src/req_resp.c,
\* src/serialize_handler.c).
THEOREM CodecsAgree == Spec => []LayoutsAgree
<1>1. ASSUME ConfTyped PROVE LayoutsAgree
  <2>1. type \in PacketTypes
    BY <1>1, ConfFacts
  <2>2. /\ conf.build = "xdr" => codec.encode = codec.obj /\ codec.decode = codec.obj
        /\ conf.build = "raw" => codec.decode = codec.encode
    BY <1>1, ConfFacts
  <2>3. codec = serializables_raw[type] \/ codec = serializables[type]
    BY DEF codec, handlers
  <2>4. conf.build = "raw" => codec = serializables_raw[type]
    BY DEF codec, handlers
  <2>5. serializables_raw[type].obj = serializables[type].obj
    BY <2>1, RawTable
  <2>6. codec.obj = serializables[type].obj
    BY <2>3, <2>5
  <2>7. \E s \in st_list : req_resp_filter(s) /\ s.layout = codec.obj
    BY <2>1, <2>6, TablesRight
  <2>8. conf.build = "raw" => /\ codec.encode = output_encode(codec.obj)
                              /\ codec.decode = output_decode(codec.obj)
    BY <2>1, <2>2, <2>4, TablesRight, SameOutput
  <2>9. \A s \in st_list :
          /\ s.raw = output_native_decode(s.layout)
          /\ resp_filter(s) => send_resp_sets \subseteq {s.layout[i].at : i \in DOMAIN s.layout}
    BY StructsRight, SameOutput
  <2> QED BY <2>2, <2>5, <2>7, <2>8, <2>9 DEF LayoutsAgree
<1>2. IInv => LayoutsAgree
  BY <1>1 DEF IInv
<1> QED BY <1>2, TransportKept, PTL
=============================================================================
