----------------------------- MODULE Serialize -----------------------------
(***************************************************************************)
(* The two codecs of the program: XDR (src/serialize.c) and the raw one    *)
(* (src/serialize_raw.c, the default build), the generator the raw one     *)
(* comes from, and the tables that choose a codec by packet type.          *)
(*                                                                         *)
(* X_raw lists the fields of struct X whose bytes X_raw_encode passes      *)
(* through htons or htonl, in order; __X_raw_decode and X_raw_decode pass  *)
(* the same fields through ntohs and ntohl.  A nested struct is converted  *)
(* by its own routine.  All char arrays are copied as they are.            *)
(***************************************************************************)
EXTENDS ReqResp

(* One conversion of a field in place (external: arpa/inet.h).             *)
htons(f) == Elem(f, 2)

htonl(f) == Elem(f, 4)

-----------------------------------------------------------------------------
(* src/serialize_raw.c *)
version_info_raw == htons("major") \o htons("minor") \o htons("revision")

channel_info_req_raw == htonl("flags")

channel_info_resp_data_raw == htonl("main_port") \o htonl("second_port")

channel_info_resp_raw ==
    htonl("status") \o htonl("flags") \o Sub("data", channel_info_resp_data_raw)

validate_req_raw ==
    htonl("name_len") \o htonl("passwd_len") \o Sub("ver", version_info_raw)

validate_resp_data_raw == htonl("uid")

validate_resp_raw ==
    htonl("status") \o htonl("flags") \o Sub("data", validate_resp_data_raw)

append_conn_req_raw == htonl("type")

append_conn_resp_data_raw == << >>

append_conn_resp_raw ==
    htonl("status") \o htonl("flags") \o Sub("data", append_conn_resp_data_raw)

logged_in_user_raw == htonl("port")

pwd_req_raw == << >>

pwd_resp_data_raw == << >>

pwd_resp_raw == htonl("status") \o htonl("flags") \o Sub("data", pwd_resp_data_raw)

ll_req_raw == htonl("to_peer") \o Sub("user", logged_in_user_raw)

(* Mutant: the generated file is older than the last field of the struct. *)
file_entry_rawMut ==
    htonl("type") \o htonl("size") \o htonl("c_time") \o htonl("a_time")
    \o htonl("m_time")

file_entry_raw ==
    htonl("type") \o htonl("size") \o htonl("c_time") \o htonl("a_time")
    \o htonl("m_time") \o htonl("mode")

ll_resp_data_raw ==
    htonl("total") \o htonl("this_nr")
    \o Array("entries", FileEntryMaxCnt, file_entry_raw)

ll_resp_raw == htonl("status") \o htonl("flags") \o Sub("data", ll_resp_data_raw)

cd_req_raw == << >>

cd_resp_data_raw == << >>

cd_resp_raw == htonl("status") \o htonl("flags") \o Sub("data", cd_resp_data_raw)

get_req_raw == htonl("to_peer") \o Sub("user", logged_in_user_raw)

trans_entry_raw ==
    htonl("type") \o htonl("this_size") \o htonl("mode") \o htonl("total_size")

get_resp_data_raw ==
    htonl("total_files") \o htonl("file_idx") \o Sub("entry", trans_entry_raw)

get_resp_raw ==
    htonl("status") \o htonl("flags") \o Sub("data", get_resp_data_raw)
    \o htonl("need_reply")

put_req_data_raw ==
    htonl("total_files") \o htonl("file_idx") \o Sub("entry", trans_entry_raw)

put_req_raw ==
    htonl("to_peer") \o Sub("user", logged_in_user_raw) \o Sub("data", put_req_data_raw)
    \o htonl("flags") \o htonl("need_reply")

put_resp_raw == htonl("status") \o htonl("flags")

common_resp_raw == htonl("status") \o htonl("flags")

write_msg_req_raw == htonl("mtype") \o htonl("pid") \o htonl("length")

read_msg_req_raw == htonl("mtype")

read_msg_resp_data_raw == htonl("mtype") \o htonl("pid") \o htonl("length")

read_msg_resp_raw ==
    htonl("status") \o htonl("flags") \o Sub("data", read_msg_resp_data_raw)

mp_stat_req_raw == << >>

mp_stat_resp_data_raw ==
    htonl("total_size") \o htonl("total_nodes") \o htonl("using_nodes")
    \o htonl("free_nodes")

mp_stat_resp_raw ==
    htonl("status") \o htonl("flags") \o Sub("data", mp_stat_resp_data_raw)

directcmd_req_raw == << >>

directcmd_resp_data_raw == htonl("total_len") \o htonl("this_len")

directcmd_resp_raw ==
    htonl("status") \o htonl("flags") \o Sub("data", directcmd_resp_data_raw)

who_req_raw == << >>

who_resp_data_raw ==
    htonl("total") \o htonl("this_nr")
    \o Array("users", LoggedInUserMaxCnt, logged_in_user_raw)

who_resp_raw == htonl("status") \o htonl("flags") \o Sub("data", who_resp_data_raw)

write_req_raw == Sub("user", logged_in_user_raw) \o htonl("len")

write_resp_data_raw == << >>

write_resp_raw == htonl("status") \o htonl("flags") \o Sub("data", write_resp_data_raw)

port_update_req_raw == htonl("second_port")

port_update_resp_raw == htonl("status") \o htonl("flags")

reconnect_req_raw == << >>

reconnect_resp_raw == htonl("status") \o htonl("flags")

-----------------------------------------------------------------------------
(* src/serialize.c: X_encode hands the object to one XDR routine and       *)
(* X_decode hands the received bytes to one.                               *)
Codec(obj, encode, decode) == [obj |-> obj, encode |-> encode, decode |-> decode]

channel_info_req_codec ==
    Codec(channel_info_req, xdr_channel_info_req, xdr_channel_info_req)

channel_info_resp_codec ==
    Codec(channel_info_resp, xdr_channel_info_resp, xdr_channel_info_resp)

validate_req_codec == Codec(validate_req, xdr_validate_req, xdr_validate_req)

validate_resp_codec == Codec(validate_resp, xdr_validate_resp, xdr_validate_resp)

append_conn_req_codec ==
    Codec(append_conn_req, xdr_append_conn_req, xdr_append_conn_req)

append_conn_resp_codec ==
    Codec(append_conn_resp, xdr_append_conn_resp, xdr_append_conn_resp)

pwd_req_codec == Codec(pwd_req, xdr_pwd_req, xdr_pwd_req)

pwd_resp_codec == Codec(pwd_resp, xdr_pwd_resp, xdr_pwd_resp)

ll_req_codec == Codec(ll_req, xdr_ll_req, xdr_ll_req)

ll_resp_codec == Codec(ll_resp, xdr_ll_resp, xdr_ll_resp)

cd_req_codec == Codec(cd_req, xdr_cd_req, xdr_cd_req)

cd_resp_codec == Codec(cd_resp, xdr_cd_resp, xdr_cd_resp)

get_req_codec == Codec(get_req, xdr_get_req, xdr_get_req)

get_resp_codec == Codec(get_resp, xdr_get_resp, xdr_get_resp)

put_req_codec == Codec(put_req, xdr_put_req, xdr_put_req)

put_resp_codec == Codec(put_resp, xdr_put_resp, xdr_put_resp)

common_resp_codec == Codec(common_resp, xdr_common_resp, xdr_common_resp)

write_msg_req_codec == Codec(write_msg_req, xdr_write_msg_req, xdr_write_msg_req)

read_msg_req_codec == Codec(read_msg_req, xdr_read_msg_req, xdr_read_msg_req)

read_msg_resp_codec == Codec(read_msg_resp, xdr_read_msg_resp, xdr_read_msg_resp)

mp_stat_req_codec == Codec(mp_stat_req, xdr_mp_stat_req, xdr_mp_stat_req)

mp_stat_resp_codec == Codec(mp_stat_resp, xdr_mp_stat_resp, xdr_mp_stat_resp)

directcmd_req_codec == Codec(directcmd_req, xdr_directcmd_req, xdr_directcmd_req)

directcmd_resp_codec == Codec(directcmd_resp, xdr_directcmd_resp, xdr_directcmd_resp)

who_req_codec == Codec(who_req, xdr_who_req, xdr_who_req)

who_resp_codec == Codec(who_resp, xdr_who_resp, xdr_who_resp)

write_req_codec == Codec(write_req, xdr_write_req, xdr_write_req)

write_resp_codec == Codec(write_resp, xdr_write_resp, xdr_write_resp)

port_update_req_codec ==
    Codec(port_update_req, xdr_port_update_req, xdr_port_update_req)

port_update_resp_codec ==
    Codec(port_update_resp, xdr_port_update_resp, xdr_port_update_resp)

reconnect_req_codec == Codec(reconnect_req, xdr_reconnect_req, xdr_reconnect_req)

reconnect_resp_codec == Codec(reconnect_resp, xdr_reconnect_resp, xdr_reconnect_resp)

-----------------------------------------------------------------------------
(* src/serialize_handler.c *)
serializables ==
    [ VALIDATE_REQ |-> validate_req_codec,
      VALIDATE_RESP |-> validate_resp_codec,
      PWD_REQ |-> pwd_req_codec,
      PWD_RESP |-> pwd_resp_codec,
      CD_REQ |-> cd_req_codec,
      CD_RESP |-> cd_resp_codec,
      LL_REQ |-> ll_req_codec,
      LL_RESP |-> ll_resp_codec,
      GET_REQ |-> get_req_codec,
      GET_RESP |-> get_resp_codec,
      PUT_REQ |-> put_req_codec,
      PUT_RESP |-> put_resp_codec,
      COMMON_RESP |-> common_resp_codec,
      WRITE_MSG_REQ |-> write_msg_req_codec,
      READ_MSG_REQ |-> read_msg_req_codec,
      READ_MSG_RESP |-> read_msg_resp_codec,
      MP_STAT_REQ |-> mp_stat_req_codec,
      MP_STAT_RESP |-> mp_stat_resp_codec,
      DIRECTCMD_REQ |-> directcmd_req_codec,
      DIRECTCMD_RESP |-> directcmd_resp_codec,
      WHO_REQ |-> who_req_codec,
      WHO_RESP |-> who_resp_codec,
      WRITE_REQ |-> write_req_codec,
      WRITE_RESP |-> write_resp_codec,
      APPEND_CONN_REQ |-> append_conn_req_codec,
      APPEND_CONN_RESP |-> append_conn_resp_codec,
      CHANNEL_INFO_REQ |-> channel_info_req_codec,
      CHANNEL_INFO_RESP |-> channel_info_resp_codec,
      PORT_UPDATE_REQ |-> port_update_req_codec,
      PORT_UPDATE_RESP |-> port_update_resp_codec,
      RECONNECT_REQ |-> reconnect_req_codec,
      RECONNECT_RESP |-> reconnect_resp_codec ]

serializables_raw ==
    [ VALIDATE_REQ |-> Codec(validate_req, validate_req_raw, validate_req_raw),
      VALIDATE_RESP |-> Codec(validate_resp, validate_resp_raw, validate_resp_raw),
      PWD_REQ |-> Codec(pwd_req, pwd_req_raw, pwd_req_raw),
      PWD_RESP |-> Codec(pwd_resp, pwd_resp_raw, pwd_resp_raw),
      CD_REQ |-> Codec(cd_req, cd_req_raw, cd_req_raw),
      CD_RESP |-> Codec(cd_resp, cd_resp_raw, cd_resp_raw),
      LL_REQ |-> Codec(ll_req, ll_req_raw, ll_req_raw),
      LL_RESP |-> Codec(ll_resp, ll_resp_raw, ll_resp_raw),
      GET_REQ |-> Codec(get_req, get_req_raw, get_req_raw),
      GET_RESP |-> Codec(get_resp, get_resp_raw, get_resp_raw),
      PUT_REQ |-> Codec(put_req, put_req_raw, put_req_raw),
      PUT_RESP |-> Codec(put_resp, put_resp_raw, put_resp_raw),
      COMMON_RESP |-> Codec(common_resp, common_resp_raw, common_resp_raw),
      WRITE_MSG_REQ |-> Codec(write_msg_req, write_msg_req_raw, write_msg_req_raw),
      READ_MSG_REQ |-> Codec(read_msg_req, read_msg_req_raw, read_msg_req_raw),
      READ_MSG_RESP |-> Codec(read_msg_resp, read_msg_resp_raw, read_msg_resp_raw),
      MP_STAT_REQ |-> Codec(mp_stat_req, mp_stat_req_raw, mp_stat_req_raw),
      MP_STAT_RESP |-> Codec(mp_stat_resp, mp_stat_resp_raw, mp_stat_resp_raw),
      DIRECTCMD_REQ |-> Codec(directcmd_req, directcmd_req_raw, directcmd_req_raw),
      DIRECTCMD_RESP |-> Codec(directcmd_resp, directcmd_resp_raw, directcmd_resp_raw),
      WHO_REQ |-> Codec(who_req, who_req_raw, who_req_raw),
      WHO_RESP |-> Codec(who_resp, who_resp_raw, who_resp_raw),
      WRITE_REQ |-> Codec(write_req, write_req_raw, write_req_raw),
      WRITE_RESP |-> Codec(write_resp, write_resp_raw, write_resp_raw),
      APPEND_CONN_REQ |-> Codec(append_conn_req, append_conn_req_raw, append_conn_req_raw),
      APPEND_CONN_RESP |-> Codec(append_conn_resp, append_conn_resp_raw, append_conn_resp_raw),
      CHANNEL_INFO_REQ |-> Codec(channel_info_req, channel_info_req_raw, channel_info_req_raw),
      CHANNEL_INFO_RESP |-> Codec(channel_info_resp, channel_info_resp_raw, channel_info_resp_raw),
      PORT_UPDATE_REQ |-> Codec(port_update_req, port_update_req_raw, port_update_req_raw),
      PORT_UPDATE_RESP |-> Codec(port_update_resp, port_update_resp_raw, port_update_resp_raw),
      RECONNECT_REQ |-> Codec(reconnect_req, reconnect_req_raw, reconnect_req_raw),
      RECONNECT_RESP |-> Codec(reconnect_resp, reconnect_resp_raw, reconnect_resp_raw) ]

PacketTypes == DOMAIN serializables

-----------------------------------------------------------------------------
(* The description the generators read: every struct of the protocol with  *)
(* the ending of its name.                                                 *)
Described(suffix, layout, xdr, raw) ==
    [suffix |-> suffix, layout |-> layout, xdr |-> xdr, raw |-> raw]

st_list ==
    { Described("none", version_info, xdr_version_info, version_info_raw),
      Described("req", channel_info_req, xdr_channel_info_req, channel_info_req_raw),
      Described("none", channel_info_resp_data, xdr_channel_info_resp_data, channel_info_resp_data_raw),
      Described("resp", channel_info_resp, xdr_channel_info_resp, channel_info_resp_raw),
      Described("req", validate_req, xdr_validate_req, validate_req_raw),
      Described("none", validate_resp_data, xdr_validate_resp_data, validate_resp_data_raw),
      Described("resp", validate_resp, xdr_validate_resp, validate_resp_raw),
      Described("req", append_conn_req, xdr_append_conn_req, append_conn_req_raw),
      Described("none", append_conn_resp_data, xdr_append_conn_resp_data, append_conn_resp_data_raw),
      Described("resp", append_conn_resp, xdr_append_conn_resp, append_conn_resp_raw),
      Described("none", logged_in_user, xdr_logged_in_user, logged_in_user_raw),
      Described("req", pwd_req, xdr_pwd_req, pwd_req_raw),
      Described("none", pwd_resp_data, xdr_pwd_resp_data, pwd_resp_data_raw),
      Described("resp", pwd_resp, xdr_pwd_resp, pwd_resp_raw),
      Described("req", ll_req, xdr_ll_req, ll_req_raw),
      Described("none", file_entry, xdr_file_entry, file_entry_raw),
      Described("none", ll_resp_data, xdr_ll_resp_data, ll_resp_data_raw),
      Described("resp", ll_resp, xdr_ll_resp, ll_resp_raw),
      Described("req", cd_req, xdr_cd_req, cd_req_raw),
      Described("none", cd_resp_data, xdr_cd_resp_data, cd_resp_data_raw),
      Described("resp", cd_resp, xdr_cd_resp, cd_resp_raw),
      Described("req", get_req, xdr_get_req, get_req_raw),
      Described("none", trans_entry, xdr_trans_entry, trans_entry_raw),
      Described("none", get_resp_data, xdr_get_resp_data, get_resp_data_raw),
      Described("resp", get_resp, xdr_get_resp, get_resp_raw),
      Described("none", put_req_data, xdr_put_req_data, put_req_data_raw),
      Described("req", put_req, xdr_put_req, put_req_raw),
      Described("resp", put_resp, xdr_put_resp, put_resp_raw),
      Described("resp", common_resp, xdr_common_resp, common_resp_raw),
      Described("req", write_msg_req, xdr_write_msg_req, write_msg_req_raw),
      Described("req", read_msg_req, xdr_read_msg_req, read_msg_req_raw),
      Described("none", read_msg_resp_data, xdr_read_msg_resp_data, read_msg_resp_data_raw),
      Described("resp", read_msg_resp, xdr_read_msg_resp, read_msg_resp_raw),
      Described("req", mp_stat_req, xdr_mp_stat_req, mp_stat_req_raw),
      Described("none", mp_stat_resp_data, xdr_mp_stat_resp_data, mp_stat_resp_data_raw),
      Described("resp", mp_stat_resp, xdr_mp_stat_resp, mp_stat_resp_raw),
      Described("req", directcmd_req, xdr_directcmd_req, directcmd_req_raw),
      Described("none", directcmd_resp_data, xdr_directcmd_resp_data, directcmd_resp_data_raw),
      Described("resp", directcmd_resp, xdr_directcmd_resp, directcmd_resp_raw),
      Described("req", who_req, xdr_who_req, who_req_raw),
      Described("none", who_resp_data, xdr_who_resp_data, who_resp_data_raw),
      Described("resp", who_resp, xdr_who_resp, who_resp_raw),
      Described("req", write_req, xdr_write_req, write_req_raw),
      Described("none", write_resp_data, xdr_write_resp_data, write_resp_data_raw),
      Described("resp", write_resp, xdr_write_resp, write_resp_raw),
      Described("req", port_update_req, xdr_port_update_req, port_update_req_raw),
      Described("resp", port_update_resp, xdr_port_update_resp, port_update_resp_raw),
      Described("req", reconnect_req, xdr_reconnect_req, reconnect_req_raw),
      Described("resp", reconnect_resp, xdr_reconnect_resp, reconnect_resp_raw) }

(* xdr/gen_serialize_raw.c goes through the elements of a struct and       *)
(* writes a conversion for one of type short, int or struct, whatever the  *)
(* number of its dimensions, and nothing for a char.                       *)
output_elem(e) == IF e.w \in {2, 4} THEN << e >> ELSE << >>

output_encode(s) == FlattenSeq([i \in DOMAIN s |-> output_elem(s[i])])

output_decode(s) == FlattenSeq([i \in DOMAIN s |-> output_elem(s[i])])

output_native_decode(s) == FlattenSeq([i \in DOMAIN s |-> output_elem(s[i])])

(* xdr/gen_serialize.c writes a codec for the structs that are a request   *)
(* or a response, xdr/gen_trans.c a send_X for the responses.              *)
req_resp_filter(s) == s.suffix \in {"req", "resp"}

resp_filter(s) == s.suffix = "resp"

(* src/trans.c: send_X sets status, message and flags of the response      *)
(* before it sends it; nothing else of the object is assigned there.       *)
send_resp_sets == {<<"status">>, <<"message">>, <<"flags">>}
=============================================================================
