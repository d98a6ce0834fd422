------------------------------ MODULE ReqResp ------------------------------
(***************************************************************************)
(* The layout of every message of the protocol, and the order in which the *)
(* XDR routine of each one visits its fields.                              *)
(*                                                                         *)
(* A layout is the sequence of the leaves of the C struct: the path of the *)
(* field and its width in bytes (1 for a char array, whose bytes have no   *)
(* order to convert).  `struct X' of include/req_resp.h is the definition  *)
(* X, and the routine xdr_X of src/req_resp.c is the definition xdr_X: the *)
(* two are written by rpcgen and modelled separately, so that they can be  *)
(* compared.  Every xdr_X stops at the first field it cannot transfer;     *)
(* three of them (file_entry, trans_entry, mp_stat_resp_data) have an      *)
(* inlined branch, which visits the same fields in the same order.         *)
(***************************************************************************)
EXTENDS Naturals, Sequences, SequencesExt, TLC

CONSTANTS
    FileEntryMaxCnt,      \* XDR_FILE_ENTRY_MAX_CNT, 16 in the code
    LoggedInUserMaxCnt    \* XDR_LOGGED_IN_USER_MAX_CNT, 32 in the code

ASSUME MaxCntAssumption ==
    /\ FileEntryMaxCnt \in Nat \ {0}
    /\ LoggedInUserMaxCnt \in Nat \ {0}

(* The elements a struct is declared with: its one-word types, a nested    *)
(* struct, and an array of structs.                                        *)
Elem(f, w) == << [at |-> <<f>>, w |-> w] >>

Chars(f) == Elem(f, 1)

Short(f) == Elem(f, 2)

Int32(f) == Elem(f, 4)

Sub(f, s) == [i \in DOMAIN s |-> [s[i] EXCEPT !.at = <<f>> \o @]]

Array(f, n, s) ==
    FlattenSeq([i \in 1..n |-> Sub(f, Sub(ToString(i), s))])

(* What one call of the XDR library transfers (external: libtirpc).        *)
xdr_chars(f) == Elem(f, 1)

xdr_short(f) == Elem(f, 2)

xdr_int(f) == Elem(f, 4)

xdr_vector(f, n, proc) == Array(f, n, proc)

-----------------------------------------------------------------------------
(* include/req_resp.h *)
version_info == Short("major") \o Short("minor") \o Short("revision")

channel_info_req == Int32("flags")

channel_info_resp_data == Int32("main_port") \o Int32("second_port")

channel_info_resp ==
    Int32("status") \o Int32("flags") \o Chars("message")
    \o Sub("data", channel_info_resp_data)

validate_req ==
    Int32("name_len") \o Int32("passwd_len") \o Chars("name") \o Chars("passwd_md5")
    \o Sub("ver", version_info)

validate_resp_data ==
    Int32("uid") \o Chars("name") \o Chars("session_id") \o Chars("connect_id")
    \o Chars("pwd")

validate_resp ==
    Int32("status") \o Int32("flags") \o Chars("message")
    \o Sub("data", validate_resp_data)

append_conn_req == Chars("session_id") \o Int32("type")

append_conn_resp_data == Chars("connect_id")

append_conn_resp ==
    Int32("status") \o Int32("flags") \o Chars("message")
    \o Sub("data", append_conn_resp_data)

logged_in_user == Chars("session_id") \o Chars("name") \o Chars("ip") \o Int32("port")

pwd_req == Chars("session_id")

pwd_resp_data == Chars("pwd")

pwd_resp ==
    Int32("status") \o Int32("flags") \o Chars("message") \o Sub("data", pwd_resp_data)

ll_req ==
    Chars("session_id") \o Chars("path") \o Int32("to_peer")
    \o Sub("user", logged_in_user)

file_entry ==
    Chars("name") \o Int32("type") \o Int32("size") \o Int32("c_time")
    \o Int32("a_time") \o Int32("m_time") \o Int32("mode")

ll_resp_data ==
    Int32("total") \o Int32("this_nr") \o Array("entries", FileEntryMaxCnt, file_entry)

ll_resp ==
    Int32("status") \o Int32("flags") \o Chars("message") \o Sub("data", ll_resp_data)

cd_req == Chars("session_id") \o Chars("path")

cd_resp_data == Chars("pwd")

cd_resp ==
    Int32("status") \o Int32("flags") \o Chars("message") \o Sub("data", cd_resp_data)

get_req ==
    Chars("session_id") \o Chars("path") \o Int32("to_peer")
    \o Sub("user", logged_in_user)

trans_entry ==
    Int32("type") \o Int32("this_size") \o Int32("mode") \o Int32("total_size")
    \o Chars("content")

get_resp_data == Int32("total_files") \o Int32("file_idx") \o Sub("entry", trans_entry)

get_resp ==
    Int32("status") \o Int32("flags") \o Chars("message") \o Sub("data", get_resp_data)
    \o Int32("need_reply")

put_req_data == Int32("total_files") \o Int32("file_idx") \o Sub("entry", trans_entry)

put_req ==
    Chars("session_id") \o Int32("to_peer") \o Sub("user", logged_in_user)
    \o Sub("data", put_req_data) \o Int32("flags") \o Int32("need_reply")

put_resp == Int32("status") \o Int32("flags") \o Chars("message")

common_resp == Int32("status") \o Int32("flags") \o Chars("message")

write_msg_req ==
    Int32("mtype") \o Chars("name") \o Int32("pid") \o Int32("length") \o Chars("mtext")

read_msg_req == Int32("mtype")

read_msg_resp_data ==
    Int32("mtype") \o Chars("name") \o Int32("pid") \o Int32("length") \o Chars("mtext")

read_msg_resp ==
    Int32("status") \o Int32("flags") \o Chars("message")
    \o Sub("data", read_msg_resp_data)

mp_stat_req == Chars("session_id")

mp_stat_resp_data ==
    Int32("total_size") \o Int32("total_nodes") \o Int32("using_nodes")
    \o Int32("free_nodes")

mp_stat_resp ==
    Int32("status") \o Int32("flags") \o Chars("message")
    \o Sub("data", mp_stat_resp_data)

directcmd_req == Chars("session_id") \o Chars("cmd")

directcmd_resp_data == Int32("total_len") \o Int32("this_len") \o Chars("content")

directcmd_resp ==
    Int32("status") \o Int32("flags") \o Chars("message")
    \o Sub("data", directcmd_resp_data)

who_req == Chars("session_id")

who_resp_data ==
    Int32("total") \o Int32("this_nr")
    \o Array("users", LoggedInUserMaxCnt, logged_in_user)

who_resp ==
    Int32("status") \o Int32("flags") \o Chars("message") \o Sub("data", who_resp_data)

write_req == Sub("user", logged_in_user) \o Int32("len") \o Chars("message")

write_resp_data == Chars("message")

write_resp ==
    Int32("status") \o Int32("flags") \o Chars("message")
    \o Sub("data", write_resp_data)

port_update_req == Int32("second_port")

port_update_resp == Int32("status") \o Int32("flags") \o Chars("message")

reconnect_req == Chars("session_id") \o Chars("connect_id")

reconnect_resp == Int32("status") \o Int32("flags") \o Chars("message")

-----------------------------------------------------------------------------
(* src/req_resp.c *)
xdr_version_info == xdr_short("major") \o xdr_short("minor") \o xdr_short("revision")

xdr_channel_info_req == xdr_int("flags")

xdr_channel_info_resp_data == xdr_int("main_port") \o xdr_int("second_port")

xdr_channel_info_resp ==
    xdr_int("status") \o xdr_int("flags") \o xdr_chars("message")
    \o Sub("data", xdr_channel_info_resp_data)

xdr_validate_req ==
    xdr_int("name_len") \o xdr_int("passwd_len") \o xdr_chars("name")
    \o xdr_chars("passwd_md5") \o Sub("ver", xdr_version_info)

xdr_validate_resp_data ==
    xdr_int("uid") \o xdr_chars("name") \o xdr_chars("session_id")
    \o xdr_chars("connect_id") \o xdr_chars("pwd")

xdr_validate_resp ==
    xdr_int("status") \o xdr_int("flags") \o xdr_chars("message")
    \o Sub("data", xdr_validate_resp_data)

xdr_append_conn_req == xdr_chars("session_id") \o xdr_int("type")

xdr_append_conn_resp_data == xdr_chars("connect_id")

xdr_append_conn_resp ==
    xdr_int("status") \o xdr_int("flags") \o xdr_chars("message")
    \o Sub("data", xdr_append_conn_resp_data)

xdr_logged_in_user ==
    xdr_chars("session_id") \o xdr_chars("name") \o xdr_chars("ip") \o xdr_int("port")

xdr_pwd_req == xdr_chars("session_id")

xdr_pwd_resp_data == xdr_chars("pwd")

xdr_pwd_resp ==
    xdr_int("status") \o xdr_int("flags") \o xdr_chars("message")
    \o Sub("data", xdr_pwd_resp_data)

xdr_ll_req ==
    xdr_chars("session_id") \o xdr_chars("path") \o xdr_int("to_peer")
    \o Sub("user", xdr_logged_in_user)

xdr_file_entry ==
    xdr_chars("name") \o xdr_int("type") \o xdr_int("size") \o xdr_int("c_time")
    \o xdr_int("a_time") \o xdr_int("m_time") \o xdr_int("mode")

xdr_ll_resp_data ==
    xdr_int("total") \o xdr_int("this_nr")
    \o xdr_vector("entries", FileEntryMaxCnt, xdr_file_entry)

xdr_ll_resp ==
    xdr_int("status") \o xdr_int("flags") \o xdr_chars("message")
    \o Sub("data", xdr_ll_resp_data)

xdr_cd_req == xdr_chars("session_id") \o xdr_chars("path")

xdr_cd_resp_data == xdr_chars("pwd")

xdr_cd_resp ==
    xdr_int("status") \o xdr_int("flags") \o xdr_chars("message")
    \o Sub("data", xdr_cd_resp_data)

xdr_get_req ==
    xdr_chars("session_id") \o xdr_chars("path") \o xdr_int("to_peer")
    \o Sub("user", xdr_logged_in_user)

xdr_trans_entry ==
    xdr_int("type") \o xdr_int("this_size") \o xdr_int("mode") \o xdr_int("total_size")
    \o xdr_chars("content")

xdr_get_resp_data ==
    xdr_int("total_files") \o xdr_int("file_idx") \o Sub("entry", xdr_trans_entry)

xdr_get_resp ==
    xdr_int("status") \o xdr_int("flags") \o xdr_chars("message")
    \o Sub("data", xdr_get_resp_data) \o xdr_int("need_reply")

xdr_put_req_data ==
    xdr_int("total_files") \o xdr_int("file_idx") \o Sub("entry", xdr_trans_entry)

xdr_put_req ==
    xdr_chars("session_id") \o xdr_int("to_peer") \o Sub("user", xdr_logged_in_user)
    \o Sub("data", xdr_put_req_data) \o xdr_int("flags") \o xdr_int("need_reply")

xdr_put_resp == xdr_int("status") \o xdr_int("flags") \o xdr_chars("message")

xdr_common_resp == xdr_int("status") \o xdr_int("flags") \o xdr_chars("message")

xdr_write_msg_req ==
    xdr_int("mtype") \o xdr_chars("name") \o xdr_int("pid") \o xdr_int("length")
    \o xdr_chars("mtext")

xdr_read_msg_req == xdr_int("mtype")

xdr_read_msg_resp_data ==
    xdr_int("mtype") \o xdr_chars("name") \o xdr_int("pid") \o xdr_int("length")
    \o xdr_chars("mtext")

xdr_read_msg_resp ==
    xdr_int("status") \o xdr_int("flags") \o xdr_chars("message")
    \o Sub("data", xdr_read_msg_resp_data)

xdr_mp_stat_req == xdr_chars("session_id")

xdr_mp_stat_resp_data ==
    xdr_int("total_size") \o xdr_int("total_nodes") \o xdr_int("using_nodes")
    \o xdr_int("free_nodes")

xdr_mp_stat_resp ==
    xdr_int("status") \o xdr_int("flags") \o xdr_chars("message")
    \o Sub("data", xdr_mp_stat_resp_data)

xdr_directcmd_req == xdr_chars("session_id") \o xdr_chars("cmd")

xdr_directcmd_resp_data ==
    xdr_int("total_len") \o xdr_int("this_len") \o xdr_chars("content")

xdr_directcmd_resp ==
    xdr_int("status") \o xdr_int("flags") \o xdr_chars("message")
    \o Sub("data", xdr_directcmd_resp_data)

xdr_who_req == xdr_chars("session_id")

xdr_who_resp_data ==
    xdr_int("total") \o xdr_int("this_nr")
    \o xdr_vector("users", LoggedInUserMaxCnt, xdr_logged_in_user)

xdr_who_resp ==
    xdr_int("status") \o xdr_int("flags") \o xdr_chars("message")
    \o Sub("data", xdr_who_resp_data)

xdr_write_req ==
    Sub("user", xdr_logged_in_user) \o xdr_int("len") \o xdr_chars("message")

xdr_write_resp_data == xdr_chars("message")

xdr_write_resp ==
    xdr_int("status") \o xdr_int("flags") \o xdr_chars("message")
    \o Sub("data", xdr_write_resp_data)

xdr_port_update_req == xdr_int("second_port")

xdr_port_update_resp == xdr_int("status") \o xdr_int("flags") \o xdr_chars("message")

xdr_reconnect_req == xdr_chars("session_id") \o xdr_chars("connect_id")

xdr_reconnect_resp == xdr_int("status") \o xdr_int("flags") \o xdr_chars("message")

=============================================================================
