------------------------------ MODULE Commands ------------------------------
(***************************************************************************)
(* The commands a client sends on its main connection and the answers it   *)
(* reads: pwd, cd, ll, w, mps, write and the direct commands, with the     *)
(* handlers of the server (src/server.c), of the client (src/client.c) and,*)
(* for a listing of another client's directory, of that peer.              *)
(*                                                                         *)
(* The client never looks at the type of a packet it receives: what it     *)
(* reads is taken for an answer to its last command.  An answer can span   *)
(* several packets; a list travels Batch items at a time.                  *)
(*                                                                         *)
(* InPlace is the raw codec on a little-endian host: sending an object     *)
(* reverses the bytes of its ints, and sending it again turns those that   *)
(* were not assigned in between back (see Transport).                      *)
(*                                                                         *)
(* The working directory of the server process, which cd changes, belongs  *)
(* to the handlers of all sessions.                                        *)
(***************************************************************************)
EXTENDS Integers, Sequences

CONSTANTS
    Batch,      \* FILE_ENTRY_MAX_CNT, LOGGED_IN_USER_MAX_CNT
    MaxItems,   \* bound: entries of a directory, users, blocks of output
    MaxCmds,    \* bound: commands of one session
    Dirs,       \* the working directories a session can have
    InPlace     \* sending converts the sender's object

ASSUME CommandsAssumption ==
    /\ Batch \in Nat \ {0}
    /\ MaxItems \in Nat
    /\ MaxCmds \in Nat
    /\ Dirs # {}
    /\ InPlace \in BOOLEAN

VARIABLES
    cpc,     \* the client: "prompt", "wait" for an answer, or "confused"
    cmd,     \* the command it executes
    shown,   \* items received for it so far
    total,   \* total_len of execute_directcmd
    cpwd,    \* pwd of the client
    raced,   \* history: another session changed the directory during a cd
    issued,  \* commands issued
    spc,     \* what the session handler of the server is doing
    srv,     \* the object it sends: items left and done, total
    spwd,    \* pwd of the session
    cwd,     \* the working directory of the server process
    relayed, \* the command handle_fwd_ll_req relays for
    ppc,     \* the task handler of the peer
    peer,    \* the object the peer sends
    req, resp, toPeer, fromPeer  \* the connections, each FIFO

client == << cpc, cmd, shown, total, cpwd, issued >>

dirs == << spwd, cwd, raced >>

server == << spc, srv, relayed, dirs >>

peers == << ppc, peer, toPeer, fromPeer >>

vars == << client, server, peers, req, resp >>

(* What a path can be: absent, a file, a directory that cannot be read,    *)
(* neither (a device, or a link to a directory), or a directory, whose     *)
(* entries are at least "." and "..".                                      *)
Paths ==
    [kind : {"none", "unreadable", "special"}, entries : {0}]
    \cup [kind : {"file"}, entries : {1}]
    \cup [kind : {"dir"}, entries : 2..MaxItems]

Requests ==
    [name : {"pwd", "mps", "write"}]
    \cup [name : {"cd"}, dir : Dirs \cup {"missing"}]
    \cup [name : {"ll", "ll_peer"}, path : Paths]
    \cup [name : {"w"}, users : 0..MaxItems]
    \cup [name : {"directcmd"}, len : {-1} \cup 0..MaxItems]

(* A reversed int is a large number, negative if the low byte is 128 or    *)
(* more; 0 stays 0.                                                        *)
Huge == 1000

Reversed(n) == IF n = 0 THEN {0} ELSE {Huge, -Huge}

Object(n, rev) ==
    [left |-> n, done |-> 0, total |-> n, rev |-> rev, reversed |-> FALSE]

NoObject == Object(0, 0)

(* The int total of an object, and the effect of sending the object.       *)
Holds(o) == IF o.reversed THEN o.rev ELSE o.total

AfterSend(o) == [o EXCEPT !.reversed = InPlace /\ ~ @]

Answer(t, tot, nr) == [type |-> t, total |-> tot, nr |-> nr]

Plain(t) == Answer(t, 0, 0)

Lesser(a, b) == IF a < b THEN a ELSE b

Init ==
    /\ cpc = "prompt" /\ cmd = [name |-> "pwd"] /\ shown = 0 /\ total = 0
    /\ cpwd \in Dirs /\ spwd = cpwd /\ cwd \in Dirs /\ raced = FALSE
    /\ issued = 0
    /\ spc = "idle" /\ srv = NoObject /\ relayed = 0
    /\ ppc = "idle" /\ peer = NoObject
    /\ req = << >> /\ resp = << >> /\ toPeer = << >> /\ fromPeer = << >>

-----------------------------------------------------------------------------
(* The client. *)

execute_cmd(c) ==
    /\ cpc = "prompt"
    /\ issued < MaxCmds
    /\ cmd' = c /\ shown' = 0 /\ total' = -1
    /\ issued' = issued + 1
    /\ raced' = FALSE
    /\ req' = Append(req, c)
    /\ cpc' = "wait"
    /\ UNCHANGED << cpwd, spc, srv, relayed, spwd, cwd, peers, resp >>

(* Every command reads the next packet, whatever it answers; one of        *)
(* another type would be read as a structure it is not.                    *)
Understood ==
    Head(resp).type = IF cmd.name = "ll_peer" THEN "ll" ELSE cmd.name

Reads(names) ==
    /\ cpc = "wait" /\ cmd.name \in names
    /\ resp # << >> /\ resp' = Tail(resp)
    /\ UNCHANGED << cmd, issued, server, peers, req >>

Returns(names) ==
    /\ Reads(names)
    /\ cpc' = IF Understood THEN "prompt" ELSE "confused"
    /\ UNCHANGED << shown, total >>

sftt_client_pwd_handler == Returns({"pwd"}) /\ UNCHANGED cpwd

sftt_client_mps_handler == Returns({"mps"}) /\ UNCHANGED cpwd

sftt_client_cd_handler ==
    /\ Returns({"cd"})
    /\ cpwd' = IF Head(resp).total \in Dirs THEN Head(resp).total ELSE cpwd

Items(a) == a.nr

(* sftt_client_ll_handler and get_friend_list have the same loop: it ends  *)
(* on an empty packet, or once as many items came as the packet says.      *)
list_handler(names) ==
    /\ Reads(names)
    /\ LET a == Head(resp)
       IN  IF Understood /\ a.total > 0 /\ a.nr > 0
           THEN /\ shown' = shown + Items(a)
                /\ cpc' = IF shown' = a.total THEN "prompt" ELSE "wait"
           ELSE /\ cpc' = IF Understood THEN "prompt" ELSE "confused"
                /\ UNCHANGED shown
    /\ UNCHANGED << total, cpwd >>

sftt_client_ll_handler == list_handler({"ll", "ll_peer"})

get_friend_list == list_handler({"w"})

(* execute_directcmd takes the total from the first packet only.  It leaves*)
(* its loop when just as much was received; otherwise it reads a further   *)
(* packet, and drops it if there was not less.                             *)
execute_directcmd ==
    /\ Reads({"directcmd"})
    /\ LET a == Head(resp)
           first == total = -1
           t == IF first THEN a.total ELSE total
       IN  IF ~ Understood \/ (first /\ (a.total < 0 \/ a.nr < 0))
           THEN /\ cpc' = IF Understood THEN "prompt" ELSE "confused"
                /\ UNCHANGED << shown, total >>
           ELSE /\ total' = t
                /\ IF first \/ shown < t
                   THEN /\ shown' = shown + a.nr
                        /\ cpc' = IF shown' = t THEN "prompt" ELSE "wait"
                   ELSE /\ cpc' = "prompt"
                        /\ UNCHANGED shown
    /\ UNCHANGED cpwd

-----------------------------------------------------------------------------
(* The session handler of the server. *)

Serves(names) ==
    /\ spc = "idle"
    /\ req # << >> /\ Head(req).name \in names
    /\ req' = Tail(req)
    /\ UNCHANGED client

Replies(a) ==
    /\ resp' = Append(resp, a)
    /\ UNCHANGED << spc, srv, relayed, peers >>

handle_pwd_req == Serves({"pwd"}) /\ Replies(Plain("pwd")) /\ UNCHANGED dirs

handle_mp_stat_req == Serves({"mps"}) /\ Replies(Plain("mps")) /\ UNCHANGED dirs

(* chdir() fails.                                                          *)
handle_cd_fails ==
    /\ Serves({"cd"}) /\ Head(req).dir \notin Dirs
    /\ Replies(Answer("cd", "missing", 0))
    /\ UNCHANGED dirs

handle_cd_req ==
    /\ Serves({"cd"}) /\ Head(req).dir \in Dirs
    /\ cwd' = Head(req).dir
    /\ spc' = "getcwd"
    /\ UNCHANGED << srv, relayed, spwd, raced, peers, resp >>

(* Mutant: the answer takes the directory, the session does not. *)
handle_cd_getcwdMut ==
    /\ spc = "getcwd"
    /\ resp' = Append(resp, Answer("cd", cwd, 0))
    /\ spc' = "idle"
    /\ UNCHANGED << client, srv, relayed, dirs, peers, req >>

(* getcwd() tells what the directory of the process is by now.             *)
handle_cd_getcwd ==
    /\ spc = "getcwd"
    /\ spwd' = cwd
    /\ resp' = Append(resp, Answer("cd", cwd, 0))
    /\ spc' = "idle"
    /\ UNCHANGED << client, srv, relayed, cwd, raced, peers, req >>

(* chdir() in the handler of another session.                              *)
other_session_cd(d) ==
    /\ cwd' = d
    /\ raced' = (raced \/ spc = "getcwd")
    /\ UNCHANGED << client, spc, srv, relayed, spwd, peers, req, resp >>

(* get_logged_in_users finds nobody or runs out of memory: total is the 0  *)
(* that mp_malloc left there.                                              *)
handle_who_none ==
    /\ Serves({"w"}) /\ Head(req).users = 0
    /\ Replies(Plain("w"))
    /\ UNCHANGED dirs

handle_who_req ==
    /\ Serves({"w"}) /\ Head(req).users > 0
    /\ spc' = "who"
    /\ srv' = Object(Head(req).users, 0)
    /\ UNCHANGED << relayed, dirs, peers, resp >>

(* Each round assigns total and this_nr anew.                              *)
who_send ==
    /\ spc = "who"
    /\ LET n == Lesser(srv.left, Batch)
       IN  /\ resp' = Append(resp, Answer("w", srv.total, n))
           /\ srv' = [srv EXCEPT !.left = @ - n]
           /\ spc' = IF srv.left = n THEN "idle" ELSE "who"
    /\ UNCHANGED << client, relayed, dirs, peers, req >>

(* The message is passed on if the user is there; neither the server nor   *)
(* the peer answers it.                                                    *)
handle_write_req ==
    /\ Serves({"write"})
    /\ \/ UNCHANGED toPeer
       \/ toPeer' = Append(toPeer, [name |-> "write"])
    /\ UNCHANGED << server, ppc, peer, fromPeer, resp >>

(* Mutant: one round more than there is output. *)
DirectcmdMoreMut(o) == o.done <= Holds(AfterSend(o))

(* The condition of the loop of handle_directcmd_req, after a round: it    *)
(* reads total_len from the object just sent.                              *)
DirectcmdMore(o) == o.done < Holds(AfterSend(o))

(* No temporary file, or it cannot be read.                                *)
handle_directcmd_fails ==
    /\ Serves({"directcmd"}) /\ Head(req).len = -1
    /\ Replies(Plain("directcmd"))
    /\ UNCHANGED dirs

handle_directcmd_req ==
    /\ Serves({"directcmd"}) /\ Head(req).len >= 0
    /\ spc' = "directcmd"
    /\ \E rev \in Reversed(Head(req).len) : srv' = Object(Head(req).len, rev)
    /\ UNCHANGED << relayed, dirs, peers, resp >>

directcmd_send ==
    /\ spc = "directcmd"
    /\ LET n == Lesser(srv.left, 1)
           o == [srv EXCEPT !.left = @ - n, !.done = @ + n]
       IN  /\ resp' = Append(resp, Answer("directcmd", Holds(srv), n))
           /\ spc' = IF DirectcmdMore(o) THEN "directcmd" ELSE "idle"
           /\ srv' = AfterSend(o)
    /\ UNCHANGED << client, relayed, dirs, peers, req >>

-----------------------------------------------------------------------------
(* Listings.  handle_ll_req and handle_peer_ll_req differ only in the      *)
(* connection they answer on: what they do with a path is here.            *)

(* What is not a directory takes one packet, or, if it is not a file       *)
(* either, none.  For a file total is 1 and this_nr stays 0.               *)
ll_single(path) ==
    CASE path.kind \in {"none", "unreadable"} -> << Answer("ll", -1, 0) >>
      [] path.kind = "file"                   -> << Answer("ll", 1, 0) >>
      [] path.kind = "special"                -> << >>

(* total is assigned once, before the first packet.                        *)
ll_packet(o) == Answer("ll", Holds(o), Lesser(o.left, Batch))

ll_after(o) == AfterSend([o EXCEPT !.left = @ - Lesser(@, Batch)])

(* Mutant: a directory that cannot be read is not answered. *)
handle_ll_req_singleMut ==
    /\ Serves({"ll"}) /\ Head(req).path.kind # "dir"
    /\ resp' = resp \o (IF Head(req).path.kind = "unreadable" THEN << >>
                        ELSE ll_single(Head(req).path))
    /\ UNCHANGED << server, peers >>

handle_ll_req_single ==
    /\ Serves({"ll"}) /\ Head(req).path.kind # "dir"
    /\ resp' = resp \o ll_single(Head(req).path)
    /\ UNCHANGED << server, peers >>

(* Mutant: the entry at which the reading of the directory ends is lost. *)
handle_ll_reqMut ==
    /\ Serves({"ll"}) /\ Head(req).path.kind = "dir"
    /\ \E rev \in Reversed(Head(req).path.entries - 1) :
          srv' = Object(Head(req).path.entries - 1, rev)
    /\ spc' = "ll"
    /\ UNCHANGED << relayed, dirs, peers, resp >>

handle_ll_req ==
    /\ Serves({"ll"}) /\ Head(req).path.kind = "dir"
    /\ \E rev \in Reversed(Head(req).path.entries) :
          srv' = Object(Head(req).path.entries, rev)
    /\ spc' = "ll"
    /\ UNCHANGED << relayed, dirs, peers, resp >>

ll_send ==
    /\ spc = "ll"
    /\ resp' = Append(resp, ll_packet(srv))
    /\ srv' = ll_after(srv)
    /\ spc' = IF srv'.left = 0 THEN "idle" ELSE "ll"
    /\ UNCHANGED << client, relayed, dirs, peers, req >>

(* check_user, get_peer_task_conn_by_user or the send to the peer fails.   *)
handle_fwd_ll_no_peer ==
    /\ Serves({"ll_peer"})
    /\ Replies(Plain("ll"))
    /\ UNCHANGED dirs

handle_fwd_ll_req ==
    /\ Serves({"ll_peer"})
    /\ toPeer' = Append(toPeer, Head(req))
    /\ spc' = "relay"
    /\ relayed' = issued
    /\ UNCHANGED << srv, dirs, ppc, peer, fromPeer, resp >>

(* send_ll_resp_once, then the test of REQ_RESP_FLAG_STOP: a listing sets  *)
(* flags to 0 or 1, so the relay reads from the peer again.                *)
fwd_ll_relay ==
    /\ spc = "relay"
    /\ fromPeer # << >>
    /\ resp' = Append(resp, Head(fromPeer))
    /\ fromPeer' = Tail(fromPeer)
    /\ UNCHANGED << client, server, ppc, peer, toPeer, req >>

-----------------------------------------------------------------------------
(* The task handler of the peer. *)

PeerServes(name) ==
    /\ ppc = "idle"
    /\ toPeer # << >> /\ Head(toPeer).name = name
    /\ toPeer' = Tail(toPeer)
    /\ UNCHANGED << client, server, req, resp >>

handle_peer_write_req ==
    /\ PeerServes("write")
    /\ UNCHANGED << ppc, peer, fromPeer >>

handle_peer_ll_req_single ==
    /\ PeerServes("ll_peer") /\ Head(toPeer).path.kind # "dir"
    /\ fromPeer' = fromPeer \o ll_single(Head(toPeer).path)
    /\ UNCHANGED << ppc, peer >>

handle_peer_ll_req ==
    /\ PeerServes("ll_peer") /\ Head(toPeer).path.kind = "dir"
    /\ \E rev \in Reversed(Head(toPeer).path.entries) :
          peer' = Object(Head(toPeer).path.entries, rev)
    /\ ppc' = "ll"
    /\ UNCHANGED fromPeer

peer_ll_send ==
    /\ ppc = "ll"
    /\ fromPeer' = Append(fromPeer, ll_packet(peer))
    /\ peer' = ll_after(peer)
    /\ ppc' = IF peer'.left = 0 THEN "idle" ELSE "ll"
    /\ UNCHANGED << client, server, toPeer, req, resp >>

-----------------------------------------------------------------------------
Client ==
    \/ sftt_client_pwd_handler \/ sftt_client_mps_handler
    \/ sftt_client_cd_handler \/ sftt_client_ll_handler
    \/ get_friend_list \/ execute_directcmd

Server ==
    \/ handle_pwd_req \/ handle_mp_stat_req
    \/ handle_cd_fails \/ handle_cd_req \/ handle_cd_getcwd
    \/ handle_who_none \/ handle_who_req \/ who_send
    \/ handle_write_req
    \/ handle_directcmd_fails \/ handle_directcmd_req \/ directcmd_send
    \/ handle_ll_req_single \/ handle_ll_req \/ ll_send
    \/ handle_fwd_ll_no_peer \/ handle_fwd_ll_req \/ fwd_ll_relay

Peer ==
    \/ handle_peer_write_req
    \/ handle_peer_ll_req_single \/ handle_peer_ll_req \/ peer_ll_send

Next ==
    \/ \E c \in Requests : execute_cmd(c)
    \/ \E d \in Dirs : other_session_cd(d)
    \/ Client \/ Server \/ Peer

(* Each of the three is a thread that does nothing but this.               *)
Spec == Init /\ [][Next]_vars /\ WF_vars(Client) /\ WF_vars(Server) /\ WF_vars(Peer)

-----------------------------------------------------------------------------
(* Every variable holds a value of its C type, and no command is given     *)
(* more than the server has (execute_directcmd, sftt_client_ll_handler).   *)
TypeOK ==
    /\ cpc \in {"prompt", "wait", "confused"}
    /\ cmd \in Requests
    /\ shown \in 0..MaxItems /\ total \in -1..MaxItems
    /\ cpwd \in Dirs /\ spwd \in Dirs /\ cwd \in Dirs /\ raced \in BOOLEAN
    /\ issued \in 0..MaxCmds /\ relayed \in 0..issued
    /\ spc \in {"idle", "getcwd", "who", "directcmd", "ll", "relay"}
    /\ ppc \in {"idle", "ll"}
    /\ srv.left \in 0..MaxItems /\ peer.left \in 0..MaxItems

(* When the prompt is back, the answer has been read to its last packet    *)
(* and nobody is still sending: the next command cannot take a packet that *)
(* belongs to this one.  No command ever read one of another type.         *)
QuietAtPrompt ==
    /\ cpc # "confused"
    /\ cpc = "prompt" => /\ req = << >> /\ resp = << >> /\ fromPeer = << >>
                         /\ spc \in {"idle", "relay"} /\ ppc = "idle"

(* How many items the answer to a command has, if it says.                 *)
Listed ==
    CASE cmd.name = "w"                  -> {cmd.users}
      [] cmd.name \in {"ll", "ll_peer"}  -> {cmd.path.entries}
      [] OTHER                           -> Nat

(* The answer to ll of a single file says total = 1 and has the entry, but *)
(* nobody assigns this_nr, and the client goes by that: it shows nothing.  *)
FileNotShown ==
    cmd.name \in {"ll", "ll_peer"} /\ cmd.path.kind = "file" /\ shown = 0

(* A listing of a directory, of the server or through it of a peer, shows  *)
(* every entry once, and w every user, however many packets they took; only*)
(* a peer that is not there leaves it empty, and a file is never shown     *)
(* (handle_ll_req, handle_who_req, sftt_client_ll_handler).                *)
ListingComplete ==
    cpc = "prompt" => \/ shown \in Listed
                      \/ cmd.name = "ll_peer" /\ shown = 0
                      \/ FileNotShown

(* Client and server agree on the working directory of the session         *)
(* whenever the user can type (handle_cd_req, sftt_client_cd_handler), and *)
(* a cd that succeeded led where it was asked to, unless the handler of    *)
(* another session called chdir() between chdir() and getcwd().            *)
CdArrives ==
    cpc = "prompt" =>
        /\ cpwd = spwd
        /\ (cmd.name = "cd" /\ ~ raced /\ cmd.dir \in Dirs) => cpwd = cmd.dir

(* What is answered at all: not a message, not a path that is neither file *)
(* nor directory, and nothing once the session's handler is in the relay   *)
(* of an earlier listing, which it never leaves.                           *)
Answered ==
    /\ cmd.name # "write"
    /\ cmd.name \in {"ll", "ll_peer"} => cmd.path.kind # "special"
    /\ spc = "relay" => relayed = issued

(* The client, which blocks until the answer is complete, gets its prompt  *)
(* back from every other command.                                          *)
CommandReturns == (cpc = "wait" /\ Answered) ~> (cpc # "wait")
=============================================================================
