---------------------------- MODULE RtspSession ----------------------------
(***************************************************************************)
(* The archived sidecar as an RTSP server: main() serves one client at a   *)
(* time, request by request, until PLAY turns the connection into a stream *)
(* of packets.  Nothing has a timeout.  Clients and the TCP connections    *)
(* are external; a connection cuts and joins what is written to it.        *)
(*                                                                         *)
(* A request is sent as two pieces, the second of which ends with the      *)
(* empty line that recv_request looks for.                                 *)
(***************************************************************************)
EXTENDS RtpSender

CONSTANTS
  Clients, NoClient,
  Hasty,         \* the clients that do not wait for an answer
  Requests,      \* what each of them may ask
  MaxRequests,   \* bound: requests of one client
  ListenBacklog, \* 4 in the code
  BufferSize,    \* messages a connection holds before send blocks
  SeqStarts      \* random_u32 & 0xffff, for both tracks

Methods == {"OPTIONS", "DESCRIBE", "SETUP", "PLAY", "TEARDOWN", "other",
            "junk"} \* no request line, or no empty line within the buffer

(* Transport: no header, another protocol, TCP without channels, or with.  *)
Transports == {"absent", "udp", "plain", "interleaved"}

ASSUME SessionAssumption ==
  /\ NoClient \notin Clients /\ Hasty \subseteq Clients
  /\ \A c \in Clients :
       Requests[c] \subseteq [method : Methods, main_ch : BOOLEAN,
                             track : Tracks, transport : Transports,
                             channel : 0 .. 255]
  /\ {MaxRequests, ListenBacklog} \subseteq Nat /\ BufferSize \in Nat \ {0}
  /\ SeqStarts \subseteq [Tracks -> 0 .. SeqSpace - 1]

VARIABLES
  \* clients and connections
  conn,     \* "away", "queued", "open", or "left" and not yet closed
  backlog,  \* clients whose connection waits for accept
  inbox,    \* pieces sent and not yet received
  outbox,   \* answers and packets not yet read by the client
  asked,    \* how many requests it has sent: the last CSeq
  waiting,  \* CSeq of the request it waits for, or 0
  agreed,   \* channels named in the SETUP answers it has read
  \* main()
  pc,       \* "accept", "recv", "handle", "reply", "stream", "close", "exit"
  client,
  buf,      \* req[]: the pieces received since it was cleared
  setup_done, rtp_channel,
  present,  \* audio_cfg.present: the ring held a valid ADTS frame
  reply     \* the answer to send, and what comes after it

connVars    == <<conn, backlog, inbox, outbox>>
clientVars  == <<asked, waiting, agreed>>
sessionVars == <<client, setup_done, rtp_channel, present>>
vars == <<connVars, clientVars, sessionVars, pc, buf, reply, rtpVars>>

NoChannel == 256
NoReply == [cseq |-> 0]
Defaults == [t \in Tracks |-> IF t = "video" THEN 0 ELSE 2]

Init ==
  /\ conn = [c \in Clients |-> "away"] /\ backlog = <<>>
  /\ inbox = [c \in Clients |-> <<>>] /\ outbox = [c \in Clients |-> <<>>]
  /\ asked = [c \in Clients |-> 0] /\ waiting = [c \in Clients |-> 0]
  /\ agreed = [c \in Clients |-> [t \in Tracks |-> NoChannel]]
  /\ pc = "accept" /\ client = NoClient /\ buf = <<>> /\ reply = NoReply
  /\ setup_done = [t \in Tracks |-> FALSE] /\ rtp_channel = Defaults
  /\ present = FALSE
  /\ RtpInit /\ rtp_seq \in SeqStarts

-----------------------------------------------------------------------------
(* Clients (external) *)

(* A client begins anew with every connection. *)
Forget(c) ==
  /\ outbox' = [outbox EXCEPT ![c] = <<>>]
  /\ asked' = [asked EXCEPT ![c] = 0] /\ waiting' = [waiting EXCEPT ![c] = 0]
  /\ agreed' = [agreed EXCEPT ![c] = [t \in Tracks |-> NoChannel]]

(* The kernel completes one connection more than the backlog. *)
Connect(c) ==
  /\ conn[c] = "away" /\ Len(backlog) <= ListenBacklog
  /\ conn' = [conn EXCEPT ![c] = "queued"]
  /\ backlog' = Append(backlog, c)
  /\ UNCHANGED <<inbox, outbox, clientVars, sessionVars, pc, buf, reply,
                 rtpVars>>

(* What a client sends before it is accepted waits like what it sends then; *)
(* what it sends to a stream is not read any more.                         *)
Ask(c) ==
  /\ conn[c] = "open" /\ ~streaming /\ asked[c] < MaxRequests
  /\ Len(inbox[c]) <= 2
  /\ waiting[c] = 0 \/ c \in Hasty
  /\ asked' = [asked EXCEPT ![c] = @ + 1]
  /\ waiting' = [waiting EXCEPT ![c] = asked'[c]]
  /\ \E r \in Requests[c] :
       inbox' = [inbox EXCEPT ![c] =
                   @ \o <<[req |-> r, cseq |-> asked'[c], first |-> TRUE],
                          [req |-> r, cseq |-> asked'[c], first |-> FALSE]>>]
  /\ UNCHANGED <<conn, backlog, outbox, agreed, sessionVars, pc, buf, reply,
                 rtpVars>>

(* The client reads one answer or packet. *)
Read(c) ==
  /\ conn[c] = "open" /\ outbox[c] # <<>>
  /\ outbox' = [outbox EXCEPT ![c] = Tail(@)]
  /\ LET m == Head(outbox[c])
     IN  IF m.kind = "answer"
           THEN /\ waiting' = [waiting EXCEPT ![c] = IF @ = m.cseq THEN 0 ELSE @]
                /\ agreed' = IF m.channel = NoChannel THEN agreed
                             ELSE [agreed EXCEPT ![c][m.track] = m.channel]
           ELSE UNCHANGED <<waiting, agreed>>
  /\ UNCHANGED <<conn, backlog, inbox, asked, sessionVars, pc, buf,
                 reply, rtpVars>>

(* The client hangs up; what it has sent can still be received. *)
Leave(c) ==
  /\ conn[c] \in {"queued", "open"}
  /\ conn' = [conn EXCEPT ![c] = "left"]
  /\ Forget(c)
  /\ UNCHANGED <<backlog, inbox, sessionVars, pc, buf, reply, rtpVars>>

World == \E c \in Clients : Connect(c) \/ Ask(c) \/ Read(c) \/ Leave(c)

-----------------------------------------------------------------------------
(* accept *)

NoMemset == setup_done \* mutant: client_state_t is not cleared

NothingSetUp == [t \in Tracks |-> FALSE]

(* client_state_t is cleared and given random numbers; audio is there when *)
(* the ring holds a frame that parses.                                     *)
Accept ==
  /\ pc = "accept" /\ backlog # <<>>
  /\ client' = Head(backlog) /\ backlog' = Tail(backlog)
  /\ conn' = [conn EXCEPT ![client'] = IF @ = "left" THEN @ ELSE "open"]
  /\ setup_done' = NothingSetUp /\ rtp_channel' = Defaults
  /\ present' \in BOOLEAN
  /\ Renumber /\ rtp_seq' \in SeqStarts
  /\ pc' = "recv"
  /\ UNCHANGED <<inbox, outbox, clientVars, buf, reply>>

(* Any error but EINTR ends the program. *)
AcceptFails ==
  /\ pc = "accept" /\ pc' = "exit"
  /\ UNCHANGED <<connVars, clientVars, sessionVars, buf, reply, rtpVars>>

-----------------------------------------------------------------------------
(* recv_request *)

HasEmptyLine(pieces) == \E i \in DOMAIN pieces : ~pieces[i].first

(* Some of what has arrived is received; enough of it makes a request.     *)
RecvSome ==
  /\ pc = "recv" /\ inbox[client] # <<>>
  /\ \E k \in 1 .. Len(inbox[client]) :
       /\ buf' = buf \o SubSeq(inbox[client], 1, k)
       /\ inbox' = [inbox EXCEPT ![client] = SubSeq(@, k + 1, Len(@))]
  /\ pc' = IF HasEmptyLine(buf') THEN "handle" ELSE "recv"
  /\ UNCHANGED <<conn, backlog, outbox, clientVars, sessionVars, reply,
                 rtpVars>>

IgnoreEof == FALSE \* mutant: recv returning 0 is not an end

Eof == conn[client] = "left"

RecvEnds ==
  /\ pc = "recv" /\ inbox[client] = <<>> /\ Eof
  /\ pc' = "close"
  /\ UNCHANGED <<connVars, clientVars, sessionVars, buf, reply, rtpVars>>

-----------------------------------------------------------------------------
(* The requests *)

KeepBuffer == buf \* mutant: req[] is not cleared

(* memset: what came behind the request is thrown away with it. *)
ClearedBuffer == <<>>

Request == buf[1].req

Handles(method) ==
  /\ pc = "handle" /\ buf[1].first
  /\ Request.method = method
  /\ Request.main_ch \/ method = "OPTIONS"

(* Send an answer, and go on with next, or with failed if that fails. *)
Reply(code, next, failed) ==
  /\ reply' = [cseq |-> buf[1].cseq, code |-> code, track |-> Request.track,
               channel |-> NoChannel, info |-> rtp_seq,
               next |-> next, failed |-> failed]
  /\ pc' = "reply" /\ buf' = ClearedBuffer

Drop == pc' = "close" /\ buf' = ClearedBuffer /\ UNCHANGED reply

KeepSession == UNCHANGED sessionVars

(* request_method fails. *)
Junk == Handles("junk") /\ Drop /\ KeepSession

(* The buffer begins in the middle of a request, whose beginning was       *)
(* thrown away: its first two words are taken for a method and a URL.      *)
Garbled ==
  /\ pc = "handle" /\ ~buf[1].first
  /\ Drop \/ Reply(404, "recv", "recv") \/ Reply(501, "recv", "close")
  /\ KeepSession

(* mutant: "continue" without an answer *)
Unanswered ==
  /\ pc = "handle" /\ buf[1].first
  /\ ~Request.main_ch /\ Request.method \notin {"OPTIONS", "junk"}
  /\ pc' = "recv" /\ buf' = ClearedBuffer /\ UNCHANGED reply /\ KeepSession

NotFound ==
  /\ pc = "handle" /\ buf[1].first
  /\ ~Request.main_ch /\ Request.method \notin {"OPTIONS", "junk"}
  /\ Reply(404, "recv", "recv") /\ KeepSession

Describe ==
  /\ Handles("OPTIONS") \/ Handles("DESCRIBE")
  /\ Reply(200, "recv", "close") /\ KeepSession

(* parse_interleaved_channels, and what stands in for it: a missing header *)
(* is taken for "interleaved=0-1", whatever the track.                     *)
ChannelFor(r) ==
  CASE r.transport = "interleaved" -> r.channel
    [] r.transport = "absent" -> 0
    [] OTHER -> Defaults[r.track]

Unsupported ==
  /\ Handles("SETUP") /\ Request.transport = "udp"
  /\ Reply(461, "recv", "recv") /\ KeepSession

NoAudio ==
  /\ Handles("SETUP") /\ Request.transport # "udp"
  /\ Request.track = "audio" /\ ~present
  /\ Reply(404, "recv", "recv") /\ KeepSession

Setup ==
  /\ Handles("SETUP") /\ Request.transport # "udp"
  /\ Request.track = "audio" => present
  /\ setup_done' = [setup_done EXCEPT ![Request.track] = TRUE]
  /\ rtp_channel' = [rtp_channel EXCEPT ![Request.track] = ChannelFor(Request)]
  /\ reply' = [cseq |-> buf[1].cseq, code |-> 200, track |-> Request.track,
               channel |-> ChannelFor(Request), info |-> rtp_seq,
               next |-> "recv", failed |-> "close"]
  /\ pc' = "reply" /\ buf' = ClearedBuffer
  /\ UNCHANGED <<client, present>>

(* Video is sent even if it was never set up. *)
Play ==
  /\ Handles("PLAY")
  /\ setup_done' = [setup_done EXCEPT !["video"] = TRUE]
  /\ Reply(200, "stream", "close")
  /\ UNCHANGED <<client, rtp_channel, present>>

Teardown ==
  /\ Handles("TEARDOWN")
  /\ Reply(200, "close", "close") /\ KeepSession

NotImplemented ==
  /\ Handles("other")
  /\ Reply(501, "recv", "close") /\ KeepSession

Handle ==
  /\ \/ Junk \/ Garbled \/ NotFound \/ Describe \/ Unsupported \/ NoAudio
     \/ Setup \/ Play \/ Teardown \/ NotImplemented
  /\ UNCHANGED <<connVars, clientVars, rtpVars>>

-----------------------------------------------------------------------------
(* send_all *)

(* To a client that has gone nothing can be sent (what its host still takes *)
(* is not seen by anybody).                                                *)
Room == ~Eof /\ Len(outbox[client]) < BufferSize

Post(message) == outbox' = [outbox EXCEPT ![client] = Append(@, message)]

SendReply ==
  /\ pc = "reply" /\ Room
  /\ Post([kind |-> "answer", cseq |-> reply.cseq, track |-> reply.track,
           channel |-> reply.channel])
  /\ pc' = reply.next /\ reply' = NoReply
  /\ IF reply.next = "stream" THEN Start(reply.info) ELSE UNCHANGED rtpVars
  /\ UNCHANGED <<conn, backlog, inbox, clientVars, sessionVars, buf>>

ReplyFails ==
  /\ pc = "reply" /\ Eof
  /\ pc' = reply.failed /\ reply' = NoReply
  /\ UNCHANGED <<connVars, clientVars, sessionVars, buf, rtpVars>>

-----------------------------------------------------------------------------
(* stream_main: RingFollower says which entries come; here any may. *)

(* send_interleaved *)
PostPacket(p) ==
  Post([kind |-> "packet", track |-> p.track,
        channel |-> rtp_channel[p.track]])

NextUnit ==
  /\ pc = "stream" /\ Flush
  /\ UNCHANGED <<connVars, clientVars, sessionVars, pc, buf, reply>>

VideoOut ==
  /\ pc = "stream" /\ Room
  /\ SendVideo /\ PostPacket(VideoPacket)
  /\ UNCHANGED <<conn, backlog, inbox, clientVars, sessionVars, pc, buf, reply>>

MayHearAudio == setup_done["audio"] /\ present

AudioOut ==
  /\ pc = "stream" /\ Room /\ MayHearAudio
  /\ \E e \in AudioEntries : \E h \in Frames(e) :
       SendAudio(h) /\ PostPacket(AudioPacket(h))
  /\ UNCHANGED <<conn, backlog, inbox, clientVars, sessionVars, pc, buf, reply>>

(* An AAC frame that does not fit into a packet ends the stream. *)
AudioTooLong ==
  /\ unit = <<>> /\ MayHearAudio
  /\ \E e \in AudioEntries : \E h \in Frames(e) : IsOversized(h)

(* The client has gone in the middle of a unit, or stream_main comes to an *)
(* end: no key frame, no ring, the end of a replay.                        *)
StreamEnds ==
  /\ pc = "stream"
  /\ AudioTooLong \/ Eof \/ unit = <<>>
  /\ Stop /\ pc' = "close"
  /\ UNCHANGED <<connVars, clientVars, sessionVars, buf, reply>>

CloseClient ==
  /\ pc = "close"
  /\ conn' = [conn EXCEPT ![client] = "away"]
  /\ inbox' = [inbox EXCEPT ![client] = <<>>] /\ Forget(client)
  /\ client' = NoClient /\ buf' = <<>> /\ pc' = "accept"
  /\ UNCHANGED <<backlog, setup_done, rtp_channel, present, reply, rtpVars>>

Server ==
  \/ Accept \/ RecvSome \/ RecvEnds \/ Handle \/ SendReply \/ ReplyFails
  \/ NextUnit \/ VideoOut \/ AudioOut \/ StreamEnds \/ CloseClient

Next == World \/ Server \/ AcceptFails

Spec == Init /\ [][Next]_vars

(* The sidecar runs, and anyka_ipc keeps recording (NextUnit).  Nothing is *)
(* expected of a client.                                                   *)
FairSpec == Spec /\ WF_vars(Server)

-----------------------------------------------------------------------------
(* Properties *)

(* A client that waits for each answer gets one answer to each request, in *)
(* order, however its bytes are cut.                                       *)
OneAnswerEach ==
  \A c \in Clients \ Hasty :
    LET answers == {i \in DOMAIN outbox[c] : outbox[c][i].kind = "answer"}
    IN  /\ \A i \in answers : outbox[c][i].cseq = waiting[c]
        /\ \A i, j \in answers : i = j

(* Packets come on the channels of the SETUP answers the client has read;  *)
(* without one there is no audio, and video comes on channel 0.  Nothing   *)
(* of the client before is left over.                                      *)
PacketsAsAgreed ==
  \A c \in Clients :
    /\ outbox[c] # <<>> /\ Head(outbox[c]).kind = "packet" =>
         LET p == Head(outbox[c])
         IN  \/ p.channel = agreed[c][p.track]
             \/ /\ p.track = "video" /\ agreed[c]["video"] = NoChannel
                /\ p.channel = Defaults["video"]

(* There is no deadlock of request and answer: one that the server is free *)
(* to take is answered or the connection closed.                           *)
Answered ==
  \A c \in Clients \ Hasty :
    (client = c /\ waiting[c] # 0 /\ ~streaming) ~>
      \/ waiting[c] = 0 \/ client # c \/ streaming \/ conn[c] = "left"
      \/ \E i \in DOMAIN outbox[c] : outbox[c][i].kind = "answer"

(* If everybody who is served leaves some day (there is no timeout for     *)
(* those who do not), everybody who waits is served, unless accept fails.  *)
Served ==
  (\A c \in Clients : client = c ~> conn[c] = "left" \/ client # c)
    => \A c \in Clients : conn[c] = "queued" ~> conn[c] # "queued" \/ pc = "exit"
=============================================================================
