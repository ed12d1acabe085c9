----------------------------- MODULE RtpSender -----------------------------
(***************************************************************************)
(* How the archived sidecar packs media into RTP packets: NAL units of an  *)
(* access unit whole or in fragments (send_hevc_nal), AAC frames one by    *)
(* one (send_aac_frame), a sequence number for every packet of a track     *)
(* (send_rtp_packet).  Bytes are positions: what a packet carries of a NAL *)
(* unit is the interval from its first byte to before its last.  The two   *)
(* header bytes go with a whole NAL unit, and into the fragment headers of *)
(* one in pieces, so every interval begins behind them.                    *)
(*                                                                         *)
(* The receiving end is external: it puts fragments together as RFC 7798   *)
(* says, and throws them away when a sequence number is missing.           *)
(***************************************************************************)
EXTENDS Integers, Sequences

CONSTANTS
  RTP_MAX_PAYLOAD,
  AUDIO_PREFIX_SCAN_LIMIT,
  SeqSpace,     \* 2^16: rtp_seq is a uint16_t
  AccessUnits,  \* what flush_current_au may find: the lengths of NAL units
  AudioEntries  \* what the audio entries of the ring may hold

Tracks == {"video", "audio"}

Bits13 == 0 .. 8191

(* An audio entry: its length, and the places where an ADTS header seems   *)
(* to be, with the header length and the frame length (13 bits) it states. *)
AudioEntry ==
  [len : Nat, heads : SUBSET [at : Nat, header : {7, 9}, frame : Bits13]]

ASSUME RtpAssumption ==
  /\ RTP_MAX_PAYLOAD \in Nat /\ RTP_MAX_PAYLOAD > 4
  /\ AUDIO_PREFIX_SCAN_LIMIT \in Nat
  /\ SeqSpace \in Nat \ {0}
  /\ AccessUnits \subseteq Seq(Nat \ {0, 1}) \ {<<>>}
  /\ AudioEntries \subseteq AudioEntry

VARIABLES
  streaming,  \* send_range is at work for a client that has its PLAY answer
  rtp_seq,    \* of the next packet, by track
  unit,       \* current_au_nals while they are sent, <<>> between units
  nal,        \* which of them send_hevc_nal is at
  pos,        \* and where in it
  rx          \* the receiver: [expect, run, nals, out]

rtpVars == <<streaming, rtp_seq, unit, nal, pos, rx>>

-----------------------------------------------------------------------------
(* Packets *)

(* mutant: as if the fragment header were one byte *)
FragmentRoomOfFuHeader == RTP_MAX_PAYLOAD - 1

FragmentRoom == RTP_MAX_PAYLOAD - 3

IsWhole(len) == len <= RTP_MAX_PAYLOAD

(* Is it the last packet of a NAL unit of this length? *)
IsEnd(len, at) == IsWhole(len) \/ len - at <= FragmentRoom

MarkEveryNal == TRUE \* mutant: the marker bit on every NAL unit

IsLastNal == nal = Len(unit)

(* The next packet of send_hevc_nal. *)
VideoPacket ==
  LET len  == unit[nal]
      to   == IF IsEnd(len, pos) THEN len ELSE pos + FragmentRoom
      fu   == ~IsWhole(len)
  IN  [track |-> "video", seq |-> rtp_seq["video"], fu |-> fu,
       start |-> pos = 2, end |-> IsEnd(len, pos),
       from |-> pos, to |-> to,
       size |-> (to - pos) + (IF fu THEN 3 ELSE 2),
       marker |-> IsEnd(len, pos) /\ IsLastNal]

(* parse_adts_header, for one of the places. *)
Parses(entry, h) ==
  /\ h.at + 7 <= entry.len
  /\ h.frame >= h.header /\ h.frame <= entry.len - h.at

(* find_valid_adts_frame: the first place that parses, if there is one. *)
Frames(entry) ==
  LET valid == {h \in entry.heads : /\ h.at <= AUDIO_PREFIX_SCAN_LIMIT
                                    /\ Parses(entry, h)}
  IN  {h \in valid : \A g \in valid : h.at <= g.at}

RawLen(h) == h.frame - h.header

IsOversized(h) == RawLen(h) > RTP_MAX_PAYLOAD - 4

(* Bytes 2 and 3: AU-size in 13 bits, AU-Index in 3. *)
AuHeader(raw) == <<(raw \div 32) % 256, (raw % 32) * 8>>

AudioPacket(h) ==
  [track |-> "audio", seq |-> rtp_seq["audio"],
   au |-> AuHeader(RawLen(h)), size |-> RawLen(h) + 4, marker |-> TRUE]

-----------------------------------------------------------------------------
(* The receiver (external) *)

AuSize(au) == (au[1] * 256 + au[2]) \div 8

Fresh(expect) == [expect |-> expect, run |-> 0, nals |-> <<>>, out |-> <<>>]

(* Where the NAL unit in assembly ends after packet p; 0 when it is void. *)
RunTo(r, p) ==
  IF /\ p.seq = r.expect["video"]
     /\ p.from = IF p.start THEN 2 ELSE r.run
    THEN p.to ELSE 0

(* run: how much of a fragmented NAL unit is there; nals: the lengths of   *)
(* those that are complete; out: a whole unit, told by the marker bit.     *)
Receive(r, p) ==
  LET run  == RunTo(r, p)
      nals == IF p.end THEN Append(r.nals, run) ELSE r.nals
  IN  [expect |-> [r.expect EXCEPT !["video"] = (p.seq + 1) % SeqSpace],
       run    |-> IF p.end THEN 0 ELSE run,
       nals   |-> IF p.marker THEN <<>> ELSE nals,
       out    |-> IF p.marker THEN nals ELSE r.out]

-----------------------------------------------------------------------------
(* send_rtp_packet counts before it sends. *)
Count(track) ==
  rtp_seq' = [rtp_seq EXCEPT ![track] = (@ + 1) % SeqSpace]

(* A client is accepted: random_u32 for every track. *)
Renumber ==
  /\ ~streaming
  /\ rtp_seq' \in [Tracks -> 0 .. SeqSpace - 1]
  /\ UNCHANGED <<streaming, unit, nal, pos, rx>>

(* The stream begins; the client knows the numbers of RTP-Info. *)
Start(info) ==
  /\ ~streaming /\ streaming' = TRUE
  /\ rx' = Fresh(info)
  /\ UNCHANGED <<rtp_seq, unit, nal, pos>>

(* flush_current_au begins with an access unit. *)
Flush ==
  /\ streaming /\ unit = <<>>
  /\ unit' \in AccessUnits /\ nal' = 1 /\ pos' = 2
  /\ rx' = [rx EXCEPT !.out = <<>>]
  /\ UNCHANGED <<streaming, rtp_seq>>

(* One round of send_hevc_nal, and of the loop that calls it. *)
SendVideo ==
  /\ streaming /\ unit # <<>>
  /\ Count("video")
  /\ rx' = Receive(rx, VideoPacket)
  /\ pos' = IF VideoPacket.end THEN 2 ELSE VideoPacket.to
  /\ IF VideoPacket.end /\ nal = Len(unit)
       THEN unit' = <<>> /\ nal' = 1
       ELSE UNCHANGED unit /\ nal' = IF VideoPacket.end THEN nal + 1 ELSE nal
  /\ UNCHANGED streaming

(* send_aac_frame; an entry without a frame is skipped. *)
SendAudio(h) ==
  /\ streaming /\ unit = <<>> /\ ~IsOversized(h)
  /\ Count("audio")
  /\ rx' = [rx EXCEPT !.expect["audio"] = (AudioPacket(h).seq + 1) % SeqSpace]
  /\ UNCHANGED <<streaming, unit, nal, pos>>

(* stream_main returns: the client is gone, the ring is, or a frame did    *)
(* not fit (EMSGSIZE).  reset_hevc_stream drops what was under way.        *)
Stop ==
  /\ streaming /\ streaming' = FALSE
  /\ unit' = <<>> /\ nal' = 1 /\ pos' = 2
  /\ rx' = Fresh(rtp_seq)
  /\ UNCHANGED rtp_seq

RtpInit ==
  /\ streaming = FALSE
  /\ rtp_seq \in [Tracks -> 0 .. SeqSpace - 1]
  /\ unit = <<>> /\ nal = 1 /\ pos = 2
  /\ rx = Fresh(rtp_seq)

RtpNext ==
  \/ Renumber \/ Start(rtp_seq) \/ Flush \/ SendVideo \/ Stop
  \/ \E e \in AudioEntries : \E h \in Frames(e) : SendAudio(h)

RtpSpec == RtpInit /\ [][RtpNext]_rtpVars

-----------------------------------------------------------------------------
(* Packets carry at most RTP_MAX_PAYLOAD bytes and never nothing, however  *)
(* a NAL unit divides; no fragment is both the first and the last, which   *)
(* RFC 7798 forbids; and the 13-bit AU-size of an audio packet is the      *)
(* length of the frame that follows, although it is put together from two  *)
(* bytes.                                                                  *)
WellFormed ==
  /\ unit # <<>> =>
       /\ VideoPacket.size <= RTP_MAX_PAYLOAD
       /\ VideoPacket.from < VideoPacket.to \/ unit[nal] = 2
       /\ VideoPacket.fu => ~(VideoPacket.start /\ VideoPacket.end)
  /\ \A e \in AudioEntries : \A h \in Frames(e) :
       ~IsOversized(h) => LET p == AudioPacket(h)
                          IN  /\ p.size <= RTP_MAX_PAYLOAD
                              /\ AuSize(p.au) = p.size - 4

(* The receiver has, at any time, what has been sent so far: the NAL units *)
(* before this one, and this one up to pos.                                *)
InStep ==
  streaming =>
    /\ rx.expect = rtp_seq
    /\ rx.nals = SubSeq(unit, 1, nal - 1)
    /\ rx.run = IF pos = 2 THEN 0 ELSE pos

(* Packets make a channel of access units. *)
Channel == INSTANCE UnitChannel
             WITH Units <- AccessUnits, up <- streaming, underway <- unit,
                  out <- rx.out

DeliversUnits == Channel!Spec
=============================================================================
