------------------------ MODULE RtspSession_proofs ------------------------
(***************************************************************************)
(* Proofs about RtpSender and RtspSession.  A session sends packets the    *)
(* way RtpSender does, whatever requests come before (SessionSends), and   *)
(* packets sent that way are well formed and make up whole access units.   *)
(* A packet comes on the channel its client knows of by the time it reads  *)
(* it, and a client that waits gets one answer to each request.            *)
(***************************************************************************)
EXTENDS RtspSession, SequenceTheorems, TLAPS

-----------------------------------------------------------------------------
(* The inductive invariant of RtpSender *)

SeqNumbers == [Tracks -> 0 .. SeqSpace - 1]

RtpType ==
  /\ streaming \in BOOLEAN
  /\ rtp_seq \in SeqNumbers
  /\ unit \in AccessUnits \cup {<<>>}
  /\ nal \in Nat /\ pos \in Nat
  /\ rx \in [expect : SeqNumbers, run : Nat, nals : Seq(Nat), out : Seq(Nat)]

(* Where send_hevc_nal is: at the beginning of a NAL unit, or between two  *)
(* fragments of one that does not fit.                                     *)
Place ==
  /\ unit = <<>> => nal = 1 /\ pos = 2
  /\ unit # <<>> =>
       /\ streaming
       /\ nal \in 1 .. Len(unit)
       /\ pos = 2 \/ (~IsWhole(unit[nal]) /\ 2 < pos /\ pos < unit[nal])

RtpInv == RtpType /\ Place /\ InStep /\ (unit # <<>> => rx.out = <<>>)

-----------------------------------------------------------------------------
(* A unit under way is a sequence of lengths of two bytes and more.        *)
LEMMA UnitType ==
  ASSUME RtpInv, unit # <<>>
  PROVE  /\ unit \in Seq(Nat \ {0, 1}) /\ unit \in Seq(Nat)
         /\ Len(unit) \in Nat /\ unit[nal] \in Nat /\ unit[nal] >= 2
<1>1. unit \in Seq(Nat \ {0, 1})
  BY RtpAssumption DEF RtpInv, RtpType
<1>2. \A i \in 1 .. Len(unit) : unit[i] \in Nat \ {0, 1}
  BY <1>1, ElementOfSeq
<1>3. unit \in Seq(Nat)
  BY <1>1, SMT
<1> QED
  BY <1>1, <1>2, <1>3, LenProperties DEF RtpInv, Place

(* What the next packet of a unit looks like: it starts at pos, ends later *)
(* and not behind the NAL unit, and is the last one if it ends there.      *)
LEMMA PacketShape ==
  ASSUME RtpInv, unit # <<>>
  PROVE  /\ VideoPacket.from = pos /\ VideoPacket.to \in Nat
         /\ VideoPacket.end \in BOOLEAN
         /\ VideoPacket.seq = rtp_seq["video"]
         /\ VideoPacket.start <=> pos = 2
         /\ VideoPacket.end => VideoPacket.to = unit[nal]
         /\ ~VideoPacket.end => /\ ~IsWhole(unit[nal])
                                /\ 2 < VideoPacket.to
                                /\ VideoPacket.to < unit[nal]
         /\ VideoPacket.marker <=> VideoPacket.end /\ nal = Len(unit)
<1>1. unit[nal] \in Nat /\ unit[nal] >= 2 /\ pos \in Nat /\ pos >= 2
  BY UnitType DEF RtpInv, RtpType, Place
<1>2. /\ VideoPacket.from = pos
      /\ VideoPacket.seq = rtp_seq["video"]
      /\ VideoPacket.start <=> pos = 2
      /\ VideoPacket.end <=> IsEnd(unit[nal], pos)
      /\ VideoPacket.end \in BOOLEAN
      /\ VideoPacket.to =
           IF IsEnd(unit[nal], pos) THEN unit[nal] ELSE pos + FragmentRoom
      /\ VideoPacket.marker <=> IsEnd(unit[nal], pos) /\ nal = Len(unit)
  BY DEF VideoPacket, IsEnd, IsLastNal
<1>3. ~IsEnd(unit[nal], pos) => /\ ~IsWhole(unit[nal])
                                /\ 2 < pos + FragmentRoom
                                /\ pos + FragmentRoom < unit[nal]
  BY <1>1, RtpAssumption DEF IsEnd, IsWhole, FragmentRoom
<1>4. FragmentRoom \in Nat
  BY RtpAssumption DEF FragmentRoom
<1>5. VideoPacket.to \in Nat
  BY <1>1, <1>2, <1>4
<1> QED
  BY <1>2, <1>3, <1>5

(* The receiver takes the packet in: it has the right number, and goes on  *)
(* where the one before ended.                                             *)
LEMMA TakenIn ==
  ASSUME RtpInv, unit # <<>>
  PROVE  RunTo(rx, VideoPacket) = VideoPacket.to
<1>1. rx.expect = rtp_seq /\ rx.run = IF pos = 2 THEN 0 ELSE pos
  BY DEF RtpInv, InStep, Place
<1> QED
  BY <1>1, PacketShape DEF RunTo

(* The lengths of the first n NAL units and the next one are those of n+1. *)
LEMMA OneMore ==
  ASSUME NEW S, NEW s \in Seq(S), NEW n \in 1 .. Len(s)
  PROVE  Append(SubSeq(s, 1, n - 1), s[n]) = SubSeq(s, 1, n)
<1>1. Len(s) \in Nat /\ n \in Nat
  BY LenProperties
<1>2. /\ SubSeq(s, 1, n - 1) \in Seq(S) /\ Len(SubSeq(s, 1, n - 1)) = n - 1
      /\ \A i \in 1 .. n - 1 : SubSeq(s, 1, n - 1)[i] = s[i]
  BY <1>1, SubSeqProperties
<1>3. /\ SubSeq(s, 1, n) \in Seq(S) /\ Len(SubSeq(s, 1, n)) = n
      /\ \A i \in 1 .. n : SubSeq(s, 1, n)[i] = s[i]
  BY <1>1, SubSeqProperties
<1> DEFINE t == Append(SubSeq(s, 1, n - 1), s[n])
<1>4. s[n] \in S
  BY ElementOfSeq
<1>5. /\ t \in Seq(S) /\ Len(t) = n /\ t[n] = s[n]
      /\ \A i \in 1 .. n - 1 : t[i] = s[i]
  BY <1>1, <1>2, <1>4, AppendProperties
<1>6. \A i \in 1 .. n : t[i] = SubSeq(s, 1, n)[i]
  BY <1>1, <1>3, <1>5
<1> HIDE DEF t
<1>7. t = SubSeq(s, 1, n)
  BY <1>3, <1>5, <1>6, SeqEqual
<1> QED
  BY <1>7 DEF t

-----------------------------------------------------------------------------
(* Every step of the sender preserves it *)

(* Sequence numbers stay in their range.                                   *)
LEMMA CountType ==
  ASSUME rtp_seq \in SeqNumbers, NEW t \in Tracks, Count(t)
  PROVE  /\ rtp_seq' \in SeqNumbers
         /\ rtp_seq' = [rtp_seq EXCEPT ![t] = (rtp_seq[t] + 1) % SeqSpace]
<1>1. rtp_seq[t] \in Nat
  BY DEF SeqNumbers
<1>2. (rtp_seq[t] + 1) % SeqSpace \in 0 .. SeqSpace - 1
  BY <1>1, RtpAssumption
<1> QED
  BY <1>2 DEF Count, SeqNumbers

(* A packet arrives: the receiver is in step again. *)
LEMMA SendVideoKeepsRtpInv ==
  ASSUME RtpInv, SendVideo
  PROVE  RtpInv'
<1> DEFINE p == VideoPacket
<1>1. unit # <<>> /\ streaming /\ streaming' = streaming
  BY DEF SendVideo
<1>2. /\ unit \in Seq(Nat) /\ Len(unit) \in Nat /\ nal \in 1 .. Len(unit)
      /\ unit[nal] \in Nat /\ unit[nal] >= 2
  BY <1>1, UnitType DEF RtpInv, Place
<1>3. /\ rx' = Receive(rx, p) /\ pos' = IF p.end THEN 2 ELSE p.to
      /\ IF p.end /\ nal = Len(unit)
           THEN unit' = <<>> /\ nal' = 1
           ELSE unit' = unit /\ nal' = IF p.end THEN nal + 1 ELSE nal
  BY DEF SendVideo
<1>4. /\ p.to \in Nat /\ p.end \in BOOLEAN /\ p.seq = rtp_seq["video"]
      /\ p.end => p.to = unit[nal]
      /\ ~p.end => /\ ~IsWhole(unit[nal]) /\ 2 < p.to /\ p.to < unit[nal]
      /\ p.marker <=> p.end /\ nal = Len(unit)
      /\ RunTo(rx, p) = p.to
  BY <1>1, PacketShape, TakenIn
<1>5. /\ rx.expect = rtp_seq /\ rx.nals = SubSeq(unit, 1, nal - 1)
      /\ rx.out = <<>>
  BY <1>1 DEF RtpInv, InStep
<1>6. rtp_seq \in SeqNumbers /\ Count("video")
  BY DEF RtpInv, RtpType, SendVideo
<1>7. /\ rtp_seq' \in SeqNumbers
      /\ rtp_seq' = [rtp_seq EXCEPT !["video"] = (rtp_seq["video"] + 1) % SeqSpace]
  BY <1>6, CountType DEF Tracks
<1>8. rx'.expect = rtp_seq'
  BY <1>3, <1>4, <1>5, <1>7 DEF Receive
<1>9. rx' = [expect |-> rx'.expect, run |-> rx'.run,
              nals |-> rx'.nals, out |-> rx'.out]
  BY <1>3 DEF Receive
<1> HIDE DEF p
<1>10. rx'.run = IF p.end THEN 0 ELSE p.to
  BY <1>3, <1>4 DEF Receive
<1>11. Append(rx.nals, unit[nal]) = SubSeq(unit, 1, nal)
  BY <1>2, <1>5, OneMore
<1>12. SubSeq(unit, 1, nal) \in Seq(Nat) /\ SubSeq(unit, 1, nal - 1) \in Seq(Nat)
  <2>1. \A i \in 1 .. nal : unit[i] \in Nat
    BY <1>2, ElementOfSeq
  <2> QED
    BY <2>1, <1>2, SubSeqProperties
<1>13. CASE ~p.end
  <2>1. rx'.nals = rx.nals /\ rx'.out = rx.out
    BY <1>3, <1>4, <1>13 DEF Receive
  <2>2. unit' = unit /\ nal' = nal /\ pos' = p.to /\ rx'.run = p.to
    BY <1>3, <1>10, <1>13
  <2>3. rx' \in [expect : SeqNumbers, run : Nat, nals : Seq(Nat), out : Seq(Nat)]
    <3>1. rx'.expect \in SeqNumbers /\ rx'.run \in Nat
      BY <1>4, <1>7, <1>8, <2>2
    <3>2. rx'.nals \in Seq(Nat) /\ rx'.out \in Seq(Nat)
      BY <1>5, <1>12, <2>1, EmptySeq
    <3> QED
      BY <1>9, <3>1, <3>2
  <2>4. RtpType'
    BY <1>1, <1>4, <1>7, <2>2, <2>3 DEF RtpInv, RtpType
  <2>5. Place'
    BY <1>1, <1>2, <1>4, <1>13, <2>2 DEF Place, IsWhole
  <2>6. InStep'
    BY <1>4, <1>5, <1>8, <1>13, <2>1, <2>2 DEF InStep
  <2> QED
    BY <1>5, <2>1, <2>4, <2>5, <2>6 DEF RtpInv
<1>14. CASE p.end /\ nal # Len(unit)
  <2>1. rx'.nals = SubSeq(unit, 1, nal) /\ rx'.out = rx.out
    BY <1>3, <1>4, <1>11, <1>14 DEF Receive
  <2>2. unit' = unit /\ nal' = nal + 1 /\ pos' = 2 /\ rx'.run = 0
    BY <1>3, <1>10, <1>14
  <2>3. rx' \in [expect : SeqNumbers, run : Nat, nals : Seq(Nat), out : Seq(Nat)]
    <3>1. rx'.expect \in SeqNumbers /\ rx'.run \in Nat
      BY <1>7, <1>8, <2>2
    <3>2. rx'.nals \in Seq(Nat) /\ rx'.out \in Seq(Nat)
      BY <1>5, <1>12, <2>1, EmptySeq
    <3> QED
      BY <1>9, <3>1, <3>2
  <2>4. RtpType'
    BY <1>1, <1>2, <1>7, <2>2, <2>3 DEF RtpInv, RtpType
  <2>5. Place'
    BY <1>1, <1>2, <1>14, <2>2 DEF Place
  <2>6. InStep'
    <3>1. nal' - 1 = nal
      BY <1>2, <2>2
    <3> QED
      BY <1>8, <2>1, <2>2, <3>1 DEF InStep
  <2> QED
    BY <1>5, <2>1, <2>4, <2>5, <2>6 DEF RtpInv
<1>15. CASE p.end /\ nal = Len(unit)
  <2>1. rx'.nals = <<>> /\ rx'.out = SubSeq(unit, 1, nal)
    BY <1>3, <1>4, <1>11, <1>15 DEF Receive
  <2>2. unit' = <<>> /\ nal' = 1 /\ pos' = 2 /\ rx'.run = 0
    BY <1>3, <1>10, <1>15
  <2>3. rx' \in [expect : SeqNumbers, run : Nat, nals : Seq(Nat), out : Seq(Nat)]
    <3>1. rx'.expect \in SeqNumbers /\ rx'.run \in Nat
      BY <1>7, <1>8, <2>2
    <3>2. rx'.nals \in Seq(Nat) /\ rx'.out \in Seq(Nat)
      BY <1>12, <2>1, EmptySeq
    <3> QED
      BY <1>9, <3>1, <3>2
  <2>4. RtpType' /\ Place'
    BY <1>1, <1>7, <2>2, <2>3 DEF RtpInv, RtpType, Place
  <2>5. SubSeq(<<>>, 1, 1 - 1) = <<>>
    OBVIOUS
  <2>6. InStep'
    BY <1>8, <2>1, <2>2, <2>5 DEF InStep
  <2> QED
    BY <2>2, <2>4, <2>6 DEF RtpInv
<1> QED
  BY <1>4, <1>13, <1>14, <1>15

(* An audio packet counts on both sides and touches nothing else. *)
LEMMA SendAudioKeepsRtpInv ==
  ASSUME RtpInv, NEW h, SendAudio(h)
  PROVE  RtpInv'
<1>1. /\ streaming /\ unit = <<>> /\ UNCHANGED <<streaming, unit, nal, pos>>
      /\ rx' = [rx EXCEPT !.expect["audio"] = (rtp_seq["audio"] + 1) % SeqSpace]
      /\ rtp_seq \in SeqNumbers /\ Count("audio")
  BY DEF SendAudio, AudioPacket, RtpInv, RtpType
<1>2. /\ rtp_seq' \in SeqNumbers
      /\ rtp_seq' = [rtp_seq EXCEPT !["audio"] = (rtp_seq["audio"] + 1) % SeqSpace]
  BY <1>1, CountType DEF Tracks
<1>3. /\ rx.expect = rtp_seq
      /\ rx \in [expect : SeqNumbers, run : Nat, nals : Seq(Nat), out : Seq(Nat)]
  BY <1>1 DEF RtpInv, RtpType, InStep
<1>4. /\ rx'.expect = rtp_seq'
      /\ rx'.run = rx.run /\ rx'.nals = rx.nals /\ rx'.out = rx.out
      /\ rx' \in [expect : SeqNumbers, run : Nat, nals : Seq(Nat), out : Seq(Nat)]
  BY <1>1, <1>2, <1>3
<1> QED
  BY <1>1, <1>2, <1>4 DEF RtpInv, RtpType, Place, InStep

(* Before the first packet both sides have nothing.                        *)
LEMMA FreshIsInStep ==
  ASSUME NEW expect \in SeqNumbers
  PROVE  /\ Fresh(expect) \in [expect : SeqNumbers, run : Nat,
                               nals : Seq(Nat), out : Seq(Nat)]
         /\ Fresh(expect).expect = expect /\ Fresh(expect).run = 0
         /\ Fresh(expect).nals = <<>> /\ Fresh(expect).out = <<>>
  BY DEF Fresh

(* RtpInv holds at the beginning,                                          *)
LEMMA RtpInitially == RtpInit => RtpInv
<1> SUFFICES ASSUME RtpInit PROVE RtpInv
  OBVIOUS
<1>1. rtp_seq \in SeqNumbers /\ rx = Fresh(rtp_seq)
  BY DEF RtpInit, SeqNumbers
<1> QED
  BY <1>1, FreshIsInStep DEF RtpInit, RtpInv, RtpType, Place, InStep

(* and is inductive.                                                       *)
LEMMA RtpStep == RtpInv /\ [RtpNext]_rtpVars => RtpInv'
<1> SUFFICES ASSUME RtpInv, [RtpNext]_rtpVars PROVE RtpInv'
  OBVIOUS
<1>1. SubSeq(<<>>, 1, 1 - 1) = <<>>
  OBVIOUS
<1>2. CASE Renumber
  BY <1>2 DEF Renumber, RtpInv, RtpType, Place, InStep, SeqNumbers
<1>3. CASE Start(rtp_seq)
  <2>1. /\ unit' = <<>> /\ nal' = 1 /\ pos' = 2 /\ streaming' = TRUE
        /\ rtp_seq' = rtp_seq /\ rx' = Fresh(rtp_seq) /\ rtp_seq \in SeqNumbers
    BY <1>3 DEF Start, RtpInv, RtpType, Place
  <2> QED
    BY <1>1, <2>1, FreshIsInStep DEF RtpInv, RtpType, Place, InStep
<1>4. CASE Flush
  <2>1. /\ unit' \in AccessUnits /\ nal' = 1 /\ pos' = 2
        /\ streaming /\ streaming' /\ streaming' \in BOOLEAN
        /\ rtp_seq' = rtp_seq /\ rx' = [rx EXCEPT !.out = <<>>]
    BY <1>4 DEF Flush, RtpInv, RtpType
  <2>2. /\ rx.expect = rtp_seq /\ rx.run = 0 /\ rx.nals = <<>>
        /\ rx \in [expect : SeqNumbers, run : Nat, nals : Seq(Nat), out : Seq(Nat)]
    BY <1>1, <1>4 DEF Flush, RtpInv, RtpType, Place, InStep
  <2>3. /\ rx'.expect = rtp_seq' /\ rx'.run = 0 /\ rx'.nals = <<>>
        /\ rx'.out = <<>>
        /\ rx' \in [expect : SeqNumbers, run : Nat, nals : Seq(Nat), out : Seq(Nat)]
    BY <2>1, <2>2
  <2>4. unit' \in Seq(Nat \ {0, 1}) /\ unit' # <<>> /\ Len(unit') \in Nat
    BY <2>1, RtpAssumption, LenProperties
  <2>5. 1 \in 1 .. Len(unit')
    BY <2>4, EmptySeq
  <2>6. SubSeq(unit', 1, 1 - 1) = <<>>
    BY <2>4
  <2>7. RtpType'
    BY <2>1, <2>3 DEF RtpInv, RtpType
  <2> QED
    BY <2>1, <2>3, <2>4, <2>5, <2>6, <2>7 DEF RtpInv, Place, InStep
<1>5. CASE SendVideo
  BY <1>5, SendVideoKeepsRtpInv
<1>6. CASE Stop
  <2>1. /\ unit' = <<>> /\ nal' = 1 /\ pos' = 2 /\ streaming' = FALSE
        /\ rtp_seq' = rtp_seq /\ rx' = Fresh(rtp_seq) /\ rtp_seq \in SeqNumbers
    BY <1>6 DEF Stop, RtpInv, RtpType
  <2> QED
    BY <2>1, FreshIsInStep DEF RtpInv, RtpType, Place, InStep
<1>7. ASSUME NEW e \in AudioEntries, NEW h \in Frames(e), SendAudio(h)
      PROVE  RtpInv'
  BY <1>7, SendAudioKeepsRtpInv
<1>8. CASE UNCHANGED rtpVars
  BY <1>8 DEF rtpVars, RtpInv, RtpType, Place, InStep
<1> QED
  BY <1>2, <1>3, <1>4, <1>5, <1>6, <1>7, <1>8 DEF RtpNext

-----------------------------------------------------------------------------
(* What follows from it *)

(* 13 bits of AU-size survive being put into two bytes. *)
LEMMA AuSizeIsRead ==
  ASSUME NEW raw \in Bits13
  PROVE  AuSize(AuHeader(raw)) = raw
<1>1. /\ AuHeader(raw)[1] = (raw \div 32) % 256
      /\ AuHeader(raw)[2] = (raw % 32) * 8
  BY DEF AuHeader
<1>2. raw \in 0 .. 8191
  BY DEF Bits13
<1>3. raw \div 32 \in 0 .. 255
  BY <1>2, SMT
<1>4. \A b \in 0 .. 255 : b % 256 = b
  BY SMT
<1>5. (raw \div 32) * 256 + (raw % 32) * 8 = 8 * raw
  BY <1>2, SMT
<1>6. (8 * raw) \div 8 = raw
  BY <1>2, SMT
<1> QED
  BY <1>1, <1>3, <1>4, <1>5, <1>6 DEF AuSize

(* An audio packet is a header and a frame that fits.                      *)
LEMMA AudioPayload ==
  ASSUME NEW frame \in Bits13, NEW header \in {7, 9}, frame >= header,
         ~(frame - header > RTP_MAX_PAYLOAD - 4)
  PROVE  /\ frame - header \in Bits13
         /\ (frame - header) + 4 <= RTP_MAX_PAYLOAD
         /\ ((frame - header) + 4) - 4 = frame - header
  BY RtpAssumption DEF Bits13

(* An audio frame that is sent fits, and its packet states its length. *)
LEMMA AudioIsWellFormed ==
  ASSUME NEW e \in AudioEntries, NEW h \in Frames(e), ~IsOversized(h)
  PROVE  /\ AudioPacket(h).size <= RTP_MAX_PAYLOAD
         /\ AuSize(AudioPacket(h).au) = AudioPacket(h).size - 4
<1>1. e \in AudioEntry /\ h \in e.heads /\ Parses(e, h)
  BY RtpAssumption DEF Frames
<1>2. h \in [at : Nat, header : {7, 9}, frame : Bits13]
  BY <1>1 DEF AudioEntry
<1>3. /\ h.frame \in Bits13 /\ h.header \in {7, 9} /\ h.frame >= h.header
      /\ ~(h.frame - h.header > RTP_MAX_PAYLOAD - 4)
  BY <1>1, <1>2 DEF Parses, IsOversized, RawLen
<1> DEFINE raw == h.frame - h.header
<1>4. raw \in Bits13 /\ raw + 4 <= RTP_MAX_PAYLOAD /\ (raw + 4) - 4 = raw
  BY <1>3, AudioPayload
<1>5. AudioPacket(h).size = raw + 4 /\ AudioPacket(h).au = AuHeader(raw)
  BY DEF AudioPacket, RawLen
<1> HIDE DEF raw
<1>6. AuSize(AuHeader(raw)) = raw
  BY <1>4, AuSizeIsRead
<1> QED
  BY <1>4, <1>5, <1>6

(* No video packet is empty, too long, or first and last at once.          *)
LEMMA VideoIsWellFormed ==
  ASSUME RtpInv, unit # <<>>
  PROVE  /\ VideoPacket.size <= RTP_MAX_PAYLOAD
         /\ VideoPacket.from < VideoPacket.to \/ unit[nal] = 2
         /\ VideoPacket.fu => ~(VideoPacket.start /\ VideoPacket.end)
<1>1. /\ unit[nal] \in Nat /\ unit[nal] >= 2 /\ pos \in Nat
      /\ pos = 2 \/ (~IsWhole(unit[nal]) /\ 2 < pos /\ pos < unit[nal])
  BY UnitType DEF RtpInv, RtpType, Place
<1>2. /\ VideoPacket.from = pos
      /\ VideoPacket.start <=> pos = 2
      /\ VideoPacket.end <=> IsEnd(unit[nal], pos)
      /\ VideoPacket.fu <=> ~IsWhole(unit[nal])
      /\ VideoPacket.to =
           IF IsEnd(unit[nal], pos) THEN unit[nal] ELSE pos + FragmentRoom
      /\ VideoPacket.size =
           (VideoPacket.to - pos) + (IF ~IsWhole(unit[nal]) THEN 3 ELSE 2)
  BY DEF VideoPacket
<1>3. CASE IsWhole(unit[nal])
  BY <1>1, <1>2, <1>3, RtpAssumption DEF IsWhole, IsEnd
<1>4. CASE ~IsWhole(unit[nal]) /\ IsEnd(unit[nal], pos)
  BY <1>1, <1>2, <1>4, RtpAssumption DEF IsWhole, IsEnd, FragmentRoom
<1>5. CASE ~IsEnd(unit[nal], pos)
  BY <1>1, <1>2, <1>5, RtpAssumption DEF IsWhole, IsEnd, FragmentRoom
<1> QED
  BY <1>3, <1>4, <1>5

(* RtpInv is stronger than WellFormed.                                     *)
LEMMA InvariantIsWellFormed == RtpInv => WellFormed
  BY VideoIsWellFormed, AudioIsWellFormed DEF WellFormed

(* Init and the steps of the sender are those of the channel. *)
LEMMA ChannelInit == RtpInit => Channel!Init
  BY FreshIsInStep DEF RtpInit, Channel!Init, SeqNumbers

(* Every packet is a step of the channel or leaves it alone.               *)
LEMMA ChannelStep ==
  RtpInv /\ RtpInv' /\ [RtpNext]_rtpVars
    => [Channel!Next]_<<streaming, unit, rx.out>>
<1> SUFFICES ASSUME RtpInv, RtpInv', [RtpNext]_rtpVars
             PROVE  [Channel!Next]_<<streaming, unit, rx.out>>
  OBVIOUS
<1>1. CASE Renumber
  BY <1>1 DEF Renumber
<1>2. CASE Start(rtp_seq)
  BY <1>2 DEF Start, Fresh, RtpInv, Place, Channel!Next, Channel!Open
<1>3. CASE Flush
  <2>1. rx'.out = <<>>
    BY <1>3 DEF Flush, RtpInv, RtpType
  <2> QED
    BY <1>3, <2>1 DEF Flush, Channel!Next, Channel!Offer
<1>4. CASE SendVideo
  <2>1. unit # <<>> /\ streaming /\ UNCHANGED streaming
    BY <1>4 DEF SendVideo
  <2>2. /\ VideoPacket.end => VideoPacket.to = unit[nal]
        /\ VideoPacket.marker <=> VideoPacket.end /\ nal = Len(unit)
        /\ RunTo(rx, VideoPacket) = VideoPacket.to
    BY <2>1, PacketShape, TakenIn
  <2>3. CASE VideoPacket.end /\ nal = Len(unit)
    <3>1. unit' = <<>>
      BY <1>4, <2>3 DEF SendVideo
    <3>2. rx'.out = Append(rx.nals, unit[nal])
      BY <1>4, <2>2, <2>3 DEF SendVideo, Receive
    <3>3. rx'.out = unit
      <4>1. unit \in Seq(Nat) /\ nal \in 1 .. Len(unit)
        BY <2>1, UnitType DEF RtpInv, Place
      <4>2. Append(rx.nals, unit[nal]) = SubSeq(unit, 1, Len(unit))
        BY <2>1, <2>3, <4>1, OneMore DEF RtpInv, InStep
      <4> QED
        BY <3>2, <4>1, <4>2
    <3> QED
      BY <2>1, <3>1, <3>3 DEF Channel!Next, Channel!Deliver
  <2>4. CASE ~(VideoPacket.end /\ nal = Len(unit))
    <3>1. unit' = unit
      BY <1>4, <2>4 DEF SendVideo
    <3>2. rx'.out = rx.out
      BY <1>4, <2>2, <2>4 DEF SendVideo, Receive
    <3> QED
      BY <2>1, <3>1, <3>2
  <2> QED
    BY <2>3, <2>4
<1>5. CASE Stop
  BY <1>5 DEF Stop, Fresh, Channel!Next, Channel!Close
<1>6. ASSUME NEW e \in AudioEntries, NEW h \in Frames(e), SendAudio(h)
      PROVE  UNCHANGED <<streaming, unit, rx.out>>
  BY <1>6 DEF SendAudio, RtpInv, RtpType
<1>7. CASE UNCHANGED rtpVars
  BY <1>7 DEF rtpVars
<1> QED
  BY <1>1, <1>2, <1>3, <1>4, <1>5, <1>6, <1>7 DEF RtpNext

-----------------------------------------------------------------------------
(* The session *)

Afterwards == {"recv", "close", "stream"}

(* A stream is on exactly while main() is in stream_main, and an answer to *)
(* PLAY names the numbers the stream will begin with.                      *)
SessionInv ==
  /\ streaming <=> pc = "stream"
  /\ pc = "reply" => /\ reply.info = rtp_seq
                     /\ reply.next \in Afterwards
                     /\ reply.failed \in Afterwards \ {"stream"}

(* At the beginning no stream is on.                                       *)
LEMMA SessionInitially == Init => SessionInv
  BY DEF Init, RtpInit, SessionInv

(* An answer is put together with the sequence numbers of this moment.     *)
LEMMA ReplyIsCurrent ==
  ASSUME NEW code, NEW next \in Afterwards,
         NEW failed \in Afterwards \ {"stream"}, Reply(code, next, failed)
  PROVE  /\ pc' = "reply" /\ reply'.info = rtp_seq
         /\ reply'.next \in Afterwards
         /\ reply'.failed \in Afterwards \ {"stream"}
  BY DEF Reply

(* A request handler answers or gives up, and sends no packet. *)
LEMMA HandleStep ==
  ASSUME SessionInv, Handle
  PROVE  SessionInv' /\ UNCHANGED rtpVars
<1> DEFINE Answers == \E code : \E next \in Afterwards :
                        \E failed \in Afterwards \ {"stream"} :
                          Reply(code, next, failed)
<1>1. UNCHANGED rtpVars /\ pc = "handle"
  BY DEF Handle, Junk, Garbled, NotFound, Describe, Unsupported, NoAudio, Setup,
         Play, Teardown, NotImplemented, Handles
<1>2. ~streaming /\ UNCHANGED <<streaming, rtp_seq>>
  BY <1>1 DEF SessionInv, rtpVars
<1> SUFFICES SessionInv'
  BY <1>1
<1>3. ASSUME pc' = "close" PROVE SessionInv'
  BY <1>2, <1>3 DEF SessionInv
<1>4. ASSUME Answers PROVE SessionInv'
  BY <1>2, <1>4, ReplyIsCurrent DEF SessionInv
<1>5. CASE Junk
  BY <1>3, <1>5 DEF Junk, Drop
<1>6. CASE Garbled
  <2>1. Drop \/ Reply(404, "recv", "recv") \/ Reply(501, "recv", "close")
    BY <1>6 DEF Garbled
  <2>2. Drop \/ Answers
    BY <2>1 DEF Afterwards
  <2> QED
    BY <1>3, <1>4, <2>2 DEF Drop
<1>7. CASE NotFound \/ Unsupported \/ NoAudio
  <2>1. Answers
    BY <1>7 DEF NotFound, Unsupported, NoAudio, Afterwards
  <2> QED
    BY <1>4, <2>1
<1>8. CASE Describe \/ NotImplemented
  <2>1. Answers
    BY <1>8 DEF Describe, NotImplemented, Afterwards
  <2> QED
    BY <1>4, <2>1
<1>9. CASE Play \/ Teardown
  <2>1. Answers
    BY <1>9 DEF Play, Teardown, Afterwards
  <2> QED
    BY <1>4, <2>1
<1>10. CASE Setup
  <2>1. /\ pc' = "reply" /\ reply'.info = rtp_seq
        /\ reply'.next = "recv" /\ reply'.failed = "close"
    BY <1>10 DEF Setup
  <2> QED
    BY <1>2, <2>1 DEF SessionInv, Afterwards
<1> QED
  BY <1>1, <1>5, <1>6, <1>7, <1>8, <1>9, <1>10 DEF Handle

(* A step of the session is one of the sender, or leaves it alone. *)
LEMMA SessionStep ==
  SessionInv /\ [Next]_vars => SessionInv' /\ [RtpNext]_rtpVars
<1> SUFFICES ASSUME SessionInv, [Next]_vars
             PROVE  SessionInv' /\ [RtpNext]_rtpVars
  OBVIOUS
<1>1. CASE World
  <2>1. UNCHANGED <<pc, reply, rtpVars>>
    BY <1>1 DEF World, Connect, Ask, Read, Leave
  <2> QED
    BY <2>1 DEF SessionInv, rtpVars
<1>2. CASE Accept
  <2>1. pc' = "recv" /\ Renumber
    BY <1>2 DEF Accept
  <2> QED
    BY <2>1 DEF SessionInv, Renumber, RtpNext
<1>3. CASE RecvSome
  <2>1. /\ pc = "recv" /\ pc' \in {"handle", "recv"}
        /\ UNCHANGED <<reply, rtpVars>>
    BY <1>3 DEF RecvSome
  <2> QED
    BY <2>1 DEF SessionInv, rtpVars
<1>4. CASE RecvEnds
  <2>1. pc = "recv" /\ pc' = "close" /\ UNCHANGED <<reply, rtpVars>>
    BY <1>4 DEF RecvEnds
  <2> QED
    BY <2>1 DEF SessionInv, rtpVars
<1>5. CASE Handle
  BY <1>5, HandleStep
<1>6. CASE SendReply
  <2>1. /\ pc = "reply" /\ pc' = reply.next /\ reply.next \in Afterwards
        /\ reply.info = rtp_seq /\ ~streaming
    BY <1>6 DEF SendReply, SessionInv
  <2>2. CASE reply.next = "stream"
    <3>1. Start(rtp_seq)
      BY <1>6, <2>1, <2>2 DEF SendReply
    <3> QED
      BY <2>1, <2>2, <3>1 DEF SessionInv, Start, RtpNext
  <2>3. CASE reply.next # "stream"
    <3>1. UNCHANGED rtpVars
      BY <1>6, <2>3 DEF SendReply
    <3> QED
      BY <2>1, <2>3, <3>1 DEF SessionInv, rtpVars, Afterwards
  <2> QED
    BY <2>2, <2>3
<1>7. CASE ReplyFails
  <2>1. /\ pc = "reply" /\ pc' \in Afterwards \ {"stream"} /\ ~streaming
        /\ UNCHANGED rtpVars
    BY <1>7 DEF ReplyFails, SessionInv
  <2> QED
    BY <2>1 DEF SessionInv, rtpVars, Afterwards
<1>8. CASE NextUnit
  <2>1. Flush /\ UNCHANGED <<pc, reply>> /\ pc = "stream"
    BY <1>8 DEF NextUnit
  <2> QED
    BY <2>1 DEF SessionInv, Flush, RtpNext
<1>9. CASE VideoOut
  <2>1. SendVideo /\ UNCHANGED <<pc, reply>> /\ pc = "stream"
    BY <1>9 DEF VideoOut
  <2>2. UNCHANGED streaming
    BY <2>1 DEF SendVideo
  <2> QED
    BY <2>1, <2>2 DEF SessionInv, RtpNext
<1>10. CASE AudioOut
  <2>1. /\ \E e \in AudioEntries : \E h \in Frames(e) : SendAudio(h)
        /\ UNCHANGED <<pc, reply>> /\ pc = "stream"
    BY <1>10 DEF AudioOut
  <2>2. UNCHANGED streaming
    BY <2>1 DEF SendAudio
  <2> QED
    BY <2>1, <2>2 DEF SessionInv, RtpNext
<1>11. CASE StreamEnds
  <2>1. Stop /\ pc' = "close"
    BY <1>11 DEF StreamEnds
  <2> QED
    BY <2>1 DEF SessionInv, Stop, RtpNext
<1>12. CASE CloseClient
  <2>1. pc = "close" /\ pc' = "accept" /\ UNCHANGED rtpVars
    BY <1>12 DEF CloseClient
  <2> QED
    BY <2>1 DEF SessionInv, rtpVars
<1>13. CASE AcceptFails
  <2>1. pc = "accept" /\ pc' = "exit" /\ UNCHANGED rtpVars
    BY <1>13 DEF AcceptFails
  <2> QED
    BY <2>1 DEF SessionInv, rtpVars
<1>14. CASE UNCHANGED vars
  BY <1>14 DEF vars, SessionInv, rtpVars
<1> QED
  BY <1>1, <1>2, <1>3, <1>4, <1>5, <1>6, <1>7, <1>8, <1>9, <1>10, <1>11,
     <1>12, <1>13, <1>14 DEF Next, Server

-----------------------------------------------------------------------------
(* The theorems *)

(* Whatever clients ask, and in whatever state a connection is, a session  *)
(* begins, sends and ends as RtpSender does: tracks are renumbered only    *)
(* between streams, and a stream begins with the numbers that the answer   *)
(* to PLAY named some time before.                                         *)
THEOREM SessionSends == Spec => RtpSpec
<1>1. Init => RtpInit
  BY DEF Init
<1>2. Spec => []SessionInv
  BY SessionInitially, SessionStep, PTL DEF Spec
<1> QED
  BY <1>1, <1>2, SessionStep, PTL DEF Spec, RtpSpec

(* What has been sent of an access unit is what the receiver has of it, at *)
(* any time.                                                               *)
THEOREM ReceiverInStep == RtpSpec => []InStep
<1>1. RtpInv => InStep
  BY DEF RtpInv
<1> QED
  BY <1>1, RtpInitially, RtpStep, PTL DEF RtpSpec

(* No packet of a session is empty or longer than RTP_MAX_PAYLOAD, no      *)
(* fragment both the first and the last, and every audio packet states the *)
(* length of its frame: for access units and audio entries of any size.    *)
THEOREM SessionWellFormed == Spec => []WellFormed
<1>1. RtpSpec => []RtpInv
  BY RtpInitially, RtpStep, PTL DEF RtpSpec
<1> QED
  BY <1>1, SessionSends, InvariantIsWellFormed, PTL

(* The packets of a session make a channel of whole access units: what the *)
(* client puts together is what flush_current_au sent, once and in order,  *)
(* also when sequence numbers wrap in the middle.                          *)
THEOREM SessionDelivers == Spec => DeliversUnits
<1>1. RtpSpec => []RtpInv
  BY RtpInitially, RtpStep, PTL DEF RtpSpec
<1>2. RtpSpec => Channel!Init
  BY ChannelInit, PTL DEF RtpSpec
<1> QED
  BY <1>1, <1>2, ChannelStep, SessionSends, PTL
     DEF RtpSpec, DeliversUnits, Channel!Spec
-----------------------------------------------------------------------------
(* Types *)

RequestType == [method : Methods, main_ch : BOOLEAN, track : Tracks,
                transport : Transports, channel : 0 .. 255]
Piece == [req : RequestType, cseq : Nat, first : BOOLEAN]

Answers == [kind : {"answer"}, cseq : Nat, track : Tracks, channel : 0 .. 256]
Packets == [kind : {"packet"}, track : Tracks, channel : 0 .. 255]
Message == Answers \cup Packets

Idle == {"accept", "exit"}
AtWork == {"recv", "handle", "reply", "stream", "close"}
Told == [t \in Tracks |-> NoChannel]

ReplyType ==
  /\ reply.cseq \in Nat /\ reply.track \in Tracks /\ reply.channel \in 0 .. 256
  /\ reply.next \in {"recv", "stream", "close"}
  /\ reply.failed \in {"recv", "close"}

SessionType ==
  /\ conn \in [Clients -> {"away", "queued", "open", "left"}]
  /\ backlog \in Seq(Clients)
  /\ inbox \in [Clients -> Seq(Piece)] /\ outbox \in [Clients -> Seq(Message)]
  /\ asked \in [Clients -> Nat]
  /\ agreed \in [Clients -> [Tracks -> 0 .. 256]]
  /\ \/ pc \in Idle /\ client = NoClient
     \/ /\ pc \in AtWork /\ client \in Clients
        /\ conn[client] \in {"open", "left"}
  /\ buf \in Seq(Piece)
  /\ pc = "handle" => buf # <<>>
  /\ setup_done \in [Tracks -> BOOLEAN] /\ rtp_channel \in [Tracks -> 0 .. 255]
  /\ pc = "reply" => ReplyType

(* At the beginning nobody is connected.                                   *)
LEMMA TypeInitially == Init => SessionType
<1> SUFFICES ASSUME Init PROVE SessionType
  OBVIOUS
<1>1. Defaults \in [Tracks -> 0 .. 255]
  BY DEF Defaults
<1>2. NoChannel \in 0 .. 256
  BY DEF NoChannel
<1> QED
  BY <1>1, <1>2, EmptySeq DEF Init, SessionType, Idle

(* The world keeps the types and leaves the server alone. *)
LEMMA WorldType == ASSUME SessionType, World PROVE SessionType'
<1>1. PICK c \in Clients : Connect(c) \/ Ask(c) \/ Read(c) \/ Leave(c)
  BY DEF World
<1>2. CASE Connect(c)
  <2>1. backlog' \in Seq(Clients)
    BY <1>2, AppendProperties DEF Connect, SessionType
  <2>2. /\ conn' \in [Clients -> {"away", "queued", "open", "left"}]
        /\ client \in Clients /\ conn[client] \in {"open", "left"}
             => conn'[client] = conn[client]
    BY <1>2 DEF Connect, SessionType
  <2> QED
    BY <1>2, <2>1, <2>2
    DEF Connect, SessionType, sessionVars, clientVars, ReplyType
<1>3. CASE Ask(c)
  <2>1. PICK r \in Requests[c] :
          inbox' = [inbox EXCEPT ![c] =
                      inbox[c] \o <<[req |-> r, cseq |-> asked'[c], first |-> TRUE],
                          [req |-> r, cseq |-> asked'[c], first |-> FALSE]>>]
    BY <1>3 DEF Ask
  <2>2. asked' \in [Clients -> Nat] /\ asked'[c] \in Nat
    BY <1>3 DEF Ask, SessionType
  <2>3. r \in RequestType
    BY SessionAssumption DEF RequestType
  <2>4. <<[req |-> r, cseq |-> asked'[c], first |-> TRUE],
          [req |-> r, cseq |-> asked'[c], first |-> FALSE]>> \in Seq(Piece)
    BY <2>2, <2>3 DEF Piece
  <2>5. inbox' \in [Clients -> Seq(Piece)]
    BY <2>1, <2>4, ConcatProperties DEF SessionType
  <2> QED
    BY <1>3, <2>2, <2>5 DEF Ask, SessionType, sessionVars, ReplyType
<1>4. CASE Read(c)
  <2>1. /\ outbox[c] \in Seq(Message) /\ outbox[c] # <<>>
        /\ Head(outbox[c]) \in Message /\ Tail(outbox[c]) \in Seq(Message)
    BY <1>4, HeadTailProperties DEF Read, SessionType
  <2>2. outbox' \in [Clients -> Seq(Message)]
    BY <1>4, <2>1 DEF Read, SessionType
  <2>3. /\ Head(outbox[c]).channel \in 0 .. 256
        /\ Head(outbox[c]).track \in Tracks
    BY <2>1 DEF Message, Answers, Packets
  <2>4. agreed' \in [Clients -> [Tracks -> 0 .. 256]]
    <3> DEFINE m == Head(outbox[c])
    <3>1. agreed' = agreed
          \/ agreed' = [agreed EXCEPT ![c] =
                          [agreed[c] EXCEPT ![m.track] = m.channel]]
      BY <1>4 DEF Read
    <3>2. agreed[c] \in [Tracks -> 0 .. 256]
      BY DEF SessionType
    <3> HIDE DEF m
    <3>3. m.channel \in 0 .. 256 /\ m.track \in Tracks
      BY <2>3 DEF m
    <3>4. [agreed[c] EXCEPT ![m.track] = m.channel] \in [Tracks -> 0 .. 256]
      BY <3>2, <3>3
    <3>5. agreed \in [Clients -> [Tracks -> 0 .. 256]]
      BY DEF SessionType
    <3>6. ASSUME NEW a \in [Tracks -> 0 .. 256]
          PROVE  [agreed EXCEPT ![c] = a] \in [Clients -> [Tracks -> 0 .. 256]]
      BY <3>5
    <3> QED
      BY <3>1, <3>4, <3>5, <3>6
  <2> QED
    BY <1>4, <2>2, <2>4 DEF Read, SessionType, sessionVars, ReplyType
<1>5. CASE Leave(c)
  <2>1. NoChannel \in 0 .. 256
    BY DEF NoChannel
  <2>2. /\ outbox' \in [Clients -> Seq(Message)] /\ asked' \in [Clients -> Nat]
        /\ agreed' \in [Clients -> [Tracks -> 0 .. 256]]
    BY <1>5, <2>1, EmptySeq DEF Leave, Forget, SessionType
  <2>3. /\ conn' \in [Clients -> {"away", "queued", "open", "left"}]
        /\ client \in Clients /\ conn[client] \in {"open", "left"}
             => conn'[client] \in {"open", "left"}
    BY <1>5 DEF Leave, SessionType
  <2> QED
    BY <1>5, <2>2, <2>3 DEF Leave, SessionType, sessionVars, ReplyType
<1> QED
  BY <1>1, <1>2, <1>3, <1>4, <1>5

(* The channel of a SETUP request fits into a byte.                        *)
LEMMA ChannelForType ==
  ASSUME NEW r \in RequestType
  PROVE  ChannelFor(r) \in 0 .. 255
  BY DEF ChannelFor, RequestType, Defaults, Tracks

(* What a handler leaves behind: an answer of the right form, or nothing.  *)
LEMMA HandleType == ASSUME SessionType, Handle PROVE SessionType'
<1>1. /\ pc = "handle" /\ UNCHANGED <<connVars, clientVars, client>>
      /\ buf # <<>> /\ buf[1] \in Piece /\ client \in Clients
      /\ conn[client] \in {"open", "left"}
  <2>1. pc = "handle" /\ UNCHANGED <<connVars, clientVars, client>>
    BY DEF Handle, Junk, Garbled, NotFound, Describe, Unsupported, NoAudio,
           Setup, Play, Teardown, NotImplemented, Handles, KeepSession,
           sessionVars
  <2>2. buf \in Seq(Piece) /\ buf # <<>>
    BY <2>1 DEF SessionType
  <2>3. buf[1] \in Piece
    BY <2>2, HeadTailProperties
  <2> QED
    BY <2>1, <2>2, <2>3 DEF SessionType, Idle
<1>2. Request \in RequestType /\ buf[1].cseq \in Nat /\ Request.track \in Tracks
  BY <1>1 DEF Piece, Request, RequestType
<1>3. buf' = <<>> /\ <<>> \in Seq(Piece)
  BY DEF Handle, Junk, Garbled, NotFound, Describe, Unsupported, NoAudio, Setup,
         Play, Teardown, NotImplemented, Reply, Drop, ClearedBuffer
<1>4. /\ setup_done' \in [Tracks -> BOOLEAN]
      /\ rtp_channel' \in [Tracks -> 0 .. 255]
  <2>1. CASE Setup
    BY <1>2, <2>1, ChannelForType DEF Setup, SessionType
  <2>2. CASE Play
    BY <2>2 DEF Play, SessionType
  <2>3. CASE ~Setup /\ ~Play
    BY <2>3 DEF Handle, Junk, Garbled, NotFound, Describe, Unsupported, NoAudio,
         Teardown, NotImplemented, KeepSession, sessionVars, SessionType
  <2> QED
    BY <2>1, <2>2, <2>3
<1>5. pc' = "close" \/ (pc' = "reply" /\ ReplyType')
  <2>1. ASSUME NEW code, NEW next \in {"recv", "stream", "close"},
               NEW failed \in {"recv", "close"}, Reply(code, next, failed)
        PROVE  pc' = "reply" /\ ReplyType'
    BY <1>2, <2>1 DEF Reply, ReplyType, NoChannel
  <2>2. CASE Setup
    BY <1>2, <2>2, ChannelForType DEF Setup, ReplyType
  <2>3. CASE Junk
    BY <2>3 DEF Junk, Drop
  <2>4. CASE Garbled
    BY <2>1, <2>4 DEF Garbled, Drop
  <2>5. CASE NotFound
    BY <2>1, <2>5 DEF NotFound
  <2>6. CASE Describe
    BY <2>1, <2>6 DEF Describe
  <2>7. CASE Unsupported
    BY <2>1, <2>7 DEF Unsupported
  <2>8. CASE NoAudio
    BY <2>1, <2>8 DEF NoAudio
  <2>9. CASE Play
    BY <2>1, <2>9 DEF Play
  <2>10. CASE Teardown
    BY <2>1, <2>10 DEF Teardown
  <2>11. CASE NotImplemented
    BY <2>1, <2>11 DEF NotImplemented
  <2> QED
    BY <2>2, <2>3, <2>4, <2>5, <2>6, <2>7, <2>8, <2>9, <2>10, <2>11 DEF Handle
<1> QED
  BY <1>1, <1>3, <1>4, <1>5
     DEF SessionType, connVars, clientVars, AtWork, Idle

(* The other steps of the server. *)
LEMMA ServerType ==
  ASSUME SessionType, Server, ~Handle
  PROVE  SessionType'
<1>1. CASE Accept
  <2>1. backlog \in Seq(Clients) /\ backlog # <<>> /\ pc = "accept" /\ pc' = "recv"
    BY <1>1 DEF Accept, SessionType
  <2>2. client' \in Clients /\ backlog' \in Seq(Clients)
    BY <1>1, <2>1, HeadTailProperties DEF Accept
  <2>3. /\ conn' \in [Clients -> {"away", "queued", "open", "left"}]
        /\ conn'[client'] \in {"open", "left"}
    BY <1>1, <2>2 DEF Accept, SessionType
  <2>4. /\ setup_done' \in [Tracks -> BOOLEAN]
        /\ rtp_channel' \in [Tracks -> 0 .. 255]
    BY <1>1 DEF Accept, NothingSetUp, Defaults
  <2> QED
    BY <1>1, <2>1, <2>2, <2>3, <2>4 DEF Accept, SessionType, clientVars, AtWork
<1>2. CASE RecvSome
  <2>1. pc = "recv" /\ client \in Clients /\ conn[client] \in {"open", "left"}
    BY <1>2 DEF RecvSome, SessionType, Idle
  <2>2. PICK k \in 1 .. Len(inbox[client]) :
          /\ buf' = buf \o SubSeq(inbox[client], 1, k)
          /\ inbox' = [inbox EXCEPT ![client] =
                         SubSeq(inbox[client], k + 1, Len(inbox[client]))]
    BY <1>2 DEF RecvSome
  <2>3. inbox[client] \in Seq(Piece) /\ buf \in Seq(Piece)
    BY <2>1 DEF SessionType
  <2>4. \A i \in 1 .. Len(inbox[client]) : inbox[client][i] \in Piece
    BY <2>3, ElementOfSeq
  <2>5. Len(inbox[client]) \in Nat
    BY <2>3, LenProperties
  <2>6. /\ SubSeq(inbox[client], 1, k) \in Seq(Piece)
        /\ SubSeq(inbox[client], k + 1, Len(inbox[client])) \in Seq(Piece)
    BY <2>4, <2>5, SubSeqProperties
  <2>7. buf' \in Seq(Piece) /\ inbox' \in [Clients -> Seq(Piece)]
    BY <2>2, <2>3, <2>6, ConcatProperties DEF SessionType
  <2>8. /\ pc' \in {"handle", "recv"}
        /\ pc' = "handle" => HasEmptyLine(buf')
    BY <1>2 DEF RecvSome
  <2>9. pc' = "handle" => buf' # <<>>
    BY <2>8, EmptySeq DEF HasEmptyLine
  <2> QED
    BY <1>2, <2>1, <2>7, <2>8, <2>9
       DEF RecvSome, SessionType, clientVars, sessionVars, AtWork
<1>3. CASE RecvEnds
  <2>1. pc = "recv" /\ pc' = "close"
        /\ UNCHANGED <<connVars, clientVars, sessionVars, buf>>
    BY <1>3 DEF RecvEnds
  <2> QED
    BY <2>1 DEF SessionType, connVars, clientVars, sessionVars, AtWork, Idle
<1>4. CASE SendReply
  <2>1. pc = "reply" /\ ReplyType /\ client \in Clients /\ pc' = reply.next
        /\ conn[client] \in {"open", "left"}
        /\ UNCHANGED <<conn, backlog, inbox, clientVars, sessionVars, buf>>
    BY <1>4 DEF SendReply, SessionType, Idle
  <2>2. [kind |-> "answer", cseq |-> reply.cseq, track |-> reply.track,
         channel |-> reply.channel] \in Message
    BY <2>1 DEF ReplyType, Message, Answers
  <2>3. outbox' \in [Clients -> Seq(Message)]
    BY <1>4, <2>1, <2>2, AppendProperties DEF SendReply, Post, SessionType
  <2>4. pc' \in AtWork /\ pc' # "handle" /\ pc' # "reply"
    BY <2>1 DEF ReplyType, AtWork
  <2> QED
    BY <2>1, <2>3, <2>4 DEF SessionType, clientVars, sessionVars
<1>5. CASE ReplyFails
  <2>1. pc = "reply" /\ ReplyType /\ pc' = reply.failed
        /\ UNCHANGED <<connVars, clientVars, sessionVars, buf>>
    BY <1>5 DEF ReplyFails, SessionType
  <2>2. pc' \in AtWork /\ pc' # "handle" /\ pc' # "reply"
    BY <2>1 DEF ReplyType, AtWork
  <2> QED
    BY <2>1, <2>2 DEF SessionType, connVars, clientVars, sessionVars, Idle
<1>6. CASE NextUnit \/ VideoOut \/ AudioOut
  <2>1. pc = "stream" /\ pc' = "stream" /\ client \in Clients
        /\ UNCHANGED <<conn, backlog, inbox, clientVars, sessionVars, buf>>
    BY <1>6 DEF NextUnit, VideoOut, AudioOut, SessionType, Idle, connVars
  <2>2. ASSUME NEW p, p.track \in Tracks, PostPacket(p)
        PROVE  outbox' \in [Clients -> Seq(Message)]
    <3>1. [kind |-> "packet", track |-> p.track,
           channel |-> rtp_channel[p.track]] \in Message
      BY <2>2 DEF SessionType, Message, Packets
    <3> QED
      BY <2>1, <2>2, <3>1, AppendProperties DEF PostPacket, Post, SessionType
  <2>3. ASSUME NextUnit PROVE outbox' \in [Clients -> Seq(Message)]
    BY <2>1, <2>3 DEF NextUnit, connVars, SessionType
  <2>4. ASSUME VideoOut PROVE outbox' \in [Clients -> Seq(Message)]
    <3>1. VideoPacket.track \in Tracks
      BY DEF VideoPacket, Tracks
    <3> QED
      BY <2>2, <2>4, <3>1 DEF VideoOut
  <2>5. ASSUME AudioOut PROVE outbox' \in [Clients -> Seq(Message)]
    <3>1. PICK h : PostPacket(AudioPacket(h))
      BY <2>5 DEF AudioOut
    <3>2. AudioPacket(h).track \in Tracks
      BY DEF AudioPacket, Tracks
    <3> QED
      BY <2>2, <3>1, <3>2
  <2>6. outbox' \in [Clients -> Seq(Message)]
    BY <1>6, <2>3, <2>4, <2>5 DEF SessionType
  <2> QED
    BY <2>1, <2>6 DEF SessionType, clientVars, sessionVars
<1>7. CASE StreamEnds
  <2>1. pc = "stream" /\ pc' = "close"
        /\ UNCHANGED <<connVars, clientVars, sessionVars, buf>>
    BY <1>7 DEF StreamEnds
  <2> QED
    BY <2>1 DEF SessionType, connVars, clientVars, sessionVars, AtWork, Idle
<1>8. CASE CloseClient
  <2>1. client \in Clients /\ pc' = "accept" /\ client' = NoClient
    BY <1>8 DEF CloseClient, SessionType, Idle
  <2>2. NoChannel \in 0 .. 256
    BY DEF NoChannel
  <2>3. /\ outbox' \in [Clients -> Seq(Message)]
        /\ asked' \in [Clients -> Nat]
        /\ agreed' \in [Clients -> [Tracks -> 0 .. 256]]
    BY <1>8, <2>2, EmptySeq DEF CloseClient, Forget, SessionType
  <2>4. /\ conn' \in [Clients -> {"away", "queued", "open", "left"}]
        /\ inbox' \in [Clients -> Seq(Piece)] /\ buf' \in Seq(Piece)
    BY <1>8, EmptySeq DEF CloseClient, SessionType
  <2> QED
    BY <1>8, <2>1, <2>3, <2>4 DEF CloseClient, SessionType, Idle
<1> QED
  BY <1>1, <1>2, <1>3, <1>4, <1>5, <1>6, <1>7, <1>8 DEF Server

(* SessionType is inductive.                                               *)
LEMMA TypeStep == SessionType /\ [Next]_vars => SessionType'
<1> SUFFICES ASSUME SessionType, [Next]_vars PROVE SessionType'
  OBVIOUS
<1>1. CASE World
  BY <1>1, WorldType
<1>2. CASE Server
  BY <1>2, HandleType, ServerType
<1>3. CASE AcceptFails
  BY <1>3 DEF AcceptFails, SessionType, connVars, clientVars, sessionVars, Idle,
              AtWork
<1>4. CASE UNCHANGED vars
  BY <1>4 DEF vars, SessionType, connVars, clientVars, sessionVars, ReplyType
<1> QED
  BY <1>1, <1>2, <1>3, <1>4 DEF Next

-----------------------------------------------------------------------------
(* What a client will know when it has read what is in its connection *)

Tells(m, t) == m.kind = "answer" /\ m.track = t /\ m.channel # NoChannel

(* The channel of a track that is used is known, or was never agreed on,   *)
(* which is possible for video only.                                       *)
Known(channel, used, audio, t) ==
  \/ channel = used[t]
  \/ /\ channel = NoChannel
     /\ t = "video" => used[t] = Defaults[t]
     /\ t = "audio" => ~audio

(* The last answer in q about t tells the channel that is used; or there   *)
(* is none, and it is known.                                               *)
WillKnow(q, channel, used, audio, t) ==
  \/ \E i \in 1 .. Len(q) :
       /\ Tells(q[i], t) /\ q[i].channel = used[t]
       /\ \A j \in 1 .. Len(q) : Tells(q[j], t) => j <= i
  \/ /\ \A j \in 1 .. Len(q) : ~Tells(q[j], t)
     /\ Known(channel, used, audio, t)

(* Answers come before packets, and packets are on the channels in use.    *)
InOrder(q, used, audio) ==
  \A i \in 1 .. Len(q) : q[i].kind = "packet" =>
    /\ q[i].channel = used[q[i].track]
    /\ q[i].track = "audio" => audio
    /\ \A j \in i .. Len(q) : q[j].kind = "packet"

NoPacket(q) == \A i \in 1 .. Len(q) : q[i].kind # "packet"

(* The answer to a SETUP of t is still to be sent. *)
Pending(t) == pc = "reply" /\ reply.channel # NoChannel /\ reply.track = t

(* What the client of main() is going to know of track t. *)
Informed(t) ==
  WillKnow(outbox[client], agreed[client][t], rtp_channel,
           setup_done["audio"], t)

Talking == AtWork \ {"stream", "close"}

AgreeInv ==
  /\ \A c \in Clients : c # client \/ conn[c] # "open" =>
       outbox[c] = <<>> /\ agreed[c] = Told
  /\ client \in Clients =>
       InOrder(outbox[client], rtp_channel, setup_done["audio"])
  /\ pc \in Talking => NoPacket(outbox[client])
  /\ client \in Clients /\ conn[client] = "open" =>
       \A t \in Tracks : Pending(t) \/ Informed(t)
  /\ \A t \in Tracks : Pending(t) =>
       reply.channel = rtp_channel[t] /\ reply.next = "recv"

-----------------------------------------------------------------------------
(* Reading and writing *)

(* Reading the first message leaves the order of the rest.                 *)
LEMMA ReadFirst ==
  ASSUME NEW used, NEW audio,
         NEW q \in Seq(Message), q # <<>>, InOrder(q, used, audio)
  PROVE  InOrder(Tail(q), used, audio)
<1>1. /\ Tail(q) \in Seq(Message) /\ Len(q) \in Nat /\ Len(Tail(q)) = Len(q) - 1
      /\ \A i \in 1 .. Len(Tail(q)) : Tail(q)[i] = q[i + 1]
  BY HeadTailProperties, LenProperties
<1> SUFFICES ASSUME NEW i \in 1 .. Len(Tail(q)), Tail(q)[i].kind = "packet"
             PROVE  /\ Tail(q)[i].channel = used[Tail(q)[i].track]
                    /\ Tail(q)[i].track = "audio" => audio
                    /\ \A j \in i .. Len(Tail(q)) : Tail(q)[j].kind = "packet"
  BY DEF InOrder
<1>2. i + 1 \in 1 .. Len(q) /\ Tail(q)[i] = q[i + 1]
  BY <1>1
<1>3. ASSUME NEW j \in i .. Len(Tail(q)) PROVE Tail(q)[j].kind = "packet"
  <2>1. j + 1 \in (i + 1) .. Len(q) /\ Tail(q)[j] = q[j + 1]
    BY <1>1
  <2> QED
    BY <1>2, <2>1 DEF InOrder
<1> QED
  BY <1>2, <1>3 DEF InOrder

(* An answer read is known; what follows it counts for more. *)
LEMMA ReadTells ==
  ASSUME NEW used, NEW audio,
         NEW q \in Seq(Message), q # <<>>, NEW t \in Tracks,
         NEW channel, NEW after, WillKnow(q, channel, used, audio, t),
         after = IF Tells(Head(q), t) THEN Head(q).channel ELSE channel
  PROVE  WillKnow(Tail(q), after, used, audio, t)
<1>1. /\ Tail(q) \in Seq(Message) /\ Len(q) \in Nat /\ Len(Tail(q)) = Len(q) - 1
      /\ \A i \in 1 .. Len(Tail(q)) : Tail(q)[i] = q[i + 1]
      /\ Head(q) = q[1] /\ 1 \in 1 .. Len(q)
  BY HeadTailProperties, LenProperties
<1>2. ASSUME NEW j \in 1 .. Len(Tail(q))
      PROVE  j + 1 \in 1 .. Len(q) /\ Tail(q)[j] = q[j + 1]
  BY <1>1
<1>3. CASE \A j \in 1 .. Len(q) : ~Tells(q[j], t)
  <2>1. Known(channel, used, audio, t)
    BY <1>3 DEF WillKnow
  <2>2. \A j \in 1 .. Len(Tail(q)) : ~Tells(Tail(q)[j], t)
    BY <1>2, <1>3
  <2>3. after = channel
    BY <1>1, <1>3
  <2> QED
    BY <2>1, <2>2, <2>3 DEF WillKnow
<1>4. CASE \E j \in 1 .. Len(q) : Tells(q[j], t)
  <2>1. PICK i \in 1 .. Len(q) :
          /\ Tells(q[i], t) /\ q[i].channel = used[t]
          /\ \A j \in 1 .. Len(q) : Tells(q[j], t) => j <= i
    BY <1>4 DEF WillKnow
  <2>2. CASE i = 1
    <3>1. after = used[t]
      BY <1>1, <2>1, <2>2
    <3>2. ASSUME NEW j \in 1 .. Len(Tail(q)) PROVE ~Tells(Tail(q)[j], t)
      BY <1>1, <1>2, <2>1, <2>2
    <3> QED
      BY <3>1, <3>2 DEF WillKnow, Known
  <2>3. CASE i # 1
    <3>1. i - 1 \in 1 .. Len(Tail(q)) /\ Tail(q)[i - 1] = q[i]
      BY <1>1, <2>3
    <3>2. ASSUME NEW j \in 1 .. Len(Tail(q)), Tells(Tail(q)[j], t)
          PROVE  j <= i - 1
      <4>1. Tells(q[j + 1], t) /\ j + 1 \in 1 .. Len(q)
        BY <1>2, <3>2
      <4>2. j + 1 <= i
        BY <2>1, <4>1
      <4> QED
        BY <4>2
    <3> QED
      BY <2>1, <3>1, <3>2 DEF WillKnow
  <2> QED
    BY <2>2, <2>3
<1> QED
  BY <1>3, <1>4

(* A message about something else changes nothing of what will be known. *)
LEMMA PostOther ==
  ASSUME NEW used, NEW audio,
         NEW q \in Seq(Message), NEW m \in Message, NEW t \in Tracks,
         NEW channel, ~Tells(m, t), WillKnow(q, channel, used, audio, t)
  PROVE  WillKnow(Append(q, m), channel, used, audio, t)
<1>1. /\ Len(q) \in Nat /\ Len(Append(q, m)) = Len(q) + 1
      /\ \A i \in 1 .. Len(q) : Append(q, m)[i] = q[i]
      /\ Append(q, m)[Len(q) + 1] = m
  BY AppendProperties, LenProperties
<1>2. ASSUME NEW j \in 1 .. Len(Append(q, m)), Tells(Append(q, m)[j], t)
      PROVE  j \in 1 .. Len(q) /\ Append(q, m)[j] = q[j]
  <2>1. j # Len(q) + 1
    BY <1>1, <1>2
  <2> QED
    BY <1>1, <2>1
<1>3. CASE \A j \in 1 .. Len(q) : ~Tells(q[j], t)
  <2>1. \A j \in 1 .. Len(Append(q, m)) : ~Tells(Append(q, m)[j], t)
    BY <1>2, <1>3
  <2>2. Known(channel, used, audio, t)
    BY <1>3 DEF WillKnow
  <2> QED
    BY <2>1, <2>2 DEF WillKnow
<1>4. CASE \E j \in 1 .. Len(q) : Tells(q[j], t)
  <2>1. PICK i \in 1 .. Len(q) :
          /\ Tells(q[i], t) /\ q[i].channel = used[t]
          /\ \A j \in 1 .. Len(q) : Tells(q[j], t) => j <= i
    BY <1>4 DEF WillKnow
  <2>2. i \in 1 .. Len(Append(q, m)) /\ Append(q, m)[i] = q[i]
    BY <1>1
  <2>3. \A j \in 1 .. Len(Append(q, m)) : Tells(Append(q, m)[j], t) => j <= i
    BY <1>2, <2>1
  <2> QED
    BY <2>1, <2>2, <2>3 DEF WillKnow
<1> QED
  BY <1>3, <1>4

(* The answer to a SETUP is the last word on its track. *)
LEMMA PostTold ==
  ASSUME NEW used, NEW audio,
         NEW q \in Seq(Message), NEW m \in Message, NEW t \in Tracks,
         NEW channel, Tells(m, t), m.channel = used[t]
  PROVE  WillKnow(Append(q, m), channel, used, audio, t)
<1>1. /\ Len(q) \in Nat /\ Len(Append(q, m)) = Len(q) + 1
      /\ Append(q, m)[Len(q) + 1] = m
  BY AppendProperties, LenProperties
<1>2. Len(q) + 1 \in 1 .. Len(Append(q, m))
  BY <1>1
<1>3. \A j \in 1 .. Len(Append(q, m)) : j <= Len(q) + 1
  BY <1>1
<1> QED
  BY <1>1, <1>2, <1>3 DEF WillKnow

(* Behind answers only, an answer is in order.                             *)
LEMMA PostAnswer ==
  ASSUME NEW used, NEW audio,
         NEW q \in Seq(Message), NEW m \in Message, NoPacket(q),
         m.kind = "answer"
  PROVE  NoPacket(Append(q, m)) /\ InOrder(Append(q, m), used, audio)
<1>1. /\ Len(q) \in Nat /\ Len(Append(q, m)) = Len(q) + 1
      /\ \A i \in 1 .. Len(q) : Append(q, m)[i] = q[i]
      /\ Append(q, m)[Len(q) + 1] = m
  BY AppendProperties, LenProperties
<1>2. ASSUME NEW i \in 1 .. Len(Append(q, m))
      PROVE  Append(q, m)[i].kind # "packet"
  <2>1. CASE i = Len(q) + 1
    BY <1>1, <2>1
  <2>2. CASE i # Len(q) + 1
    <3>1. i \in 1 .. Len(q)
      BY <1>1, <2>2
    <3> QED
      BY <1>1, <3>1 DEF NoPacket
  <2> QED
    BY <2>1, <2>2
<1> QED
  BY <1>2 DEF NoPacket, InOrder

(* A packet may stand behind all that is unread.                           *)
LEMMA PostPacketInOrder ==
  ASSUME NEW used, NEW audio,
         NEW q \in Seq(Message), NEW m \in Message, InOrder(q, used, audio),
         m.kind = "packet", m.channel = used[m.track],
         m.track = "audio" => audio
  PROVE  InOrder(Append(q, m), used, audio)
<1>1. /\ Len(q) \in Nat /\ Len(Append(q, m)) = Len(q) + 1
      /\ \A i \in 1 .. Len(q) : Append(q, m)[i] = q[i]
      /\ Append(q, m)[Len(q) + 1] = m
  BY AppendProperties, LenProperties
<1> DEFINE r == Append(q, m)
<1> SUFFICES ASSUME NEW i \in 1 .. Len(r), r[i].kind = "packet"
             PROVE  /\ r[i].channel = used[r[i].track]
                    /\ r[i].track = "audio" => audio
                    /\ \A j \in i .. Len(r) : r[j].kind = "packet"
  BY DEF InOrder
<1> HIDE DEF r
<1>2. CASE i = Len(q) + 1
  <2>1. r[i] = m /\ \A j \in i .. Len(r) : j = i
    BY <1>1, <1>2 DEF r
  <2> QED
    BY <2>1
<1>3. CASE i # Len(q) + 1
  <2>1. i \in 1 .. Len(q) /\ r[i] = q[i]
    BY <1>1, <1>3 DEF r
  <2>2. ASSUME NEW j \in i .. Len(r) PROVE r[j].kind = "packet"
    <3>1. CASE j = Len(q) + 1
      BY <1>1, <3>1 DEF r
    <3>2. CASE j # Len(q) + 1
      <4>1. j \in i .. Len(q) /\ j \in 1 .. Len(q) /\ r[j] = q[j]
        BY <1>1, <2>1, <3>2 DEF r
      <4> QED
        BY <2>1, <4>1 DEF InOrder
    <3> QED
      BY <3>1, <3>2
  <2> QED
    BY <2>1, <2>2 DEF InOrder
<1> QED
  BY <1>2, <1>3

(* In an empty connection the channels are the default ones.               *)
LEMMA NothingSaid ==
  ASSUME NEW used, NEW audio
  PROVE  /\ NoPacket(<<>>) /\ InOrder(<<>>, used, audio)
         /\ \A t : used = Defaults /\ ~audio =>
              WillKnow(<<>>, NoChannel, used, audio, t)
<1>1. \A i \in 1 .. Len(<<>>) : FALSE
  BY EmptySeq
<1> QED
  BY <1>1 DEF NoPacket, InOrder, WillKnow, Known

-----------------------------------------------------------------------------
(* The clients *)

(* At the beginning no channel is agreed.                                  *)
LEMMA AgreeInitially == Init => AgreeInv
<1> SUFFICES ASSUME Init PROVE AgreeInv
  OBVIOUS
<1>1. client \notin Clients /\ pc = "accept"
  BY SessionAssumption DEF Init
<1>2. \A c \in Clients : outbox[c] = <<>> /\ agreed[c] = Told
  BY DEF Init, Told
<1> QED
  BY <1>1, <1>2 DEF AgreeInv, Talking, AtWork, Pending

(* A step that tells nobody anything and changes no channel. *)
LEMMA Unheard ==
  ASSUME SessionType, AgreeInv,
         UNCHANGED <<outbox, agreed, client, rtp_channel>>,
         setup_done'["audio"] = setup_done["audio"],
         \A c \in Clients : conn'[c] = "open" => conn[c] = "open",
         \A c \in Clients : conn[c] = "open" => conn'[c] = "open",
         pc' \in Talking => pc \in Talking,
         \A t \in Tracks : Pending(t)' => Pending(t) /\ UNCHANGED reply,
         \A t \in Tracks : Pending(t) => Pending(t)' \/ conn[client] # "open"
  PROVE  AgreeInv'
<1>1. \A c \in Clients : c # client' \/ conn'[c] # "open" =>
        outbox'[c] = <<>> /\ agreed'[c] = Told
  BY DEF AgreeInv
<1>2. client' \in Clients =>
        InOrder(outbox'[client'], rtp_channel', setup_done'["audio"])
  BY DEF AgreeInv
<1>3. pc' \in Talking => NoPacket(outbox'[client'])
  BY DEF AgreeInv
<1>4. ASSUME client' \in Clients, conn'[client'] = "open", NEW t \in Tracks
      PROVE  Pending(t)' \/ Informed(t)'
  <2>1. client \in Clients /\ conn[client] = "open"
    BY <1>4
  <2>2. Pending(t) \/ Informed(t)
    BY <2>1 DEF AgreeInv
  <2>3. Informed(t)' = Informed(t)
    BY DEF Informed
  <2> QED
    BY <2>1, <2>2, <2>3
<1>5. \A t \in Tracks : Pending(t)' =>
        reply'.channel = rtp_channel'[t] /\ reply'.next = "recv"
  BY DEF AgreeInv
<1> QED
  BY <1>1, <1>2, <1>3, <1>4, <1>5 DEF AgreeInv

(* What clients and anyka_ipc do keeps the agreement.                      *)
LEMMA WorldAgrees == ASSUME SessionType, AgreeInv, World PROVE AgreeInv'
<1>1. PICK c \in Clients : Connect(c) \/ Ask(c) \/ Read(c) \/ Leave(c)
  BY DEF World
<1>2. /\ UNCHANGED <<client, rtp_channel, setup_done, pc, reply>>
      /\ \A t \in Tracks : Pending(t)' <=> Pending(t)
  BY <1>1 DEF Connect, Ask, Read, Leave, sessionVars, Pending
<1>3. CASE Connect(c)
  <2>1. /\ UNCHANGED <<outbox, agreed>> /\ conn[c] = "away"
        /\ conn' = [conn EXCEPT ![c] = "queued"]
    BY <1>3 DEF Connect, clientVars
  <2>2. \A d \in Clients : conn'[d] = "open" <=> conn[d] = "open"
    BY <2>1 DEF SessionType
  <2> QED
    BY <1>2, <2>1, <2>2, Unheard
<1>4. CASE Ask(c)
  <2>1. UNCHANGED <<outbox, agreed, conn>>
    BY <1>4 DEF Ask
  <2> QED
    BY <1>2, <2>1, Unheard
<1>5. CASE Read(c)
  <2>1. /\ conn[c] = "open" /\ outbox[c] # <<>> /\ UNCHANGED conn
        /\ outbox' = [outbox EXCEPT ![c] = Tail(outbox[c])]
    BY <1>5 DEF Read
  <2>2. c = client
    BY <2>1 DEF AgreeInv
  <2> DEFINE q == outbox[c]
             m == Head(outbox[c])
  <2>3. /\ q \in Seq(Message) /\ q # <<>> /\ m \in Message
        /\ outbox'[c] = Tail(q)
        /\ \A d \in Clients : d # c => outbox'[d] = outbox[d]
    BY <2>1, HeadTailProperties DEF SessionType
  <2>4. /\ \A d \in Clients : d # c => agreed'[d] = agreed[d]
        /\ \A t \in Tracks : agreed'[c][t] =
             IF Tells(m, t) THEN m.channel ELSE agreed[c][t]
    <3>1. m.track \in Tracks
      BY <2>3 DEF Message, Answers, Packets
    <3>2. agreed \in [Clients -> [Tracks -> 0 .. 256]]
      BY DEF SessionType
    <3>3. CASE m.kind = "answer" /\ m.channel # NoChannel
      <4>1. agreed' = [agreed EXCEPT ![c] =
                         [agreed[c] EXCEPT ![m.track] = m.channel]]
        BY <1>5, <3>3 DEF Read
      <4>2. agreed'[c] = [agreed[c] EXCEPT ![m.track] = m.channel]
        BY <3>2, <4>1
      <4>3. agreed[c] \in [Tracks -> 0 .. 256]
        BY <3>2
      <4> QED
        BY <3>1, <3>2, <3>3, <4>1, <4>2, <4>3 DEF Tells
    <3>4. CASE ~(m.kind = "answer" /\ m.channel # NoChannel)
      <4>1. agreed' = agreed
        BY <1>5, <3>4 DEF Read
      <4> QED
        BY <3>4, <4>1 DEF Tells
    <3> QED
      BY <3>3, <3>4
  <2>5. InOrder(Tail(q), rtp_channel, setup_done["audio"])
    BY <2>2, <2>3, ReadFirst DEF AgreeInv
  <2>6. ASSUME NEW t \in Tracks, Informed(t)
        PROVE  WillKnow(Tail(q), agreed'[c][t], rtp_channel,
                        setup_done["audio"], t)
    <3>1. WillKnow(q, agreed[c][t], rtp_channel, setup_done["audio"], t)
      BY <2>2, <2>6 DEF Informed
    <3> HIDE DEF q, m
    <3> QED
      BY <2>3, <2>4, <3>1, ReadTells DEF q, m
  <2>7. NoPacket(q) => NoPacket(Tail(q))
    <3>1. /\ Len(q) \in Nat /\ Len(Tail(q)) = Len(q) - 1
          /\ \A i \in 1 .. Len(Tail(q)) : Tail(q)[i] = q[i + 1]
      BY <2>3, HeadTailProperties, LenProperties
    <3> HIDE DEF q
    <3>2. \A i \in 1 .. Len(Tail(q)) : i + 1 \in 1 .. Len(q)
      BY <3>1
    <3> QED
      BY <3>1, <3>2 DEF NoPacket
  <2>8. \A t \in Tracks : Informed(t) => Informed(t)'
    BY <1>2, <2>2, <2>3, <2>6 DEF Informed
  <2> HIDE DEF q, m
  <2> QED
    BY <1>2, <2>1, <2>2, <2>3, <2>4, <2>5, <2>7, <2>8 DEF AgreeInv, q
<1>6. CASE Leave(c)
  <2>1. /\ outbox' = [outbox EXCEPT ![c] = <<>>]
        /\ agreed' = [agreed EXCEPT ![c] = Told]
        /\ conn' = [conn EXCEPT ![c] = "left"]
    BY <1>6 DEF Leave, Forget, Told
  <2>2. /\ outbox'[c] = <<>> /\ agreed'[c] = Told /\ conn'[c] = "left"
        /\ \A d \in Clients : d # c =>
             /\ outbox'[d] = outbox[d] /\ agreed'[d] = agreed[d]
             /\ conn'[d] = conn[d]
    BY <2>1 DEF SessionType
  <2>3. CASE c = client
    BY <1>2, <2>2, <2>3, NothingSaid DEF AgreeInv
  <2>4. CASE c # client
    <3>1. client \in Clients => \A t \in Tracks : Informed(t)' = Informed(t)
      BY <1>2, <2>2, <2>4 DEF Informed
    <3>2. pc \in Talking => client \in Clients
      BY DEF SessionType, Talking, AtWork, Idle
    <3> QED
      BY <1>2, <2>2, <2>4, <3>1, <3>2 DEF AgreeInv
  <2> QED
    BY <2>3, <2>4
<1> QED
  BY <1>1, <1>3, <1>4, <1>5, <1>6

-----------------------------------------------------------------------------
(* The server *)

(* A client that is accepted has been told nothing, and the channels are   *)
(* the ones it would guess.                                                *)
LEMMA AcceptAgrees == ASSUME SessionType, AgreeInv, Accept PROVE AgreeInv'
<1>1. /\ client = NoClient /\ pc' = "recv" /\ UNCHANGED <<outbox, agreed>>
      /\ rtp_channel' = Defaults /\ ~setup_done'["audio"]
  BY DEF Accept, SessionType, AtWork, NothingSetUp, clientVars, Tracks
<1>2. \A c \in Clients : outbox[c] = <<>> /\ agreed[c] = Told
  BY <1>1, SessionAssumption DEF AgreeInv
<1>3. client' \in Clients
  <2>1. backlog \in Seq(Clients) /\ backlog # <<>> /\ client' = Head(backlog)
    BY DEF Accept, SessionType
  <2> QED
    BY <2>1, HeadTailProperties
<1>4. \A t \in Tracks : Informed(t)' /\ ~Pending(t)'
  BY <1>1, <1>2, <1>3, NothingSaid DEF Informed, Pending, Told
<1>5. \A c \in Clients : outbox'[c] = <<>> /\ agreed'[c] = Told
  BY <1>1, <1>2
<1>6. InOrder(outbox'[client'], rtp_channel', setup_done'["audio"])
      /\ NoPacket(outbox'[client'])
  BY <1>3, <1>5, NothingSaid
<1> QED
  BY <1>4, <1>5, <1>6 DEF AgreeInv

(* SETUP changes a channel and owes its client the answer that says so. *)
LEMMA SetupAgrees ==
  ASSUME SessionType, AgreeInv, Setup, Handle
  PROVE  AgreeInv'
<1>1. /\ pc = "handle" /\ pc' = "reply"
      /\ UNCHANGED <<outbox, agreed, conn, client>>
      /\ client \in Clients /\ NoPacket(outbox[client])
  BY DEF Setup, Handle, Handles, connVars, clientVars, SessionType, AgreeInv,
         Idle, Talking, AtWork
<1>2. buf[1] \in Piece
  <2>1. buf \in Seq(Piece) /\ buf # <<>>
    BY <1>1 DEF SessionType
  <2> QED
    BY <2>1, HeadTailProperties
<1> DEFINE u == Request.track
           ch == ChannelFor(Request)
<1>3. Request \in RequestType /\ u \in Tracks /\ ch \in 0 .. 255
      /\ ch # NoChannel
  BY <1>2, ChannelForType DEF Piece, Request, RequestType, NoChannel
<1>4. /\ reply'.track = u /\ reply'.channel = ch /\ reply'.next = "recv"
      /\ rtp_channel' = [rtp_channel EXCEPT ![u] = ch]
      /\ setup_done' = [setup_done EXCEPT ![u] = TRUE]
  BY DEF Setup
<1> HIDE DEF u, ch
<1>5. /\ rtp_channel'[u] = ch
      /\ \A t \in Tracks : t # u => /\ rtp_channel'[t] = rtp_channel[t]
                                    /\ setup_done'[t] = setup_done[t]
  BY <1>3, <1>4 DEF SessionType
<1>6. \A t \in Tracks : Pending(t)' <=> t = u
  BY <1>1, <1>3, <1>4 DEF Pending
<1>7. \A t \in Tracks : ~Pending(t)
  BY <1>1 DEF Pending
<1>8. ASSUME NEW t \in Tracks, t # u, Informed(t)
      PROVE  Informed(t)'
  <2>1. WillKnow(outbox[client], agreed[client][t], rtp_channel,
                 setup_done["audio"], t)
    BY <1>8 DEF Informed
  <2>2. WillKnow(outbox[client], agreed[client][t], rtp_channel',
                 setup_done'["audio"], t)
    BY <1>5, <1>8, <2>1 DEF WillKnow, Known
  <2> QED
    BY <1>1, <2>2 DEF Informed
<1>9. InOrder(outbox'[client'], rtp_channel', setup_done'["audio"])
  BY <1>1 DEF NoPacket, InOrder
<1> QED
  BY <1>1, <1>4, <1>5, <1>6, <1>7, <1>8, <1>9 DEF AgreeInv

(* So does each branch of the request loop.                                *)
LEMMA HandleAgrees == ASSUME SessionType, AgreeInv, Handle PROVE AgreeInv'
<1>1. CASE Setup
  BY <1>1, SetupAgrees
<1>2. CASE ~Setup
  <2>1. /\ pc = "handle" /\ UNCHANGED <<outbox, agreed, conn, client, rtp_channel>>
    BY <1>2 DEF Handle, Junk, Garbled, NotFound, Describe, Unsupported, NoAudio,
         Play, Teardown, NotImplemented, Handles, KeepSession, connVars,
         clientVars, sessionVars
  <2>2. setup_done'["audio"] = setup_done["audio"]
    <3>1. CASE Play
      BY <3>1 DEF Play, SessionType
    <3>2. CASE ~Play
      BY <1>2, <3>2 DEF Handle, Junk, Garbled, NotFound, Describe, Unsupported,
           NoAudio, Teardown, NotImplemented, KeepSession, sessionVars
    <3> QED
      BY <3>1, <3>2
  <2>3. pc' = "close" \/ reply'.channel = NoChannel
    BY <1>2 DEF Handle, Junk, Garbled, NotFound, Describe, Unsupported, NoAudio,
         Play, Teardown, NotImplemented, Reply, Drop
  <2>4. \A t \in Tracks : ~Pending(t) /\ ~Pending(t)'
    BY <2>1, <2>3 DEF Pending
  <2> QED
    BY <2>1, <2>2, <2>4, Unheard DEF Talking, AtWork
<1> QED
  BY <1>1, <1>2

(* An answer goes out before any packet; that to a SETUP tells what was    *)
(* owed.                                                                   *)
LEMMA AnswerAgrees == ASSUME SessionType, AgreeInv, SendReply PROVE AgreeInv'
<1>1. /\ pc = "reply" /\ ReplyType /\ client \in Clients /\ pc' = reply.next
      /\ conn[client] = "open" /\ reply'.cseq = 0 /\ pc' # "reply"
      /\ UNCHANGED <<conn, client, agreed, setup_done, rtp_channel>>
  <2>1. /\ pc = "reply" /\ pc' = reply.next /\ reply' = NoReply
        /\ conn[client] # "left"
        /\ UNCHANGED <<conn, client, agreed, setup_done, rtp_channel>>
    BY DEF SendReply, Room, Eof, clientVars, sessionVars
  <2>2. ReplyType /\ client \in Clients /\ conn[client] \in {"open", "left"}
    BY <2>1 DEF SessionType, Idle
  <2> QED
    BY <2>1, <2>2 DEF ReplyType, NoReply
<1> DEFINE q == outbox[client]
           m == [kind |-> "answer", cseq |-> reply.cseq, track |-> reply.track,
                 channel |-> reply.channel]
<1>2. q \in Seq(Message) /\ m \in Message /\ m.kind = "answer" /\ NoPacket(q)
  BY <1>1 DEF SessionType, ReplyType, Message, Answers, AgreeInv, Talking, AtWork
<1>3. /\ outbox'[client] = Append(q, m)
      /\ \A c \in Clients : c # client => outbox'[c] = outbox[c]
  BY <1>1 DEF SendReply, Post, SessionType
<1>4. \A t \in Tracks : Tells(m, t) <=> Pending(t)
  BY <1>1 DEF Tells, Pending
<1>5. \A t \in Tracks : Pending(t) => m.channel = rtp_channel[t]
  BY DEF AgreeInv
<1> HIDE DEF q, m
<1>6. NoPacket(Append(q, m))
      /\ InOrder(Append(q, m), rtp_channel, setup_done["audio"])
  BY <1>2, PostAnswer
<1>7. ASSUME NEW t \in Tracks
      PROVE  WillKnow(Append(q, m), agreed[client][t], rtp_channel,
                      setup_done["audio"], t)
  <2>1. CASE Pending(t)
    BY <1>2, <1>4, <1>5, <2>1, PostTold
  <2>2. CASE ~Pending(t)
    <3>1. WillKnow(q, agreed[client][t], rtp_channel, setup_done["audio"], t)
      BY <1>1, <2>2 DEF AgreeInv, Informed, q
    <3> QED
      BY <1>2, <1>4, <2>2, <3>1, PostOther
  <2> QED
    BY <2>1, <2>2
<1>8. \A t \in Tracks : Informed(t)' /\ ~Pending(t)'
  BY <1>1, <1>3, <1>7 DEF Informed, Pending
<1>9. \A c \in Clients : c # client' \/ conn'[c] # "open" =>
        outbox'[c] = <<>> /\ agreed'[c] = Told
  BY <1>1, <1>3 DEF AgreeInv
<1> QED
  BY <1>1, <1>3, <1>6, <1>8, <1>9 DEF AgreeInv

(* A packet takes its place behind the answers. *)
LEMMA PacketAgrees ==
  ASSUME SessionType, AgreeInv, pc = "stream", pc' = "stream", Room,
         NEW p, p.track \in Tracks, PostPacket(p),
         p.track = "audio" => setup_done["audio"],
         UNCHANGED <<conn, clientVars, sessionVars, reply>>
  PROVE  AgreeInv'
<1>1. /\ client \in Clients /\ conn[client] = "open"
      /\ UNCHANGED <<client, agreed, setup_done, rtp_channel>>
  BY DEF SessionType, Idle, Room, Eof, clientVars, sessionVars
<1> DEFINE q == outbox[client]
           m == [kind |-> "packet", track |-> p.track,
                 channel |-> rtp_channel[p.track]]
<1>2. q \in Seq(Message) /\ m \in Message /\ m.kind = "packet"
      /\ m.channel = rtp_channel[m.track]
      /\ (m.track = "audio" => setup_done["audio"])
      /\ \A t : ~Tells(m, t)
  BY <1>1 DEF SessionType, Message, Packets, Tells
<1>3. /\ outbox'[client] = Append(q, m)
      /\ \A c \in Clients : c # client => outbox'[c] = outbox[c]
  BY <1>1 DEF PostPacket, Post, SessionType
<1>4. InOrder(q, rtp_channel, setup_done["audio"])
  BY <1>1 DEF AgreeInv
<1>5. \A t \in Tracks :
        WillKnow(q, agreed[client][t], rtp_channel, setup_done["audio"], t)
  BY <1>1 DEF AgreeInv, Informed, Pending
<1> HIDE DEF q, m
<1>6. InOrder(Append(q, m), rtp_channel, setup_done["audio"])
  BY <1>2, <1>4, PostPacketInOrder
<1>7. \A t \in Tracks : WillKnow(Append(q, m), agreed[client][t], rtp_channel,
                                 setup_done["audio"], t)
  BY <1>2, <1>5, PostOther
<1>8. \A t \in Tracks : Informed(t)' /\ ~Pending(t)'
  BY <1>1, <1>3, <1>7 DEF Informed, Pending
<1>9. \A c \in Clients : c # client' \/ conn'[c] # "open" =>
        outbox'[c] = <<>> /\ agreed'[c] = Told
  BY <1>1, <1>3 DEF AgreeInv
<1> QED
  BY <1>1, <1>3, <1>6, <1>8, <1>9 DEF AgreeInv, Talking

(* A client that is closed takes its agreement along.                      *)
LEMMA CloseAgrees == ASSUME SessionType, AgreeInv, CloseClient PROVE AgreeInv'
<1>1. client \in Clients /\ client' \notin Clients /\ pc' = "accept"
  BY SessionAssumption DEF CloseClient, SessionType, Idle
<1>2. /\ outbox' = [outbox EXCEPT ![client] = <<>>]
      /\ agreed' = [agreed EXCEPT ![client] = Told]
  BY DEF CloseClient, Forget, Told
<1>3. \A c \in Clients : outbox'[c] = <<>> /\ agreed'[c] = Told
  BY <1>1, <1>2 DEF SessionType, AgreeInv
<1> QED
  BY <1>1, <1>3 DEF AgreeInv, Pending, Talking, AtWork

(* Nothing the server does breaks it.                                      *)
LEMMA ServerAgrees == ASSUME SessionType, AgreeInv, Server PROVE AgreeInv'
<1>1. CASE Accept
  BY <1>1, AcceptAgrees
<1>2. CASE RecvSome
  <2>1. /\ UNCHANGED <<outbox, agreed, conn, client, rtp_channel, setup_done>>
        /\ pc = "recv" /\ pc' \in {"handle", "recv"}
    BY <1>2 DEF RecvSome, clientVars, sessionVars
  <2> QED
    BY <2>1, Unheard DEF Pending, Talking, AtWork
<1>3. CASE RecvEnds
  <2>1. /\ UNCHANGED <<outbox, agreed, conn, client, rtp_channel, setup_done>>
        /\ pc = "recv" /\ pc' = "close"
    BY <1>3 DEF RecvEnds, connVars, clientVars, sessionVars
  <2> QED
    BY <2>1, Unheard DEF Pending, Talking, AtWork
<1>4. CASE Handle
  BY <1>4, HandleAgrees
<1>5. CASE SendReply
  BY <1>5, AnswerAgrees
<1>6. CASE ReplyFails
  <2>1. /\ UNCHANGED <<outbox, agreed, conn, client, rtp_channel, setup_done>>
        /\ pc = "reply" /\ pc' \in {"recv", "close"} /\ conn[client] = "left"
    BY <1>6 DEF ReplyFails, connVars, clientVars, sessionVars, Eof,
                SessionType, ReplyType
  <2> QED
    BY <2>1, Unheard DEF Pending, Talking, AtWork
<1>7. CASE NextUnit
  <2>1. /\ UNCHANGED <<outbox, agreed, conn, client, rtp_channel, setup_done>>
        /\ pc = "stream" /\ pc' = "stream"
    BY <1>7 DEF NextUnit, connVars, clientVars, sessionVars
  <2> QED
    BY <2>1, Unheard DEF Pending, Talking
<1>8. CASE VideoOut
  <2>1. VideoPacket.track = "video"
    BY DEF VideoPacket
  <2> QED
    BY <1>8, <2>1, PacketAgrees DEF VideoOut, Tracks
<1>9. CASE AudioOut
  <2>1. PICK h : PostPacket(AudioPacket(h))
    BY <1>9 DEF AudioOut
  <2>2. AudioPacket(h).track = "audio"
    BY DEF AudioPacket
  <2> QED
    BY <1>9, <2>1, <2>2, PacketAgrees DEF AudioOut, MayHearAudio, Tracks
<1>10. CASE StreamEnds
  <2>1. /\ UNCHANGED <<outbox, agreed, conn, client, rtp_channel, setup_done>>
        /\ pc = "stream" /\ pc' = "close"
    BY <1>10 DEF StreamEnds, connVars, clientVars, sessionVars
  <2> QED
    BY <2>1, Unheard DEF Pending, Talking
<1>11. CASE CloseClient
  BY <1>11, CloseAgrees
<1> QED
  BY <1>1, <1>2, <1>3, <1>4, <1>5, <1>6, <1>7, <1>8, <1>9, <1>10, <1>11
     DEF Server

(* AgreeInv is inductive.                                                  *)
LEMMA AgreeStep == SessionType /\ AgreeInv /\ [Next]_vars => AgreeInv'
<1> SUFFICES ASSUME SessionType, AgreeInv, [Next]_vars PROVE AgreeInv'
  OBVIOUS
<1>1. CASE World
  BY <1>1, WorldAgrees
<1>2. CASE Server
  BY <1>2, ServerAgrees
<1>3. CASE AcceptFails
  <2>1. /\ UNCHANGED <<outbox, agreed, conn, client, rtp_channel, setup_done>>
        /\ pc = "accept" /\ pc' = "exit"
    BY <1>3 DEF AcceptFails, connVars, clientVars, sessionVars
  <2> QED
    BY <2>1, Unheard DEF Pending, Talking, AtWork
<1>4. CASE UNCHANGED vars
  <2>1. UNCHANGED <<outbox, agreed, conn, client, rtp_channel, setup_done, pc,
                    reply>>
    BY <1>4 DEF vars, connVars, clientVars, sessionVars
  <2> QED
    BY <2>1, Unheard DEF Pending
<1> QED
  BY <1>1, <1>2, <1>3, <1>4 DEF Next

-----------------------------------------------------------------------------
(* When a packet comes first in a connection, all answers have been read.  *)
LEMMA FirstIsKnown == SessionType /\ AgreeInv => PacketsAsAgreed
<1> SUFFICES ASSUME SessionType, AgreeInv, NEW c \in Clients,
                    outbox[c] # <<>>, Head(outbox[c]).kind = "packet"
             PROVE  LET p == Head(outbox[c])
                    IN  \/ p.channel = agreed[c][p.track]
                        \/ /\ p.track = "video"
                           /\ agreed[c]["video"] = NoChannel
                           /\ p.channel = Defaults["video"]
  BY DEF PacketsAsAgreed
<1> DEFINE q == outbox[c]
           p == Head(q)
<1>1. c = client /\ conn[c] = "open"
  BY DEF AgreeInv
<1>2. /\ q \in Seq(Message) /\ q # <<>> /\ p = q[1] /\ Len(q) \in Nat
      /\ 1 \in 1 .. Len(q) /\ p \in Message
  BY HeadTailProperties, LenProperties DEF SessionType
<1>3. p.track \in Tracks
  BY <1>2 DEF Message, Answers, Packets
<1>4. InOrder(q, rtp_channel, setup_done["audio"])
  BY <1>1 DEF AgreeInv
<1>5. ~NoPacket(q)
  BY <1>2 DEF NoPacket
<1>6. \A t \in Tracks : Informed(t)
  BY <1>1, <1>5 DEF AgreeInv, Pending, Talking, AtWork
<1> HIDE DEF q, p
<1>7. /\ p.channel = rtp_channel[p.track]
      /\ p.track = "audio" => setup_done["audio"]
      /\ \A j \in 1 .. Len(q) : q[j].kind = "packet"
  <2>1. q[1].kind = "packet"
    BY <1>2 DEF p, q
  <2> QED
    BY <1>2, <1>4, <2>1 DEF InOrder
<1>8. \A t : \A j \in 1 .. Len(q) : ~Tells(q[j], t)
  BY <1>7 DEF Tells
<1>9. Known(agreed[c][p.track], rtp_channel, setup_done["audio"], p.track)
  <2>1. WillKnow(q, agreed[c][p.track], rtp_channel, setup_done["audio"], p.track)
    BY <1>1, <1>3, <1>6 DEF Informed, q
  <2> QED
    BY <1>8, <2>1 DEF WillKnow
<1>10. p.track = "video" \/ p.track = "audio"
  BY <1>3 DEF Tracks
<1> QED
  BY <1>7, <1>9, <1>10 DEF Known, p, q

(* Packets come on the channels of the SETUP answers their client has      *)
(* read, or, for video that was never set up, on channel 0: whatever       *)
(* clients ask and in which pieces, and however many were served before    *)
(* (main, rtsp_setup_response and send_interleaved of the sidecar).        *)
THEOREM SessionAgrees == Spec => []PacketsAsAgreed
<1>1. Init => SessionType /\ AgreeInv
  BY TypeInitially, AgreeInitially
<1>2. SessionType /\ AgreeInv /\ [Next]_vars => SessionType' /\ AgreeInv'
  BY TypeStep, AgreeStep
<1>3. SessionType /\ AgreeInv => PacketsAsAgreed
  BY FirstIsKnown
<1> QED
  BY <1>1, <1>2, <1>3, PTL DEF Spec

-----------------------------------------------------------------------------
(* One answer to each request *)

NoAnswer(q) == \A i \in 1 .. Len(q) : q[i].kind # "answer"

OneAnswer(q, n) ==
  \A i \in 1 .. Len(q) : q[i].kind = "answer" =>
    /\ q[i].cseq = n
    /\ \A j \in 1 .. Len(q) : q[j].kind = "answer" => j = i

(* The two pieces of request n, some of them received.                     *)
WholeRequest(received, coming, n) ==
  /\ Len(received) + Len(coming) = 2
  /\ \A i \in 1 .. Len(received) :
       received[i].cseq = n /\ (received[i].first <=> i = 1)
  /\ \A i \in 1 .. Len(coming) :
       coming[i].cseq = n /\ (coming[i].first <=> i + Len(received) = 1)

(* Where the conversation with a client that waits can be: its request is  *)
(* on the way or received; it is handled and the answer is owed; or the    *)
(* answer is under way, read or, like the request, lost for good.          *)
Sent ==
  /\ WholeRequest(buf, inbox[client], waiting[client]) /\ waiting[client] # 0
  /\ NoAnswer(outbox[client]) /\ pc # "reply"
Owed ==
  /\ buf = <<>> /\ inbox[client] = <<>> /\ waiting[client] # 0
  /\ NoAnswer(outbox[client]) /\ pc = "reply" /\ reply.cseq = waiting[client]
Done ==
  /\ buf = <<>> /\ inbox[client] = <<>> /\ pc # "reply"
  /\ OneAnswer(outbox[client], waiting[client])
  /\ waiting[client] = 0 => NoAnswer(outbox[client])

TurnInv ==
  /\ waiting \in [Clients -> Nat]
  /\ pc \in Idle => buf = <<>>
  /\ pc = "handle" => HasEmptyLine(buf)
  /\ \A c \in Clients : conn[c] = "open" => c = client
  /\ \A c \in Clients : conn[c] \in {"away", "queued"} =>
       inbox[c] = <<>> /\ waiting[c] = 0
  /\ client \in Clients \ Hasty /\ conn[client] = "open" => Sent \/ Owed \/ Done

-----------------------------------------------------------------------------
(* Messages and pieces *)

(* A packet is not an answer. *)
LEMMA PostNoAnswer ==
  ASSUME NEW q \in Seq(Message), NEW m \in Message, NEW n,
         m.kind # "answer"
  PROVE  /\ NoAnswer(q) => NoAnswer(Append(q, m))
         /\ OneAnswer(q, n) => OneAnswer(Append(q, m), n)
<1>1. /\ Len(q) \in Nat /\ Len(Append(q, m)) = Len(q) + 1
      /\ \A i \in 1 .. Len(q) : Append(q, m)[i] = q[i]
      /\ Append(q, m)[Len(q) + 1] = m
  BY AppendProperties, LenProperties
<1>2. ASSUME NEW i \in 1 .. Len(Append(q, m)),
             Append(q, m)[i].kind = "answer"
      PROVE  i \in 1 .. Len(q) /\ Append(q, m)[i] = q[i]
  <2>1. i # Len(q) + 1
    BY <1>1, <1>2
  <2> QED
    BY <1>1, <2>1
<1> QED
  BY <1>2 DEF NoAnswer, OneAnswer

(* The first answer is the only one. *)
LEMMA PostOneAnswer ==
  ASSUME NEW q \in Seq(Message), NEW m \in Message, NoAnswer(q)
  PROVE  OneAnswer(Append(q, m), m.cseq)
<1>1. /\ Len(q) \in Nat /\ Len(Append(q, m)) = Len(q) + 1
      /\ \A i \in 1 .. Len(q) : Append(q, m)[i] = q[i]
      /\ Append(q, m)[Len(q) + 1] = m
  BY AppendProperties, LenProperties
<1>2. ASSUME NEW i \in 1 .. Len(Append(q, m)),
             Append(q, m)[i].kind = "answer"
      PROVE  i = Len(q) + 1
  <2>1. ASSUME i \in 1 .. Len(q) PROVE FALSE
    BY <1>1, <1>2, <2>1 DEF NoAnswer
  <2> QED
    BY <1>1, <2>1
<1> QED
  BY <1>1, <1>2 DEF OneAnswer

(* Once the answer is read there is none. *)
LEMMA ReadAnswer ==
  ASSUME NEW q \in Seq(Message), q # <<>>, NEW n, OneAnswer(q, n)
  PROVE  /\ OneAnswer(Tail(q), n)
         /\ NoAnswer(q) => NoAnswer(Tail(q))
         /\ Head(q).kind = "answer" => Head(q).cseq = n /\ NoAnswer(Tail(q))
<1>1. /\ Len(q) \in Nat /\ Len(Tail(q)) = Len(q) - 1 /\ Len(q) > 0
      /\ \A i \in 1 .. Len(Tail(q)) : Tail(q)[i] = q[i + 1]
      /\ Head(q) = q[1] /\ 1 \in 1 .. Len(q)
  BY HeadTailProperties, LenProperties
<1>2. \A i \in 1 .. Len(Tail(q)) : i + 1 \in 1 .. Len(q) /\ Tail(q)[i] = q[i + 1]
  BY <1>1
<1>3. OneAnswer(Tail(q), n)
  <2> SUFFICES ASSUME NEW i \in 1 .. Len(Tail(q)), Tail(q)[i].kind = "answer"
               PROVE  /\ Tail(q)[i].cseq = n
                      /\ \A j \in 1 .. Len(Tail(q)) :
                           Tail(q)[j].kind = "answer" => j = i
    BY DEF OneAnswer
  <2>1. q[i + 1].kind = "answer" /\ i + 1 \in 1 .. Len(q)
    BY <1>2
  <2>2. ASSUME NEW j \in 1 .. Len(Tail(q)), Tail(q)[j].kind = "answer"
        PROVE  j = i
    <3>1. q[j + 1].kind = "answer" /\ j + 1 \in 1 .. Len(q)
      BY <1>2, <2>2
    <3>2. j + 1 = i + 1
      BY <2>1, <3>1 DEF OneAnswer
    <3> QED
      BY <3>2
  <2> QED
    BY <1>2, <2>1, <2>2 DEF OneAnswer
<1>4. NoAnswer(q) => NoAnswer(Tail(q))
  BY <1>2 DEF NoAnswer
<1>5. ASSUME Head(q).kind = "answer"
      PROVE  Head(q).cseq = n /\ NoAnswer(Tail(q))
  <2>1. q[1].kind = "answer" /\ q[1].cseq = n
        /\ \A j \in 1 .. Len(q) : q[j].kind = "answer" => j = 1
    BY <1>1, <1>5 DEF OneAnswer
  <2>2. \A i \in 1 .. Len(Tail(q)) : i + 1 # 1
    BY <1>1
  <2> QED
    BY <1>1, <1>2, <2>1, <2>2 DEF NoAnswer
<1> QED
  BY <1>3, <1>4, <1>5

(* However a request is cut, its pieces arrive in order. *)
LEMMA ReceivePieces ==
  ASSUME NEW b \in Seq(Piece), NEW q \in Seq(Piece), NEW n,
         NEW k \in 1 .. Len(q), WholeRequest(b, q, n)
  PROVE  WholeRequest(b \o SubSeq(q, 1, k), SubSeq(q, k + 1, Len(q)), n)
<1> DEFINE taken == SubSeq(q, 1, k)
           left  == SubSeq(q, k + 1, Len(q))
           all   == b \o taken
<1>1. Len(b) \in Nat /\ Len(q) \in Nat /\ Len(b) + Len(q) = 2
  BY LenProperties DEF WholeRequest
<1>2. /\ taken \in Seq(Piece) /\ Len(taken) = k
      /\ \A i \in 1 .. k : taken[i] = q[i]
  BY <1>1, SubSeqProperties
<1>3. /\ left \in Seq(Piece) /\ Len(left) = Len(q) - k
      /\ \A i \in 1 .. Len(left) : left[i] = q[k + i]
  <2>1. k + 1 \in 1 .. Len(q) + 1 /\ Len(q) \in k .. Len(q)
    BY <1>1
  <2>2. left = [i \in 1 .. Len(q) - k |-> q[i + k]]
    BY <1>1, <2>1
  <2> QED
    BY <1>1, <2>1, <2>2
<1> HIDE DEF taken, left
<1>4. /\ Len(all) = Len(b) + k
      /\ \A i \in 1 .. Len(all) :
           all[i] = IF i <= Len(b) THEN b[i] ELSE taken[i - Len(b)]
  BY <1>1, <1>2, ConcatProperties
<1> HIDE DEF all
<1>5. ASSUME NEW i \in 1 .. Len(all)
      PROVE  all[i].cseq = n /\ (all[i].first <=> i = 1)
  <2>1. CASE i <= Len(b)
    <3>1. i \in 1 .. Len(b) /\ all[i] = b[i]
      BY <1>4, <2>1
    <3> QED
      BY <3>1 DEF WholeRequest
  <2>2. CASE ~(i <= Len(b))
    <3>1. i - Len(b) \in 1 .. k /\ i - Len(b) \in 1 .. Len(q)
      BY <1>1, <1>4, <2>2
    <3>2. all[i] = q[i - Len(b)]
      BY <1>2, <1>4, <2>2, <3>1
    <3>3. /\ q[i - Len(b)].cseq = n
          /\ q[i - Len(b)].first <=> (i - Len(b)) + Len(b) = 1
      BY <3>1 DEF WholeRequest
    <3> QED
      BY <1>1, <3>2, <3>3
  <2> QED
    BY <2>1, <2>2
<1>6. ASSUME NEW i \in 1 .. Len(left)
      PROVE  left[i].cseq = n /\ (left[i].first <=> i + Len(all) = 1)
  <2>1. k + i \in 1 .. Len(q) /\ left[i] = q[k + i]
    BY <1>1, <1>3
  <2>2. q[k + i].cseq = n /\ (q[k + i].first <=> (k + i) + Len(b) = 1)
    BY <2>1 DEF WholeRequest
  <2> QED
    BY <1>1, <1>4, <2>1, <2>2
<1>7. Len(all) + Len(left) = 2
  BY <1>1, <1>3, <1>4
<1> QED
  BY <1>5, <1>6, <1>7 DEF WholeRequest, all, taken, left

(* With the empty line, the whole request is there. *)
LEMMA AllReceived ==
  ASSUME NEW b \in Seq(Piece), NEW q \in Seq(Piece), NEW n,
         WholeRequest(b, q, n), HasEmptyLine(b)
  PROVE  q = <<>> /\ b[1].first /\ b[1].cseq = n
<1>1. Len(b) \in Nat /\ Len(q) \in Nat /\ Len(b) + Len(q) = 2
      /\ DOMAIN b = 1 .. Len(b)
  BY LenProperties DEF WholeRequest
<1>2. PICK i \in 1 .. Len(b) : ~b[i].first
  BY <1>1 DEF HasEmptyLine
<1>3. i # 1
  BY <1>2 DEF WholeRequest
<1>4. Len(b) = 2 /\ Len(q) = 0 /\ 1 \in 1 .. Len(b)
  BY <1>1, <1>2, <1>3
<1>5. q = <<>>
  BY <1>4, EmptySeq
<1> QED
  BY <1>4, <1>5 DEF WholeRequest

(* At the beginning nobody waits for an answer.                            *)
LEMMA TurnInitially == Init => TurnInv
<1> SUFFICES ASSUME Init PROVE TurnInv
  OBVIOUS
<1>1. client \notin Clients
  BY SessionAssumption DEF Init
<1> QED
  BY <1>1 DEF Init, TurnInv, Idle

(* A client that waits asks nothing; one that asks did not wait.           *)
LEMMA WorldTakesTurns ==
  ASSUME SessionType, AgreeInv, TurnInv, World
  PROVE  TurnInv'
<1>1. PICK c \in Clients : Connect(c) \/ Ask(c) \/ Read(c) \/ Leave(c)
  BY DEF World
<1>2. UNCHANGED <<client, pc, buf, reply>>
  BY <1>1 DEF Connect, Ask, Read, Leave, sessionVars
<1>3. CASE Connect(c)
  <2>1. /\ UNCHANGED <<inbox, outbox, waiting>> /\ conn[c] = "away"
        /\ conn' = [conn EXCEPT ![c] = "queued"]
    BY <1>3 DEF Connect, clientVars
  <2>2. conn'[c] = "queued" /\ \A d \in Clients : d # c => conn'[d] = conn[d]
    BY <2>1 DEF SessionType
  <2>3. Sent' = Sent /\ Owed' = Owed /\ Done' = Done
    BY <1>2, <2>1 DEF Sent, Owed, Done
  <2> QED
    BY <1>2, <2>1, <2>2, <2>3 DEF TurnInv
<1>4. CASE Ask(c)
  <2>1. /\ conn[c] = "open" /\ UNCHANGED <<conn, outbox>>
        /\ waiting[c] = 0 \/ c \in Hasty
        /\ asked' = [asked EXCEPT ![c] = asked[c] + 1]
        /\ waiting' = [waiting EXCEPT ![c] = asked'[c]]
    BY <1>4 DEF Ask
  <2>2. c = client
    BY <2>1 DEF TurnInv
  <2>3. asked'[c] \in Nat \ {0}
    BY <2>1 DEF SessionType
  <2>4. waiting' \in [Clients -> Nat] /\ waiting'[c] = asked'[c]
        /\ \A d \in Clients : d # c => waiting'[d] = waiting[d]
    BY <2>1, <2>3 DEF TurnInv
  <2>5. PICK r \in Requests[c] :
          inbox' = [inbox EXCEPT ![c] =
                      inbox[c] \o <<[req |-> r, cseq |-> asked'[c], first |-> TRUE],
                          [req |-> r, cseq |-> asked'[c], first |-> FALSE]>>]
    BY <1>4 DEF Ask
  <2>6. \A d \in Clients : d # c => inbox'[d] = inbox[d]
    BY <2>5 DEF SessionType
  <2>7. ASSUME c \notin Hasty PROVE Sent'
    <3>1. Done /\ waiting[c] = 0
      BY <2>1, <2>2, <2>7 DEF TurnInv, Sent, Owed
    <3> DEFINE p1 == [req |-> r, cseq |-> asked'[c], first |-> TRUE]
               p2 == [req |-> r, cseq |-> asked'[c], first |-> FALSE]
    <3>2. inbox'[c] = <<>> \o <<p1, p2>>
      BY <2>2, <2>5, <3>1 DEF SessionType, Done
    <3>3. p1.cseq = asked'[c] /\ p1.first = TRUE /\ p2.cseq = asked'[c]
          /\ p2.first = FALSE
      OBVIOUS
    <3> HIDE DEF p1, p2
    <3>4. inbox'[c] = <<p1, p2>>
      BY <3>2
    <3>5. WholeRequest(<<>>, <<p1, p2>>, asked'[c])
      BY <3>3 DEF WholeRequest
    <3> QED
      BY <1>2, <2>1, <2>2, <2>3, <2>4, <3>1, <3>4, <3>5 DEF Sent, Done
  <2> QED
    BY <1>2, <2>1, <2>2, <2>4, <2>6, <2>7 DEF TurnInv
<1>5. CASE Read(c)
  <2>1. /\ conn[c] = "open" /\ outbox[c] # <<>> /\ UNCHANGED <<conn, inbox>>
        /\ outbox' = [outbox EXCEPT ![c] = Tail(outbox[c])]
    BY <1>5 DEF Read
  <2>2. c = client
    BY <2>1 DEF TurnInv
  <2> DEFINE q == outbox[c]
             m == Head(outbox[c])
             n == waiting[c]
  <2>3. q \in Seq(Message) /\ q # <<>> /\ outbox'[c] = Tail(q)
    BY <2>1 DEF SessionType
  <2>4. /\ waiting' \in [Clients -> Nat]
        /\ \A d \in Clients : d # c => waiting'[d] = waiting[d]
        /\ waiting'[c] = IF m.kind = "answer" /\ m.cseq = n THEN 0 ELSE n
    <3>1. CASE m.kind = "answer"
      <4>1. waiting' = [waiting EXCEPT ![c] = IF n = m.cseq THEN 0 ELSE n]
        BY <1>5, <3>1 DEF Read
      <4> HIDE DEF m
      <4> QED
        BY <3>1, <4>1 DEF TurnInv
    <3>2. CASE m.kind # "answer"
      BY <1>5, <3>2 DEF Read, TurnInv
    <3> QED
      BY <3>1, <3>2
  <2> HIDE DEF q, m, n
  <2>5. ASSUME c \notin Hasty PROVE (Sent \/ Owed \/ Done)'
    <3>1. CASE Done
      <4>1. OneAnswer(q, n) /\ (n = 0 => NoAnswer(q))
        BY <2>2, <3>1 DEF Done, q, n
      <4>2. /\ OneAnswer(Tail(q), n) /\ (NoAnswer(q) => NoAnswer(Tail(q)))
            /\ m.kind = "answer" => m.cseq = n /\ NoAnswer(Tail(q))
        BY <2>3, <4>1, ReadAnswer DEF q, m
      <4>3. OneAnswer(Tail(q), waiting'[c])
            /\ (waiting'[c] = 0 => NoAnswer(Tail(q)))
        BY <2>4, <4>1, <4>2 DEF OneAnswer, NoAnswer
      <4> QED
        BY <1>2, <2>1, <2>2, <2>3, <3>1, <4>3 DEF Done
    <3>2. CASE ~Done
      <4>1. NoAnswer(q) /\ (Sent \/ Owed)
        BY <2>1, <2>2, <2>5, <3>2 DEF TurnInv, Sent, Owed, q
      <4>2. OneAnswer(q, n)
        BY <4>1 DEF OneAnswer, NoAnswer
      <4>3. NoAnswer(Tail(q))
        BY <2>3, <4>1, <4>2, ReadAnswer
      <4>4. m.kind # "answer"
        <5>1. m = q[1] /\ 1 \in 1 .. Len(q)
          BY <2>3, HeadTailProperties, LenProperties DEF m, q
        <5> QED
          BY <4>1, <5>1 DEF NoAnswer
      <4>5. waiting'[c] = waiting[c]
        BY <2>4, <4>4 DEF n
      <4> QED
        BY <1>2, <2>1, <2>2, <2>3, <4>1, <4>3, <4>5 DEF Sent, Owed
    <3> QED
      BY <3>1, <3>2
  <2> QED
    BY <1>2, <2>1, <2>2, <2>4, <2>5 DEF TurnInv
<1>6. CASE Leave(c)
  <2>1. /\ conn' = [conn EXCEPT ![c] = "left"] /\ UNCHANGED inbox
        /\ waiting' = [waiting EXCEPT ![c] = 0]
        /\ outbox' = [outbox EXCEPT ![c] = <<>>]
    BY <1>6 DEF Leave, Forget
  <2>2. /\ waiting' \in [Clients -> Nat] /\ conn'[c] = "left"
        /\ \A d \in Clients : d # c => /\ waiting'[d] = waiting[d]
                                       /\ conn'[d] = conn[d]
                                       /\ outbox'[d] = outbox[d]
    BY <2>1 DEF SessionType, TurnInv
  <2>3. client \in Clients /\ client # c =>
          Sent' = Sent /\ Owed' = Owed /\ Done' = Done
    BY <1>2, <2>1, <2>2 DEF Sent, Owed, Done
  <2> QED
    BY <1>2, <2>1, <2>2, <2>3 DEF TurnInv
<1> QED
  BY <1>1, <1>3, <1>4, <1>5, <1>6

(* main takes a request whole, and owes one answer or closes. *)
LEMMA HandleTakesTurns ==
  ASSUME SessionType, AgreeInv, TurnInv, Handle
  PROVE  TurnInv'
<1>1. /\ pc = "handle" /\ client \in Clients /\ buf' = <<>>
      /\ UNCHANGED <<conn, inbox, outbox, waiting, client>>
      /\ pc' \in {"reply", "close"}
  <2>1. /\ pc = "handle" /\ buf' = <<>> /\ UNCHANGED client
        /\ pc' \in {"reply", "close"}
    BY DEF Handle, Junk, Garbled, NotFound, Describe, Unsupported, NoAudio,
           Setup, Play, Teardown, NotImplemented, Handles, Drop, Reply,
           ClearedBuffer, KeepSession, sessionVars
  <2>2. UNCHANGED <<conn, inbox, outbox, waiting>>
    BY DEF Handle, connVars, clientVars
  <2> QED
    BY <2>1, <2>2 DEF SessionType, Idle
<1>2. pc' = "reply" => reply'.cseq = buf[1].cseq
  <2>1. CASE Setup
    BY <2>1 DEF Setup
  <2>2. CASE ~Setup
    BY <2>2 DEF Handle, Junk, Garbled, NotFound, Describe, Unsupported, NoAudio,
           Play, Teardown, NotImplemented, Drop, Reply
  <2> QED
    BY <2>1, <2>2
<1>3. ASSUME client \in Clients \ Hasty, conn[client] = "open"
      PROVE  Owed' \/ Done'
  <2>1. Sent
    <3>1. buf # <<>>
      BY <1>1 DEF SessionType
    <3> QED
      BY <1>3, <3>1 DEF TurnInv, Owed, Done
  <2>2. inbox[client] = <<>> /\ buf[1].cseq = waiting[client]
    BY <1>1, <2>1, AllReceived DEF SessionType, TurnInv, Sent
  <2>3. CASE pc' = "reply"
    BY <1>1, <1>2, <2>1, <2>2, <2>3 DEF Sent, Owed
  <2>4. CASE pc' = "close"
    BY <1>1, <2>1, <2>2, <2>4 DEF Sent, Done, NoAnswer, OneAnswer
  <2> QED
    BY <1>1, <2>3, <2>4
<1> QED
  BY <1>1, <1>3 DEF TurnInv, Idle

(* A packet changes nothing about answers. *)
LEMMA PacketTakesTurns ==
  ASSUME SessionType, AgreeInv, TurnInv, pc = "stream", pc' = "stream", Room,
         NEW p, p.track \in Tracks, PostPacket(p),
         UNCHANGED <<conn, inbox, waiting, client, buf, reply>>
  PROVE  TurnInv'
<1>1. client \in Clients
  BY DEF SessionType, Idle
<1> DEFINE q == outbox[client]
           m == [kind |-> "packet", track |-> p.track,
                 channel |-> rtp_channel[p.track]]
<1>2. q \in Seq(Message) /\ m \in Message /\ m.kind # "answer"
  BY <1>1 DEF SessionType, Message, Packets
<1>3. outbox'[client] = Append(q, m)
  BY <1>1 DEF PostPacket, Post, SessionType
<1> HIDE DEF q, m
<1>4. /\ NoAnswer(q) => NoAnswer(Append(q, m))
      /\ OneAnswer(q, waiting[client]) => OneAnswer(Append(q, m), waiting[client])
  BY <1>2, PostNoAnswer
<1>5. (Sent => Sent') /\ (Done => Done') /\ ~Owed
  BY <1>3, <1>4 DEF Sent, Owed, Done, q
<1> QED
  BY <1>5 DEF TurnInv, Idle

(* Every branch of the request loop owes or sends one answer.              *)
LEMMA ServerTakesTurns ==
  ASSUME SessionType, AgreeInv, TurnInv, Server
  PROVE  TurnInv'
<1>1. CASE Accept
  <2>1. /\ client = NoClient /\ pc' = "recv" /\ pc = "accept"
        /\ UNCHANGED <<outbox, inbox, waiting, buf>>
    BY <1>1 DEF Accept, SessionType, AtWork, clientVars
  <2>2. client' \in Clients
    <3>1. backlog \in Seq(Clients) /\ backlog # <<>> /\ client' = Head(backlog)
      BY <1>1 DEF Accept, SessionType
    <3> QED
      BY <3>1, HeadTailProperties
  <2>3. conn' = [conn EXCEPT ![client'] =
                   IF conn[client'] = "left" THEN conn[client'] ELSE "open"]
    BY <1>1 DEF Accept
  <2>4. \A c \in Clients : outbox[c] = <<>> /\ conn[c] # "open"
    BY <2>1, SessionAssumption DEF AgreeInv, TurnInv
  <2>5. /\ conn'[client'] = "open" => conn[client'] \in {"away", "queued"}
        /\ conn'[client'] \in {"left", "open"}
        /\ \A c \in Clients : c # client' => conn'[c] = conn[c]
    BY <2>2, <2>3, <2>4 DEF SessionType
  <2>6. ASSUME conn'[client'] = "open" PROVE Done'
    <3>1. inbox[client'] = <<>> /\ waiting[client'] = 0 /\ buf = <<>>
      BY <2>1, <2>2, <2>5, <2>6 DEF TurnInv, Idle
    <3>2. outbox[client'] = <<>>
      BY <2>2, <2>4
    <3> QED
      BY <2>1, <3>1, <3>2 DEF Done, NoAnswer, OneAnswer
  <2> QED
    BY <2>1, <2>2, <2>4, <2>5, <2>6 DEF TurnInv, Idle
<1>2. CASE RecvSome
  <2>1. /\ UNCHANGED <<outbox, waiting, conn, client>> /\ pc = "recv"
        /\ client \in Clients
        /\ pc' = IF HasEmptyLine(buf') THEN "handle" ELSE "recv"
    BY <1>2 DEF RecvSome, clientVars, sessionVars, SessionType, Idle
  <2> DEFINE q == inbox[client]
  <2>2. PICK k \in 1 .. Len(q) :
          /\ buf' = buf \o SubSeq(q, 1, k)
          /\ inbox' = [inbox EXCEPT ![client] = SubSeq(q, k + 1, Len(q))]
    BY <1>2 DEF RecvSome
  <2>3. /\ inbox'[client] = SubSeq(q, k + 1, Len(q))
        /\ \A c \in Clients : c # client => inbox'[c] = inbox[c]
    BY <2>1, <2>2 DEF SessionType
  <2>4. q # <<>>
    BY <1>2 DEF RecvSome
  <2>5. ASSUME client \in Clients \ Hasty, conn[client] = "open"
        PROVE  Sent'
    <3>1. Sent
      BY <2>4, <2>5 DEF TurnInv, Owed, Done
    <3>2. buf \in Seq(Piece) /\ q \in Seq(Piece)
          /\ WholeRequest(buf, q, waiting[client])
      BY <2>1, <3>1 DEF SessionType, Sent
    <3> HIDE DEF q
    <3>3. WholeRequest(buf', inbox'[client], waiting[client])
      BY <2>2, <2>3, <3>2, ReceivePieces
    <3> QED
      BY <2>1, <3>1, <3>3 DEF Sent
  <2>6. \A c \in Clients : conn[c] \in {"away", "queued"} => c # client
    BY <2>1 DEF SessionType, Idle
  <2>7. pc' = "handle" => HasEmptyLine(buf')
    BY <2>1
  <2> HIDE DEF q
  <2>8. pc' \notin Idle
    BY <2>1 DEF Idle
  <2>9. /\ waiting' \in [Clients -> Nat]
        /\ \A c \in Clients : conn'[c] = "open" => c = client'
    BY <2>1 DEF TurnInv
  <2> QED
    BY <2>1, <2>3, <2>5, <2>6, <2>7, <2>8, <2>9 DEF TurnInv
<1>3. CASE RecvEnds
  <2>1. /\ UNCHANGED <<outbox, inbox, waiting, conn, client, buf, reply>>
        /\ pc = "recv" /\ pc' = "close"
    BY <1>3 DEF RecvEnds, connVars, clientVars, sessionVars
  <2>2. (Sent => Sent') /\ (Done => Done') /\ ~Owed
    BY <2>1 DEF Sent, Owed, Done
  <2> QED
    BY <2>1, <2>2 DEF TurnInv, Idle
<1>4. CASE Handle
  BY <1>4, HandleTakesTurns
<1>5. CASE SendReply
  <2>1. /\ pc = "reply" /\ pc' = reply.next /\ Room
        /\ UNCHANGED <<conn, inbox, waiting, client, buf>>
    BY <1>5 DEF SendReply, clientVars, sessionVars
  <2>2. ReplyType /\ client \in Clients /\ pc' \notin {"reply", "handle"}
        /\ pc' \notin Idle
    BY <2>1 DEF SessionType, Idle, ReplyType
  <2> DEFINE q == outbox[client]
             m == [kind |-> "answer", cseq |-> reply.cseq,
                   track |-> reply.track, channel |-> reply.channel]
  <2>3. q \in Seq(Message) /\ m \in Message /\ m.cseq = reply.cseq
    BY <2>2 DEF SessionType, ReplyType, Message, Answers
  <2>4. outbox'[client] = Append(q, m)
    BY <1>5, <2>2 DEF SendReply, Post, SessionType
  <2> HIDE DEF q, m
  <2>5. ASSUME Owed PROVE Done'
    <3>1. OneAnswer(Append(q, m), waiting[client])
      <4>1. NoAnswer(q) /\ reply.cseq = waiting[client]
        BY <2>5 DEF Owed, q
      <4> QED
        BY <2>3, <4>1, PostOneAnswer
    <3> QED
      BY <2>1, <2>2, <2>4, <2>5, <3>1 DEF Owed, Done
  <2>6. ~Sent /\ ~Done
    BY <2>1 DEF Sent, Done
  <2> QED
    BY <2>1, <2>2, <2>5, <2>6 DEF TurnInv
<1>6. CASE ReplyFails
  <2>1. /\ UNCHANGED <<outbox, inbox, waiting, conn, client, buf>>
        /\ pc' \in {"recv", "close"} /\ conn[client] = "left"
    BY <1>6 DEF ReplyFails, connVars, clientVars, sessionVars, Eof,
                SessionType, ReplyType
  <2> QED
    BY <2>1 DEF TurnInv, Idle
<1>7. CASE NextUnit
  <2>1. UNCHANGED <<outbox, inbox, waiting, conn, client, buf, reply, pc>>
    BY <1>7 DEF NextUnit, connVars, clientVars, sessionVars
  <2>2. Sent' = Sent /\ Owed' = Owed /\ Done' = Done
    BY <2>1 DEF Sent, Owed, Done
  <2> QED
    BY <2>1, <2>2 DEF TurnInv
<1>8. CASE VideoOut
  <2>1. VideoPacket.track = "video"
    BY DEF VideoPacket
  <2> QED
    BY <1>8, <2>1, PacketTakesTurns DEF VideoOut, Tracks, clientVars, sessionVars
<1>9. CASE AudioOut
  <2>1. PICK h : PostPacket(AudioPacket(h))
    BY <1>9 DEF AudioOut
  <2>2. AudioPacket(h).track = "audio"
    BY DEF AudioPacket
  <2> QED
    BY <1>9, <2>1, <2>2, PacketTakesTurns
       DEF AudioOut, Tracks, clientVars, sessionVars
<1>10. CASE StreamEnds
  <2>1. /\ UNCHANGED <<outbox, inbox, waiting, conn, client, buf, reply>>
        /\ pc = "stream" /\ pc' = "close"
    BY <1>10 DEF StreamEnds, connVars, clientVars, sessionVars
  <2>2. (Sent => Sent') /\ (Done => Done') /\ ~Owed
    BY <2>1 DEF Sent, Owed, Done
  <2> QED
    BY <2>1, <2>2 DEF TurnInv, Idle
<1>11. CASE CloseClient
  <2>1. client \in Clients /\ client' \notin Clients /\ pc' = "accept"
        /\ buf' = <<>>
    BY <1>11, SessionAssumption DEF CloseClient, SessionType, Idle
  <2>2. /\ conn' = [conn EXCEPT ![client] = "away"]
        /\ inbox' = [inbox EXCEPT ![client] = <<>>]
        /\ waiting' = [waiting EXCEPT ![client] = 0]
    BY <1>11 DEF CloseClient, Forget
  <2>3. /\ waiting' \in [Clients -> Nat] /\ waiting'[client] = 0
        /\ inbox'[client] = <<>> /\ conn'[client] = "away"
        /\ \A c \in Clients : c # client => /\ waiting'[c] = waiting[c]
                                            /\ inbox'[c] = inbox[c]
                                            /\ conn'[c] = conn[c]
    BY <2>1, <2>2 DEF SessionType, TurnInv
  <2> QED
    BY <2>1, <2>3 DEF TurnInv
<1> QED
  BY <1>1, <1>2, <1>3, <1>4, <1>5, <1>6, <1>7, <1>8, <1>9, <1>10, <1>11
     DEF Server

(* TurnInv is inductive.                                                   *)
LEMMA TurnStep == SessionType /\ AgreeInv /\ TurnInv /\ [Next]_vars => TurnInv'
<1> SUFFICES ASSUME SessionType, AgreeInv, TurnInv, [Next]_vars PROVE TurnInv'
  OBVIOUS
<1>1. CASE World
  BY <1>1, WorldTakesTurns
<1>2. CASE Server
  BY <1>2, ServerTakesTurns
<1>3. CASE AcceptFails
  <2>1. /\ UNCHANGED <<outbox, inbox, waiting, conn, client, buf>>
        /\ pc = "accept" /\ pc' = "exit" /\ client = NoClient
    BY <1>3 DEF AcceptFails, connVars, clientVars, sessionVars, SessionType,
                AtWork
  <2> QED
    BY <2>1, SessionAssumption DEF TurnInv, Idle
<1>4. CASE UNCHANGED vars
  <2>1. UNCHANGED <<outbox, inbox, waiting, conn, client, buf, reply, pc>>
    BY <1>4 DEF vars, connVars, clientVars, sessionVars
  <2>2. Sent' = Sent /\ Owed' = Owed /\ Done' = Done
    BY <2>1 DEF Sent, Owed, Done
  <2> QED
    BY <2>1, <2>2 DEF TurnInv
<1> QED
  BY <1>1, <1>2, <1>3, <1>4 DEF Next

(* It is stronger than OneAnswerEach.                                      *)
LEMMA TurnMeansOne == SessionType /\ AgreeInv /\ TurnInv => OneAnswerEach
<1> SUFFICES ASSUME SessionType, AgreeInv, TurnInv, NEW c \in Clients \ Hasty,
                    NEW i \in DOMAIN outbox[c], outbox[c][i].kind = "answer"
             PROVE  /\ outbox[c][i].cseq = waiting[c]
                    /\ \A j \in DOMAIN outbox[c] :
                         outbox[c][j].kind = "answer" => i = j
  BY DEF OneAnswerEach
<1>1. DOMAIN outbox[c] = 1 .. Len(outbox[c])
  BY LenProperties DEF SessionType
<1>2. ~NoAnswer(outbox[c])
  BY <1>1 DEF NoAnswer
<1>3. c = client /\ conn[c] = "open"
  <2>1. outbox[c] # <<>>
    BY <1>2 DEF NoAnswer
  <2> QED
    BY <2>1 DEF AgreeInv
<1>4. Done
  BY <1>2, <1>3 DEF TurnInv, Sent, Owed
<1> QED
  BY <1>1, <1>3, <1>4 DEF Done, OneAnswer

(* A client that waits for its answers gets one to each request, with the  *)
(* CSeq of that request, however the pieces of what it sends are cut and   *)
(* whatever it asks (recv_request and the handlers main calls): no request *)
(* is answered twice, and none with what was meant for another.            *)
THEOREM SessionAnswers == Spec => []OneAnswerEach
<1>1. Init => SessionType /\ AgreeInv /\ TurnInv
  BY TypeInitially, AgreeInitially, TurnInitially
<1>2. SessionType /\ AgreeInv /\ TurnInv /\ [Next]_vars
        => SessionType' /\ AgreeInv' /\ TurnInv'
  BY TypeStep, AgreeStep, TurnStep
<1>3. SessionType /\ AgreeInv /\ TurnInv => OneAnswerEach
  BY TurnMeansOne
<1> QED
  BY <1>1, <1>2, <1>3, PTL DEF Spec
=============================================================================
