--------------------------- MODULE HevcAssembler ---------------------------
(***************************************************************************)
(* How the archived sidecar turns chunks of a video bitstream into access  *)
(* units (feed_hevc_chunk and what it calls).  A chunk may begin and end   *)
(* anywhere in a NAL unit, and a NAL unit is known to be over only when    *)
(* the start code of the next one is there.                                *)
(*                                                                         *)
(* The bitstream is a sequence of pieces: piece 1 of a NAL unit begins     *)
(* with its start code and header, the others are what follows.  A NAL     *)
(* unit as received is the sequence of pieces from one start code to the   *)
(* next; an access unit is a sequence of NAL units and a timestamp.        *)
(***************************************************************************)
EXTENDS Integers, SequencesExt

(* nal_unit_type, as far as route_complete_hevc_nal tells types apart, and *)
(* first_slice_segment_in_pic_flag.                                        *)
Parameters  == {"vps", "sps", "pps"}
FirstSlices == {"idr", "first"}
MoreSlices  == {"idr_more", "more"}
PrefixKinds    == Parameters \cup {"sei"}
Kinds       == FirstSlices \cup MoreSlices \cup PrefixKinds \cup {"suffix"}

IsStart(piece) == piece.part = 1

KindOf(nal) == nal[1].kind

(* hevc_stream_t after reset_hevc_stream.  have_vps, have_sps and have_pps *)
(* are whether prefix holds one, and current_au_active whether au is not   *)
(* empty; sent is what has gone to the client.                             *)
Reset(sent) == [pending |-> <<>>, prefix |-> <<>>, au |-> <<>>, auTs |-> 0,
                synced |-> FALSE, sent |-> sent]

(* store_bootstrap_prefix_nal: at most one of a kind, the newest. *)
Store(prefix, nal) ==
  IF \E i \in DOMAIN prefix : KindOf(prefix[i]) = KindOf(nal)
    THEN [i \in DOMAIN prefix |->
            IF KindOf(prefix[i]) = KindOf(nal) THEN nal ELSE prefix[i]]
    ELSE Append(prefix, nal)

(* flush_current_au, with the timestamp of compute_rtp_ts. *)
Flush(hevc, offset) ==
  IF hevc.au = <<>> THEN hevc
  ELSE [hevc EXCEPT !.au = <<>>,
          !.sent = Append(@, [nals |-> hevc.au, ts |-> hevc.auTs + offset])]

(* move_prefix_to_current_au, and the slice itself. *)
Begin(hevc, nal, ts) ==
  [hevc EXCEPT !.au = Append(hevc.prefix, nal), !.prefix = <<>>, !.auTs = ts]

AnyIdr(hevc, nal) == KindOf(nal) = "idr" \* mutant: without parameter sets

(* An IDR picture with all its parameter sets in front of it. *)
MayStart(hevc, nal) ==
  /\ KindOf(nal) = "idr"
  /\ \A k \in Parameters :
       \E i \in DOMAIN hevc.prefix : KindOf(hevc.prefix[i]) = k

(* route_complete_hevc_nal before the first key frame, *)
Bootstrap(hevc, nal, ts) ==
  CASE KindOf(nal) = "vps" -> [hevc EXCEPT !.prefix = <<nal>>]
    [] KindOf(nal) \in {"sps", "pps"} ->
         [hevc EXCEPT !.prefix = Store(@, nal)]
    [] MayStart(hevc, nal) -> Begin([hevc EXCEPT !.synced = TRUE], nal, ts)
    [] OTHER -> hevc

(* and after it. *)
Follow(hevc, nal, ts, offset) ==
  CASE KindOf(nal) \in FirstSlices -> Begin(Flush(hevc, offset), nal, ts)
    [] KindOf(nal) \in PrefixKinds -> [hevc EXCEPT !.prefix = Append(@, nal)]
    [] OTHER -> [hevc EXCEPT !.au = Append(@, nal)]

Route(hevc, nal, ts, offset) ==
  IF hevc.synced THEN Follow(hevc, nal, ts, offset)
                 ELSE Bootstrap(hevc, nal, ts)

(* Where the NAL unit at the beginning may end: at the next start code. *)
ChunkEnds(pending) == \* mutant: or where the chunk does
  {i \in 2 .. Len(pending) + 1 : i > Len(pending) \/ IsStart(pending[i].piece)}

NextStarts(pending) ==
  {i \in 2 .. Len(pending) : IsStart(pending[i].piece)}

(* discard_pending_bytes: what comes before the first start code. *)
FromStart(pending) ==
  LET starts == {i \in DOMAIN pending : IsStart(pending[i].piece)}
  IN  IF starts = {} THEN pending ELSE SubSeq(pending, Min(starts), Len(pending))

(* append_pending_bytes: every piece remembers the entry it came in. *)
Pend(hevc, chunk, ts) ==
  [hevc EXCEPT !.pending =
     FromStart(@ \o [i \in DOMAIN chunk |-> [piece |-> chunk[i], ts |-> ts]])]

(* Is there a NAL unit between two start codes? *)
IsComplete(hevc) == NextStarts(hevc.pending) # {}

(* One round of feed_hevc_chunk: that NAL unit is routed, with the         *)
(* timestamp of the entry its start code came in.                          *)
FeedOne(hevc, offset) ==
  LET next == Min(NextStarts(hevc.pending))
      nal  == SubSeq(hevc.pending, 1, next - 1)
      rest == SubSeq(hevc.pending, next, Len(hevc.pending))
  IN  Route([hevc EXCEPT !.pending = rest],
            [i \in DOMAIN nal |-> nal[i].piece], nal[1].ts, offset)
=============================================================================
