--------------------------- MODULE MCRingFollower ---------------------------
(* Recordings for checking RingFollower with TLC. *)
EXTENDS RingFollower

(* NAL unit nal of access unit au, part of it. *)
P(au, kind, nal, part) == [au |-> au, kind |-> kind, nal |-> nal, part |-> part]

Video(ts, seq, carried, body) ==
  [ts |-> ts, seq |-> seq, video |-> TRUE, header |-> TRUE,
   near |-> TRUE, carried |-> carried, body |-> body]
Plain(ts, seq, body) ==
  [Video(ts, seq, <<>>, body) EXCEPT !.header = FALSE]
Audio(ts, seq) ==
  [Video(ts, seq, <<>>, <<>>) EXCEPT !.video = FALSE, !.header = FALSE]

Key(au) == <<P(au, "vps", 1, 1), P(au, "sps", 2, 1), P(au, "pps", 3, 1)>>

(* Joined in the middle of a group of pictures; a key frame cut in the     *)
(* middle of its first slice, the rest carried over; a frame of two        *)
(* slices; audio at the time of a video entry; a second key frame.         *)
CutKeyFrame == <<
  Video(3, 1, <<>>, <<P(1, "first", 1, 1)>>),
  Video(4, 2, <<>>, Key(2) \o <<P(2, "sei", 4, 1), P(2, "idr", 5, 1)>>),
  Audio(4, 3),
  Video(5, 4, <<P(2, "idr", 5, 2)>>, <<P(2, "idr_more", 6, 1)>>),
  Plain(6, 5, <<P(3, "sei", 1, 1), P(3, "first", 2, 1), P(3, "more", 3, 1)>>),
  Audio(7, 6),
  Video(8, 7, <<P(3, "more", 3, 2)>>, Key(4) \o <<P(4, "idr", 4, 1)>>),
  Video(9, 8, <<>>, <<P(5, "first", 1, 1), P(5, "suffix", 2, 1)>>),
  Audio(11, 9) >>

(* The second key frame comes behind so much of the picture before it that *)
(* it is not seen when an anchor is looked for.                            *)
HiddenKeyFrame ==
  [CutKeyFrame EXCEPT ![7] =
     [@ EXCEPT !.near = FALSE, !.body = <<P(3, "more", 3, 3)>> \o @]]

(* Parameter sets in an entry of their own. *)
ApartFromIdr == <<
  Video(3, 1, <<>>, Key(1)),
  Video(4, 2, <<>>, <<P(1, "idr", 4, 1)>>),
  Video(6, 3, <<>>, Key(2)),
  Video(6, 4, <<>>, <<P(2, "idr", 4, 1)>>),
  Video(8, 5, <<>>, <<P(3, "first", 1, 1)>>),
  Video(9, 6, <<>>, <<P(4, "first", 1, 1)>>),
  Audio(11, 7) >>

Setup(s, m, k) == [script |-> s, mode |-> m, skip |-> k]

(* The same without its last entry, for the live client. *)
CutShort == SubSeq(CutKeyFrame, 1, 8)

AllSetups == {Setup(CutShort, "live", 20), Setup(ApartFromIdr, "once", 20),
              Setup(CutKeyFrame, "static", 20), Setup(CutKeyFrame, "static", 36),
              Setup(HiddenKeyFrame, "static", 20),
              Setup(ApartFromIdr, "live", 36), Setup(ApartFromIdr, "static", 36)}
=============================================================================
