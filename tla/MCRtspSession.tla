--------------------------- MODULE MCRtspSession ---------------------------
(* Requests and media for checking RtspSession with TLC. *)
EXTENDS RtspSession

Ask0(method) == [method |-> method, main_ch |-> TRUE, track |-> "video",
                 transport |-> "absent", channel |-> 0]
Stp(track, transport, channel) ==
  [Ask0("SETUP") EXCEPT !.track = track, !.transport = transport,
                        !.channel = channel]

AllRequests ==
  {Ask0(m) : m \in {"DESCRIBE", "PLAY", "TEARDOWN", "other", "junk"}}
  \cup {[Ask0(m) EXCEPT !.main_ch = FALSE] : m \in {"OPTIONS", "PLAY"}}
  \cup {Stp("video", "udp", 0), Stp("video", "plain", 0),
        Stp("video", "interleaved", 4),
        Stp("audio", "absent", 0), Stp("audio", "plain", 0)}

(* A client that does not wait asks for little. *)
AskedFor ==
  [c \in Clients |-> IF c \in Hasty
     THEN {Ask0("DESCRIBE"), Stp("video", "interleaved", 4), Ask0("PLAY")}
     ELSE AllRequests]

(* One NAL unit that just fits and one that just does not; fragments that  *)
(* are just full; the shortest one.                                        *)
EdgeUnits == {<<2, 1200>>, <<1201, 40>>, <<2396>>}

Head0(at, header, frame) == [at |-> at, header |-> header, frame |-> frame]

(* A header behind a false one; a frame that is just short enough, one     *)
(* that is too long; none.                                                 *)
EdgeAudio == {
  [len |-> 300, heads |-> {Head0(0, 7, 2000), Head0(20, 9, 280)}],
  [len |-> 1210, heads |-> {Head0(4, 7, 1203)}],
  [len |-> 1300, heads |-> {Head0(0, 9, 1206)}],
  [len |-> 200, heads |-> {Head0(81, 7, 100)}] }

Wrapping == {[t \in Tracks |-> 1]}
=============================================================================
