---------------------------- MODULE MCVendorBoot ----------------------------
(* SD cards for checking VendorBoot with TLC. *)
EXTENDS VendorBoot

Card(fw, kick, allow, md5) ==
  [fw |-> fw, kick |-> kick, allow |-> allow, md5 |-> md5]

(* Both known firmwares, and an unknown one: plain, forced by the marker,  *)
(* and vouched for by the md5 file; and a card without rtsp_kick.          *)
AllCards == {Card("v93", TRUE, FALSE, "none"), Card("v105", TRUE, FALSE, "v93"),
             Card("other", TRUE, FALSE, "none"), Card("other", TRUE, TRUE, "none"),
             Card("other", TRUE, FALSE, "other"), Card("v93", FALSE, FALSE, "none")}

GoodCards == {Card("v93", TRUE, FALSE, "none"), Card("v105", TRUE, FALSE, "none")}

(* Everything may go wrong, or nothing but what a retry is there for. *)
CalmAndWild == {{}, Troubles}
LateOnly    == {{"late"}}
BreaksOnly  == {{"breaks"}}
=============================================================================
