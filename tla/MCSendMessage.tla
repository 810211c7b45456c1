--------------------------- MODULE MCSendMessage ----------------------------
(* Two turns of one session that run at once.                              *)
EXTENDS SendMessage

CONSTANTS t1, t2

TwoTurns == {t1, t2}
=============================================================================
