------------------------- MODULE MCSyslogCollector -------------------------
(* SyslogCollector with a datagram and two TCP messages, two sessions, and  *)
(* queues that hold two of them.                                            *)
EXTENDS SyslogCollector, TLC

CONSTANTS m1, m2, m3

ThreeMessages == {m1, m2, m3}
OneDatagram == {m1}
OnlyTwo == {2}
=============================================================================
