---------------------------- MODULE MCRegistry ----------------------------
(* Two topics, one of them the default, two queues, and up to three        *)
(* configuration writes by clients of this node and by its peers.          *)
EXTENDS Registry

CONSTANTS t1, t2, q1, q2   \* model values

MCTopicNames == {t1, t2}
MCQueueNames == {q1, q2}
=============================================================================
