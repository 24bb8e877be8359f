-------------------------- MODULE MCQueueRegistry --------------------------
(* Two queues, one topic and up to three configuration writes.            *)
EXTENDS QueueRegistry

CONSTANTS q1, q2, t1   \* model values

MCQueueNames == {q1, q2}
MCTopicNames == {t1}
=============================================================================
