CONSTANTS
    QueueNames <- MCQueueNames
    TopicNames <- MCTopicNames
    MaxWrites = 3
    q1 = q1
    q2 = q2
    t1 = t1

SPECIFICATION Spec

PROPERTY LiveQueuesStayLinked
