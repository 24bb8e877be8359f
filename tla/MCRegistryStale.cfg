CONSTANTS
    TopicNames <- MCTopicNames
    QueueNames <- MCQueueNames
    DefaultTopic = t1
    NoTopic = NoTopic
    MaxWrites = 3
    t1 = t1
    t2 = t2
    q1 = q1
    q2 = q2

SPECIFICATION Spec

PROPERTY QueueSetsRefreshed
