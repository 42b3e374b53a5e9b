SPECIFICATION FairSpec
CONSTANTS
    c1 = c1
    c2 = c2
    m1 = m1
    m2 = m2
    t1 = t1
    Ids = {c1, c2}
    Topics = {t1}
    Msgs = {m1, m2}
    PublisherOf <- MCPublisherOf
    TopicOf <- MCTopicOf
    QosOf <- MCQosOf
    MaxConnects <- MCMaxConnects
    NULL = NULL
INVARIANTS
    TypeOK
    AckedIsWritten
    DeliveredOnce
    NeverPanics
PROPERTY
    HeldUpOnlyByItsClient
CHECK_DEADLOCK FALSE
