SPECIFICATION FairSpec
CONSTANTS
    s1 = s1
    s2 = s2
    Subs <- MCSubs
    Kinds <- MCWebhookKinds
    NoteKinds <- MCWebhookKinds
    WebhookKinds <- MCWebhookKinds
    Wants <- MCWants
    MaxAttempts = 2
    Batch = 1
    MaxSeq = 2
    MaxExpired = 1
    MaxCalls = 0
    MaxFaults = 1
PROPERTIES PendingIsServed NothingLost
