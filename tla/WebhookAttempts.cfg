SPECIFICATION Spec
CONSTANTS
    s1 = s1
    s2 = s2
    Subs <- MCSubs
    Kinds <- MCKinds
    NoteKinds <- MCNoteKinds
    WebhookKinds <- MCWebhookKinds
    Wants <- MCWants
    MaxAttempts = 2
    Batch = 2
    MaxSeq = 2
    MaxExpired = 0
    MaxCalls = 0
    MaxFaults = 1
SYMMETRY Symmetry
INVARIANTS AttemptsWithinLimit
