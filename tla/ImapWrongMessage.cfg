SPECIFICATION Spec
CONSTANTS
    None = None
    inbox = inbox
    archive = archive
    m1 = m1
    m2 = m2
    m3 = m3
    Mailboxes <- TwoMailboxes
    Messages <- TwoMessages
    MaxUID = 2
    MaxCommands = 3
    MaxFaults = 0
INVARIANTS NumberMeansMessage
CHECK_DEADLOCK FALSE
