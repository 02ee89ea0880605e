SPECIFICATION Spec
CONSTANTS
    None = None
    inbox = inbox
    archive = archive
    Mailboxes <- OneMailbox
    RetryMax = 2
    MaxEpoch = 2
    MaxCommands = 2
    MaxFaults = 2
INVARIANT SameNumbering
