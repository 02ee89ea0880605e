SPECIFICATION FairSpec
CONSTANTS
    None = None
    inbox = inbox
    archive = archive
    Mailboxes <- TwoMailboxes
    RetryMax = 2
    MaxEpoch = 2
    MaxCommands = 3
    MaxFaults = 2
INVARIANTS RightMailbox OneSocket SuccessIsEffect
PROPERTIES EveryCallReturns
