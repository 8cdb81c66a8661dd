SPECIFICATION FairChatSpec
CONSTANTS
    Bots = {a, b}
    Nothing = nothing
    MailboxMax = 2
    MinInterval = 2
    DedupTTL = 1
    MaxSendRetries = 2
    MaxChunks = 2
    MaxDelay = 1
    MaxTraffic = 3
INVARIANTS ChatTypeOK TakenOnce
PROPERTIES ChannelReadsWell QueuedIsSent
