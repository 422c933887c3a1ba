\* Two senders, two requests for the mailbox (a sync and its retry), one fault.
SPECIFICATION FairDeliverySpec
CONSTANTS
    Sender = {gateway, cron}
    Drainer = {sync, retry}
    MaxMessages = 2
    MaxFaults = 1
INVARIANTS
    TypeOK
    LossHasACause
    LateMailStaysUnread
    AnnouncedMailWaits
    CopiesHaveACause
PROPERTIES
    MailArrives
CHECK_DEADLOCK FALSE
