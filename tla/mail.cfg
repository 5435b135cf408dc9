SPECIFICATION MailSpec
CONSTANTS
    often = often
    once = once
    None = None
    Deliveries = {d1, d2}
    Senders <- MCSenders
    Messages <- MCMessages
    MaxTasks = 2
    MaxRefreshes = 2
    MaxFaults = 1
INVARIANTS RecordedOnce AnswersAreTrue OneAlertPending MailsBounded
PROPERTIES Answered DueTaskHandled
CHECK_DEADLOCK FALSE
