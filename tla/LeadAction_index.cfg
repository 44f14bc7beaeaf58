\* Two leads and the recovery cron: no index keeps a second draft out.
CONSTANTS
    Inquiry = {i1}
    Submission = {s1}
    Caller = {c1}
    Recovery = cron
    Provider = TRUE
    MaxDrafts = 2
    MaxFaults = 0
SPECIFICATION Spec
INVARIANTS
    OneLiveAction
