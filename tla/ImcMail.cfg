CONSTANTS
    Mail = {m1, m2}
    Addressees = {b1, b2}
    NetSize = 2
SPECIFICATION MailSpec
INVARIANTS
    MailTypeOK
    UsageCounts
    NoSilentLoss
    DeliveredOnce
CONSTRAINT MailBound
SYMMETRY MailSymmetry
