CONSTANTS
    Mail = {m1, m2}
    Addressees = {b1}
    NetSize = 2
SPECIFICATION MailSpec
INVARIANT QueueResolves
CONSTRAINT MailBound
