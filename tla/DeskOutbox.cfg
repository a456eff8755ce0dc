SPECIFICATION FairSpec
CONSTANTS
    worker = worker  h1 = h1  h2 = h2  f1 = f1  f2 = f2
    Threads = {worker, h1}
    Worker = worker
    Payments = {p1}
    Files = {}
    Causes = {VENDOR}
    None = None
    QuitRefused = FALSE
    MaxMails = 1
    MaxAborts = 1
INVARIANTS
    AcceptedOnce
    OutcomeIsHonest
    OneNoticePerPayment
PROPERTIES
    EveryPaymentNotified
    EveryMailLeaves
