SPECIFICATION Spec
CONSTANTS
    worker = worker  h1 = h1  h2 = h2  f1 = f1  f2 = f2
    Threads = {worker, h1, h2}
    Worker = worker
    Payments = {}
    Files = {f1, f2}
    Causes = {DUPLICATES}
    None = None
    QuitRefused = FALSE
    MaxMails = 2
    MaxAborts = 0
SYMMETRY Alike
INVARIANTS
    AskedOnce
