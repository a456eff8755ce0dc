SPECIFICATION Spec
CONSTANTS
    f1 = f1  f2 = f2  f3 = f3
    scan = scan  rescan = rescan  copy = copy  lookalike = lookalike
    acme = acme  beta = beta
    None = None
    Files = {f1, f2, f3}
    Contents <- AllContents
    Carries <- FileContents
    HardKey <- KeyOf
    SoftKey <- AmountAndDate
    Vendor <- VendorOf
    WithoutOrder <- OrderMissing
    ErpPaid <- PaidInErp
    Payable <- Euros
    Approvals = {a1, a2}
    Chats = {t1}
    MaxVerdicts = 2
    MaxProposals = 2
INVARIANTS
    InvoicePaidOnce
PROPERTIES
    AppliedAsBacktested
