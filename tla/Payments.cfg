CONSTANTS
    p1 = p1  p2 = p2
    Invoice <- Invoices2
    Bill <- Bills31
    Payer <- Payers2
    Amounts = {1, 2}
    Cards = 1
    MaxRequests = 4
    MaxCrashes = 1
SPECIFICATION Spec
SYMMETRY Symmetry2
INVARIANTS TypeOK PaidIsCovered BooksBalance TeamStanding
PROPERTIES ChargedNeverRejects
CHECK_DEADLOCK FALSE
