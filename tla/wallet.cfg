CONSTANTS
    k1 = k1
    k2 = k2
    b1 = b1
    b2 = b2
    p = p
    me = me
    you = you
    NoClient = NoClient
    NullAddress = NullAddress
    Clients = {k1, k2}
    Calls = {b1, b2, p}
    thePrint = p
    Providers = {"ready", "locked"}
    Addresses = {me, you}
    Word = 5
    PrintValue = 3
    Amounts = {2}
SPECIFICATION WalletSpec
INVARIANTS WalletTypeOK Conservation InitializedBeforeUse NobodyForgotten PrintShows
PROPERTY SpendingIsAuthorized
SYMMETRY Symmetry
