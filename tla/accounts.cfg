SPECIFICATION Spec
CONSTANTS
    Tabs = {t1, t2}
    People = {p1, p2}
    Names = {kim}
    Admins = {a1}
    NameOf <- MCNameOf
    None = None
    t1 = t1
    t2 = t2
    p1 = p1
    p2 = p2
    kim = kim
    a1 = a1
    HasCookies = TRUE
    MaxIds = 2
    MaxTokens = 2
    MaxOutages = 1
SYMMETRY Symmetric
INVARIANTS TablesAgree DecidedOnce
PROPERTIES RequestsAreKept DrawnForSessions
