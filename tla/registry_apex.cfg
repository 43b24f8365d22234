SPECIFICATION Spec
CONSTANTS
    Null = Null
    p = p
    q = q
    foo = foo
    illegal = illegal
    Procs = {p, q}
    Uids <- SystemAndAny
    Names = {foo, illegal}
    LegalNames = {foo}
    AidlName <- TwoNames
    VintfStable = {q}
    DeviceLines <- OtherLines
    FrameworkLines <- NoLines
INVARIANTS
    ApexOfDeclared
