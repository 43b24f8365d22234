SPECIFICATION LiveSpec
CONSTANTS
    Null = Null
    p = p
    q = q
    foo = foo
    illegal = illegal
    Procs = {p, q}
    Uids <- SystemAndAny
    Names = {foo, illegal}
    LegalNames = {foo}
    AidlName <- TwoNames
    VintfStable = {q}
    DeviceLines <- SomeLines
    FrameworkLines <- NoLines
PROPERTIES
    HandOutsAcknowledged
