SPECIFICATION Spec
CONSTANTS
    r1 = r1
    r2 = r2
    v2 = v2
    v3 = v3
    fa = fa
    fb = fb
    fc = fc
    Runner <- MCRunner
    HostOf <- TwoHosts
    Revision <- MCRevision
    Number = {1, 2}
    Content <- MCContent
    Manifest <- MCManifest
    Directive <- MCDirective
    Contradicts = {fa, fc}
    Malformed = {}
    Destructive = {fc}
    RequiredFrom = 2
    AppTables = {1}
    LegacySchemas <- MCLegacy
SYMMETRY Symmetric
INVARIANTS TypeOK LedgerTellsSchema SuccessMeansApplied YesIsCompatible MarkSticks
PROPERTIES InOrder DumpPrecedesChange KeepsLedger
CHECK_DEADLOCK FALSE
