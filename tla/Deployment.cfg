SPECIFICATION Spec
CONSTANTS
    s1 = s1
    s2 = s2
    s3 = s3
    a = a
    b = b
    None = None
    Sha <- MCSha
    First = s1
    Number = {1, 2}
    Content = {a, b}
    Manifest <- MCManifest
    Directive <- MCDirective
    HasWorker = TRUE
    KeepReleases = 2
    Attempts = 3
    Consecutive = 2
    MaxScripts = 3
    MaxFaults = 2
INVARIANTS TypeOK SchemaCoversCode PassedMeansLive RestoredMeansUndone ReleasesInUseExist
CHECK_DEADLOCK FALSE
