SPECIFICATION Spec
CONSTANTS
    None = None
    Write = {w1, w2}
    Query = {q1, q2}
    Page <- MCPage
    MaxReads = 2
    FlagKey = {flag1, flag2}
    MaxFetches = 2
    MaxLoads = 2
    File = {file1, file2}
    Target = {shop, blog}
    Project = {shop, blog}
    Slug = {dev, prod}
    FirstSlugs <- MCFirstSlugs
    DefaultEnv = dev
    MaxEnvReads = 2
SYMMETRY Symmetric
CHECK_DEADLOCK FALSE
INVARIANTS TypeOK RowsAreCurrent NoKeyIsLost PageShowsItsFlag ImportIsPreviewed EnvironmentsMatchProject
PROPERTIES SavesBuildOnTheList NoSettingIsUndone
