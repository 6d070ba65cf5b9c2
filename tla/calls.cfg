SPECIFICATION CallSpec
CONSTANTS
    Drives = {"C:", "c:", "D:"}
    Lower <- McLower
    MAX_FRAME_LEN = 2
    MaxBlock = 5
    StateHome <- McStateHome
    RuntimeDir <- McRuntimeDir
    GuestRoots <- McGuestRoots
    GuestPaths <- McGuestPaths
    DefaultRoot <- McDefaultRoot
    HostRoots <- McHostRoots
    HostPaths <- McHostPaths
    Payloads <- McPayloads
    Arrivals <- McArrivals
    ByteStrings <- McByteStrings
    Base64Texts <- McBase64Texts
    Sizes <- McSizes
    Pixels <- McPixels
    Headers <- McHeaders
    Configs <- McConfigs
    Disks <- McDisks
    Files <- McFiles
INVARIANTS
    PlanIsExact
    AuthoriseIsExact
    FramesArriveWhole
    Base64Faithful
    ScreenshotFaithful
    LaunchIsPrepared
