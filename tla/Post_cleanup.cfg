\* Post-processing on its own: an unpacking that fails, with cleanup turned on.
SPECIFICATION PostSpec
CONSTANTS
    Width = 4
    Poly = 19
    SliceSize = 2
    Protected <- ProtectedFiles
    Original <- Contents
    Names <- FileNames
    Extension <- Extensions
    Obfuscated = {"o.bin"}
    NzbFile <- ByNzb
    Unpacked <- InArchive
    HashPrefix = 1
    Downloads <- LeftByDownload
    Configs <- SomeConfigs
INVARIANT ArchivesOutliveFailure
CHECK_DEADLOCK FALSE
