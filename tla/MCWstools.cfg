SPECIFICATION FairSpec
CONSTANTS
    ReadBuf = 2
    TailFiles <- MCTailFiles
    TailOptions <- MCTailOptions
    WalkTrees <- MCWalkTrees
    FindOptions <- MCFindOptions
    Md5Options <- MCMd5Options
    WalkOrder <- MCWalkOrder
    CompareBuf = 2
    SourceTrees <- MCSourceTrees
    DestTrees <- MCDestTrees
    CopyTrees <- MCCopyTrees
    CompareOptions <- MCCompareOptions
    MaxRaw = 2
    MemMax = 4
    MailFiles <- MCMailFiles
    MailOptions <- MCMailOptions
    FtpContents <- MCFtpContents
    FtpOptions <- MCFtpOptions
INVARIANTS
    TypeOK
    BackwardReaderCounts
    WalkPrintsSelection
    CompareComplete
    MailAllOrNothing
    AttachmentsArrive
    FtpFailsLoudly
PROPERTY
    EveryCommandEnds
