SPECIFICATION Spec
CONSTANTS
    Refused = Refused
    NoFile = NoFile
    NoOption = NoOption
    Empty <- MCEmpty
    Aliases = {"a", "b"}
    MaxPort = 65535
    MaxInt = 99999
    SizeModulus = 1000000
    MaxInterval = 99999
    Values <- MCValues
    Number <- MCNumber
    Digits <- MCDigits
    Decimal <- MCDecimal
    Endpoint <- MCEndpoint
    Addresses <- MCAddresses
    Interface <- MCInterface
    Rewritten <- MCRewritten
    Dashed <- MCDashed
    Invocations <- MCInvocations
    Edits <- MCEdits
    Sample <- MCSample
    Shorter <- MCShorter
    Special <- MCSpecial
INVARIANTS
    AcceptsExactly
    OnlyTheLastServerIsCut
    FormKeepsConfiguration
    EquivalentCommand
    VerboseIsHeeded
CHECK_DEADLOCK FALSE
