SPECIFICATION MCSpec
CONSTANTS
    Releases <- TwoReleases
    First = "r1"
    Components <- Both
    VersionOf <- Upgrade
    Versions = {1, 2}
    Licensed = {"server"}
    Setups = {s1, s2}
    Nobody = Nobody
    s1 = s1
    s2 = s2
    MaxDisturbances = 2
    MaxEntries = 2
    MaxFileBytes = 2
    MaxOutputBytes = 3
    DigitOf <- ThreeDigits
    Letters = {"a", "b"}
    CalVers = {"2026.01.01.1", "2026.01.01.2"}
    MaxArtifactSize = 2
INVARIANT LockedArtifactsPresent
INVARIANT ActiveSound
PROPERTY PublishedStays
PROPERTY Settles
INVARIANT ExtractionExact
INVARIANT ManifestsExact
