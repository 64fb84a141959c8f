CONSTANTS
    Names = {1, 2, 3}
    own = own
    other = other
    cli = cli
    Servers = {own, other, cli}
    Files <- SomeFiles
    CommandLines <- SomeCommandLines
    None = None
    Blank = Blank
    MaxProfiles = 2
    Refreshes = {c1, c2}
    Details = {d1}
    MaxVersion = 1
SPECIFICATION FairSpec
INVARIANTS
    TypeOK
    StartsAsAsked
    ShowsActiveProfile
    PageMatchesData
    DetailsFollowOverview
PROPERTIES
    LoadingEnds
    SettlesOnNewest
    PaceFollows
CHECK_DEADLOCK FALSE
