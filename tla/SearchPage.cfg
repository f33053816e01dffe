\* Two texts, two places, two user actions, times 0..2.
\* The user has finished, and then nothing happens any more.
SPECIFICATION FairSpec
CONSTANTS
    t1 = t1
    t2 = t2
    p1 = p1
    p2 = p2
    Texts = {t1, t2}
    Blank = Blank
    Places <- MCPlaces
    NameOf <- MCNameOf
    FirstMatch <- MCFirstMatch
    MajorCities = {p2}
    Home = Home
    Nowhere = Nowhere
    Areas <- MCAreas
    Filters = {tall}
    Default = Default
    MaxTime = 2
    None = None
    MaxEdits = 2
INVARIANTS
    TypeOK
    LastTextWins
    ErrorsAreCurrent
    SettledShowsForm
    RestShowsMap
PROPERTIES
    OnlyUserSteers
    BookedAsSearched
    EventuallySettled
CHECK_DEADLOCK FALSE
