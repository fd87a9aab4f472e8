SPECIFICATION FairSpec
CONSTANTS
    Own <- OwnPlaces
    Theirs <- TheirPlaces
    Fits = 3
INVARIANTS
    InOrderBySender
    ShowsTheChat

    
