CONSTANTS
    owner = owner
    friend = friend
    first = first
    second = second
    Owner = owner
    Others <- MCOthers
    Images <- MCImages
    MaxImages = 1
    MaxRev = 3
SPECIFICATION FairSpec
PROPERTIES ExpiredIsPurged
