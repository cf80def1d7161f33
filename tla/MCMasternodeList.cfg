CONSTANTS
    NBroadcasts = 2
    MinPing = 1
    MinBroadcast = 1
    AskAgain = 1
    Window = 2
    Expiration = 2
    Removal = 3
    Forget = 3
SPECIFICATION FairSpec
 
PROPERTIES EntryOnlyGetsNewer KeepsComingBack StoppedIsForgotten
