SPECIFICATION FairSpec
CONSTANTS
    sqlite = sqlite
    mqtt = mqtt
    height = height
    desk = desk
    wled = wled
    voice = voice
    Names = {sqlite, mqtt, height, desk, wled, voice}
    Order <- MCOrder
    Mqtt = mqtt
    Tasked = {height, desk, voice}
    Critical = {mqtt, height, desk}
    NTopics = 2
    NoName = NoName
INVARIANTS
    TypeOK
    ReadyMeansUp
    DependenciesUp
    NoOrphans
    ConnectedMeansSubscribed
PROPERTIES
    LifespanEnds
CHECK_DEADLOCK FALSE
