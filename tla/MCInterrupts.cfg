CONSTANTS
    MaxTime <- MCMaxTime
    Alarms <- MCAlarms
    EnableValues <- MCEnableValues
    GuestUpdates <- MCGuestUpdates
SPECIFICATION Spec
INVARIANTS
    TypeOK
    PendingIsAnnounced
    SoftwareExactlyOnce
PROPERTIES
    KeyIsDelivered
    AlarmRings
