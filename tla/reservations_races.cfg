SPECIFICATION Spec
CONSTANTS
    MaxBookings = 2
    Desks = {d1, d2, d3}
    LastTime = 3
    HalfHour = 2
    Durations = {2}
    Grace = 0
    Cutoff = 1
    FreeBefore = 2
    GeoWindow = 1
    SeriesLength = 2
    Cadence = 1
    Rewards <- OutcomeRewards
    NotListed = NotListed
SYMMETRY DeskSymmetry
INVARIANTS
    CalendarShowsLive
    ShortBookingsDontOverlap
    UnracedIsConsistent
    CancelledSeriesIsEmpty
CHECK_DEADLOCK FALSE
