SPECIFICATION Spec
CONSTANTS
    SlotsPerDay = 3
    ROLLING_WINDOW_DAYS = 4
    ANOMALY_THRESHOLD_MULTIPLIER = 3
    MIN_SAMPLE_DAYS = 4
    Amounts = {0, 1, 5}
    MaxAge = 12
INVARIANTS
    HabitIsNoAnomaly
    SpikeIsAnomaly
