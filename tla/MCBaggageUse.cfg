\* One thread uses a span three times while another walks through its baggage.
SPECIFICATION UseSpec
CONSTANTS
    Caller = {t1}
    MaxUses = 3
PROPERTIES
    BaggageProtected
CHECK_DEADLOCK FALSE
