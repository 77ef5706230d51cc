\* Six events with counts of either sign; two merchants, two customers of whom one has the
\* store, a text for a review edited later, a history of two; four tasks
\* on three threads; three arrays of up to two elements and room for one more;
\* two stores of up to two items.
SPECIFICATION ProgramSpec
CONSTANTS
    IntMax <- MCIntMax
    Counts <- MCCounts
    MaxEvents = 6
    NaN = NaN
    NoReview = NoReview
    Customers = {own, other}
    Merchants = {shop, cafe}
    Texts = {t1, t2}
    customer_id_ = own
    Floats <- MCFloats
    MaxEntries = 2
    WORK_ITEMS = 4
    Threads = {w1, w2, w3}
    Name = {x, y, z}
    Address = {p1, p2, p3, p4}
    nullptr = nullptr
    Element = {0, 1}
    MaxSize = 2
    CustomerId = {7, 42}
    StoreId = {1, 2}
    StoreInputs <- MCStoreInputs
    FavoriteInputs <- MCFavoriteInputs
INVARIANTS
    ProgramsOK
    StockLedger
    EntriesMatch
    FrameOutlivesTasks
    StackDiscipline
    ArraysAreValues
    GalleryComplete
PROPERTIES
    DiscontinuedIsFinal
    NoHalfRating
    PromiseKept
    WorkFinishes
