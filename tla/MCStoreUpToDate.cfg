SPECIFICATION Spec
CONSTANTS
    NaN = NaN
    NoReview = NoReview
    Customers = {own, other}
    Merchants = {shop, cafe}
    Texts = {t1, t2}
    customer_id_ = own
    Floats = {0, 5}
    MaxEntries = 2
PROPERTY StoreUpToDate
