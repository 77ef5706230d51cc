SPECIFICATION Spec
CONSTANTS
    Ids = {0, 1, 2}
    MaxReviews = 2
PROPERTY PostEnsuresReview
CHECK_DEADLOCK FALSE
