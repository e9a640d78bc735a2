SPECIFICATION Spec
CONSTANTS MaxRequests = 4 MaxReviews = 3 MaxFaults = 1
INVARIANTS OneReview ReviewsOnce RowsCounted
CHECK_DEADLOCK FALSE
