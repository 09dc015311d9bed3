SPECIFICATION Spec
CONSTANTS
    Volumes <- MCVolumes
    Calls <- MCCalls
    Fold <- MCFold
    Less <- MCLess
    CacheMax = 1
    MaxFaults = 2
INVARIANTS LookupRight ListingExact PathsFollowListings
