SPECIFICATION Spec
CONSTANTS
    carol = carol
    wallet = wallet
    proxy = proxy
    other = other
    Principals = {carol, wallet}
    Requests <- MCRequests
    Trusted = {proxy}
    Capacity = 3
    Rate = 1
    Cost = 2
    StaleAfter = 3
    Tasks = {t1, t2}
    max_per_key = 1
INVARIANTS
    StreamsBounded
PROPERTIES
    
    RefillsUnderLoad
