CONSTANTS
    Threads = {t1, t2}
    Sectors = {s1, s2}
    Values = {v1, v2}
    NoThread = NoThread
    NoCall = NoCall
    NoData = NoData
    MaxSpurious = 2
SPECIFICATION FairSpec
 
PROPERTIES  CommandCompletes
