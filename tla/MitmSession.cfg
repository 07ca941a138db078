SPECIFICATION FairSpec
INVARIANTS TypeOK NothingLeft
PROPERTIES OneEndsAll
