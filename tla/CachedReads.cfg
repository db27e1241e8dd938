\* Three callers, so that one can join a fetch while another one's older
\* fetch is still on its way.
CONSTANTS
  Readers = {r1, r2, r3}
  NoFetch = NoFetch
  NoValue = NoValue
  MaxWrites = 2
SPECIFICATION FairSpec
INVARIANTS TypeOK FreshAfterInvalidate OneSharedFetch
PROPERTIES GetAnswered
