CONSTANTS
    Names = {admin, user1, user2}
    Admins = {admin}
    Seeded = {admin, user1}
    Calls = {c1, c2}
    None = None
SPECIFICATION FairSpec
INVARIANTS TypeOK ConsoleServed DriverHasSession LoadingIsOwn
PROPERTIES PageActsForItsDriver ButtonComesBack
