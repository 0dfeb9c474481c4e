CONSTANTS
    t1 = t1  t2 = t2  u1 = u1  u2 = u2
    Tab = {t1, t2}
    User = {u1, u2}
    Script = {1, 2}
    UserOf <- EachHisOwn
    MaxActs = 3
    MaxCalls = 2
    Events = {"revert", "type", "fail"}
SPECIFICATION Spec
INVARIANTS TypeOK OneShadowEach OwnShadow PublishedIsBackedUp SelectAnswerable
CHECK_DEADLOCK FALSE
