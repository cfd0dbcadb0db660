SPECIFICATION Spec
CONSTANTS
    g1 = g1
    g2 = g2
    b1 = b1
    b2 = b2
    Base = Base
    Generated = {g1}
    Prebuilt = {b1}
    MaxBoots = 2
PROPERTY EnabledStaysMounted
