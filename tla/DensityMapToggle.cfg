CONSTANTS
    Regions = {r1, r2, r3}
    Gminy = {g1, g2, g3}
    NoFeature = NoFeature
    UserZooms = {40, 80, 165}

SPECIFICATION Spec

INVARIANT
    NoStaleVisibility
