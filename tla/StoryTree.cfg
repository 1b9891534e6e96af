CONSTANTS
    Chapters = {c1}
    Scenes = {s1, s2}
    Shots = {x1, x2}
    Characters = {k1}
    NoShot = NoShot
    Nowhere = Nowhere
    Story = Story
    Nobody = Nobody
    Requests = {r1, r2}
    ShotOrders = {0, 2}
    GroupOrders = {0, 1}
    MaxGroups = 1
    MaxShots = 2
SPECIFICATION Spec
SYMMETRY TreeSymmetry
INVARIANTS ContinuityAcyclic 
