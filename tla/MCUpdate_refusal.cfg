CONSTANTS
    Factory = 2
    Pushed = {3}
    Pulled = {3}
    Releases = {3}
    Signed = {1, 3}
    Cells = 2
    Conns = {"c1"}
    Waivers = {{}}
    MaxFaults = 0
SPECIFICATION Spec
PROPERTIES
    OthersLetItBe
