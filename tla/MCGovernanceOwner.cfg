SPECIFICATION RaceSpec
CONSTANTS
    ada = ada
    ben = ben
    v1 = v1
    r1 = r1
    r2 = r2
    Person = {ada, ben}
    Founder = ada
    View = {v1}
    Request = {r1, r2}
SYMMETRY Alike
INVARIANTS
    HasOwner
