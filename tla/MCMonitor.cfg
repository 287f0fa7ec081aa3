SPECIFICATION Spec
CONSTANTS
    p1 = p1
    p2 = p2
    in = in
    cpu = cpu
    Procs = {p1, p2}
    Cards = {in}
    Usages = {cpu}
    MaxRounds = 2
    MaxFlips = 2
INVARIANTS TypeOK ReadersMisledOnlyDuringReset SettledGaugesAreTrue
