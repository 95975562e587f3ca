SPECIFICATION Spec
CONSTANTS
    Request = {r1, r2}
    MaxStarts = 2
INVARIANT StatsSurviveRestarts
