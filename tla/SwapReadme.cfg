CONSTANT MaxVersion = 3
SPECIFICATION Spec
INVARIANTS
    FullReadmeSurvives
    PackDoesItsJob
