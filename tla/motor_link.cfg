SPECIFICATION Spec
CONSTANTS
    Words = {"pwm", "pwm0", "shot", "shots", "sho", "stop"}
    Args <- MCArgs
    Answers <- MCAnswers
    Carried <- MCCarried
    Earlier <- MCEarlier
INVARIANTS
    TypeOK
    CommandArrives
    AnswersRead
    CarriedWhole
CHECK_DEADLOCK FALSE
