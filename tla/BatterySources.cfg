SPECIFICATION Spec
CONSTANT
    Sources = {"prompt", "echoing", "late", "seplos", "pickySeplos", "jk", "calmJk", "dalyCan", "busyCan",
               "dalyLine", "blockLine", "probe", "silencedCan", "strangeCan", "words"}
INVARIANTS
    TypeOK
    ShownIsAnswered
    ShownIsRecent
PROPERTY
    KeptWhileHeard
