SPECIFICATION Spec
CONSTANT MaxOutgoing = 3
INVARIANTS NoticeUnderstood WriteAccepted
PROPERTY CommandsAnswered
