SPECIFICATION Spec
CONSTANTS
    f0 = f0 f1 = f1 a0 = a0 a1 = a1
    r0 = r0 r1 = r1 r2 = r2
    Flow = {f0, f1}
    First = f0
    Account = {a0, a1}
    AccountOf <- TwoAccounts
    OAuthCall = {c1}
    NoRow = NoRow
    Request = {r0, r1, r2}
    Earlier = r0
    MaxSaves = 1
    MaxVersion = 2
SYMMETRY Symmetric
INVARIANTS StatusMissesNothing LinkAnswersTellTheTruth TokensOfOneGrant DisconnectIsFinal
PROPERTIES PullFinalKeepsTheDoc
CHECK_DEADLOCK FALSE
