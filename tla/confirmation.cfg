SPECIFICATION MCSpec
CONSTANTS
 p1=p1 p2=p2 w1=w1 w2=w2 login=login t1=t1 t2=t2 a1=a1 a2=a2 none=none k1=k1 k2=k2
 Payments <- AllPayments
 References = {w1,w2}
 Tokens = {login,t1,t2}
 TokenOf <- MCTokenOf
 Access = {a1,a2}
 Callers = {k1,k2}
 NoPayment = none
 NoReference = none
 NoToken = none
 NoProof = none
INVARIANTS
 EvidenceChain
 ConfirmAnswersConsent
PROPERTIES
 RevokedStaysOut
 ShownIsFinal
CHECK_DEADLOCK FALSE
