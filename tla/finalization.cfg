SPECIFICATION MCSpec
CONSTANTS
 i1=i1 i2=i2 e11=e11 e12=e12 e21=e21 c11=c11 c12=c12 c21=c21 f1=f1 f2=f2 r1=r1 r2=r2 s1=s1
 Intents <- AllIntents
 Envelopes <- AllEnvelopes
 Consents = {c11,c12,c21}
 IntentOf <- MCIntentOf
 GenerationOf <- MCGenerationOf
 Fee <- MCFee
 EnvelopeOf <- MCEnvelopeOf
 Signatures = {s1}
 Ids = {f1,f2}
 Recoverers = {r1,r2}
 Budgets <- MCBudgets
 MaxRevision = 3
 Ending = {c12,c21,e21,"account","registry"}
 Reports <- MCReports
 Settlements <- MCSettlements
INVARIANTS
 OneSignaturePerIntent
 ReleasedIsUnsigned
 CandidatesExpire
PROPERTIES
 GrowsWithinBudget
 AccountingIsEvidence
CHECK_DEADLOCK FALSE
