------------------------- MODULE MCSettlementEngine -------------------------
(* Small instances of SettlementEngine.                                    *)
EXTENDS SettlementEngine

MCMerchants  == {"m1"}
MCNoMerchant == "undefined"
MCMerchantOf == [s \in Settlements |-> "m1"]
MCAssetOf    == [s \in Settlements |-> "USDC"]
MCGross      == [s \in Settlements |-> 5]

MCBudget(db, rd, tm, cr, ba, re, total) ==
    [dbError |-> db, redisError |-> rd, timeout |-> tm, crash |-> cr,
     batch |-> ba, reap |-> re, total |-> total]
MCRows2 == 1 .. 2
MCRow1  == {1}
MCJobs2 == 0 .. 1
MCJobs3 == 0 .. 2
NominalBudget  == MCBudget(1, 1, 1, 1, 0, 0, 1)
OverlapBudget  == MCBudget(1, 1, 1, 1, 1, 1, 3)
BatchBudget    == MCBudget(0, 0, 0, 0, 1, 0, 1)
ReaperBudget   == MCBudget(0, 0, 0, 1, 0, 1, 2)
=============================================================================
