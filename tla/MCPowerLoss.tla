---------------------------- MODULE MCPowerLoss ----------------------------
(***************************************************************************)
(* Values for PowerLoss: three releases that replace one another's files,  *)
(* and a forged one.                                                       *)
(***************************************************************************)
EXTENDS PowerLoss, MCConsumer

PowerPackages == {Old, V1, V2, Forged}

\* Runs may be killed, and fail, anywhere, or but on the version file.
PowerSetting == {"anywhere", "but on the version file"}
PowerOffers == [s \in PowerSetting |-> PowerPackages]
PowerKillAt ==
    [s \in PowerSetting |->
        IF s = "anywhere" THEN EveryPoint ELSE EveryPoint \ {"stamp"}]
PowerFailAt ==
    [s \in PowerSetting |->
        IF s = "anywhere" THEN EveryPoint ELSE {"write", "fill", "record"}]

=============================================================================
