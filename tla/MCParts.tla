----------------------------- MODULE MCParts -----------------------------
(***************************************************************************)
(* One run for the pages of the browser and the smaller parts of the       *)
(* backend.  They share no state that the modules model, so instead of all *)
(* their interleavings the run explores them side by side: a behaviour     *)
(* chooses a part at the start and steps it alone.                         *)
(***************************************************************************)
EXTENDS StrategyDesk, MCBuilder, LiveDesk, LiveGroups,
        PnlCurve, SpotChart, Indicators, Shell, PaperMtm, TokenBucket, Slippage

VARIABLE part

-----------------------------------------------------------------------------
LossAndProfit == {-1, 0, 1, 2}

(* Periods in halves: EMAs of 1 and 2 bars, and so on. *)
ShortPeriods == [ema |-> <<2, 4>>, bbands |-> <<4, 4>>, rsi |-> <<2>>,
                 macd |-> <<2, 4, 2>>, atr |-> <<4>>, adx |-> <<4>>]

Answers == {<<"near", "far">>, <<"far">>}

TwoLots == [p \in Positions |-> 2]

-----------------------------------------------------------------------------
PartsInit ==
  /\ part \in {"desk", "builder", "live", "groups", "curve",
               "chart", "tape", "shell", "mtm", "bucket", "fills"}
  /\ DeskInit /\ BuilderInit /\ LiveDeskInit /\ GroupsInit /\
     CurveInit /\ ChartInit /\ TapeInit /\ ShellInit /\
     MtmInit /\ BucketInit /\ SlippageInit
  /\ part # "curve" => kind = "live"
  /\ part # "tape" => period = 1
  /\ part # "fills" => volume = 0

PartsNext ==
  /\ UNCHANGED part
  /\ \/ /\ part = "desk" /\ DeskNext
        /\ UNCHANGED <<builderVars, liveDeskVars, groupVars,
                       curveVars, chartVars, tapeVars, shellVars,
                       mtmVars, bucketVars, slippageVars>>
     \/ /\ part = "builder" /\ BuilderNext
        /\ UNCHANGED <<deskVars, liveDeskVars, groupVars,
                       curveVars, chartVars, tapeVars, shellVars,
                       mtmVars, bucketVars, slippageVars>>
     \/ /\ part = "live" /\ LiveDeskNext
        /\ UNCHANGED <<deskVars, builderVars, groupVars, curveVars,
                       chartVars, tapeVars, shellVars, mtmVars,
                       bucketVars, slippageVars>>
     \/ /\ part = "groups" /\ GroupsNext
        /\ UNCHANGED <<deskVars, builderVars, liveDeskVars,
                       curveVars, chartVars, tapeVars, shellVars,
                       mtmVars, bucketVars, slippageVars>>
     \/ /\ part = "curve" /\ CurveNext
        /\ UNCHANGED <<deskVars, builderVars, liveDeskVars,
                       groupVars, chartVars, tapeVars, shellVars,
                       mtmVars, bucketVars, slippageVars>>
     \/ /\ part = "chart" /\ ChartNext
        /\ UNCHANGED <<deskVars, builderVars, liveDeskVars,
                       groupVars, curveVars, tapeVars, shellVars,
                       mtmVars, bucketVars, slippageVars>>
     \/ /\ part = "tape" /\ NextBar
        /\ UNCHANGED <<deskVars, builderVars, liveDeskVars,
                       groupVars, curveVars, chartVars, shellVars, mtmVars, bucketVars, slippageVars>>
     \/ /\ part = "shell" /\ ShellNext
        /\ UNCHANGED <<deskVars, builderVars, liveDeskVars,
                       groupVars, curveVars, chartVars, tapeVars,
                       mtmVars, bucketVars, slippageVars>>
     \/ /\ part = "mtm" /\ MtmNext
        /\ UNCHANGED <<deskVars, builderVars, liveDeskVars,
                       groupVars, curveVars, chartVars, tapeVars,
                       shellVars, bucketVars, slippageVars>>
     \/ /\ part = "bucket" /\ BucketNext
        /\ UNCHANGED <<deskVars, builderVars, liveDeskVars,
                       groupVars, curveVars, chartVars, tapeVars,
                       shellVars, mtmVars, slippageVars>>
     \/ /\ part = "fills" /\ LevelListed
        /\ UNCHANGED <<deskVars, builderVars, liveDeskVars,
                       groupVars, curveVars, chartVars, tapeVars,
                       shellVars, mtmVars, bucketVars>>

PartsVars == <<part, deskVars, builderVars, liveDeskVars, groupVars,
               curveVars, chartVars, tapeVars, shellVars,
               mtmVars, bucketVars, slippageVars>>

PartsSpec == PartsInit /\ [][PartsNext]_PartsVars

-----------------------------------------------------------------------------
(* The variables of every part have the values their modules say. *)
PartsTypeOK ==
  /\ DeskTypeOK /\ LiveDeskTypeOK /\ GroupsTypeOK /\ ChartTypeOK
  /\ ShellTypeOK /\ MtmTypeOK /\ BucketTypeOK
=============================================================================
