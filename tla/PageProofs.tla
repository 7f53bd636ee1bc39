----------------------------- MODULE PageProofs -----------------------------
(***************************************************************************)
(* What the pages of the browser promise (LiveDesk, LiveGroups, PnlCurve,  *)
(* SpotChart, Shell), for any strategies and symbols, any prices and       *)
(* profits, and any number of requests and faults; and, with the proofs of *)
(* the other parts, what the run of all parts does.                        *)
(***************************************************************************)
EXTENDS MCParts, StrategyDeskProofs, WorkerProofs

-----------------------------------------------------------------------------
(* LiveDesk *)

(* The form holds what was entered for the strategy that is shown, and     *)
(* there is nothing in it while there is no dialog.                        *)
FormOfSelected ==
  /\ slOpen => selectedId \in Strategies
  /\ ~slOpen => form = BlankForm
  /\ form.typed # NoStrategy => form.typed = selectedId
  /\ form.understood # NoStrategy => form.understood = selectedId

(* busy follows the one request of the dialog that is open.                *)
OneRequest ==
  /\ busy <=> \E c \in slCalls : c.inDialog
  /\ \A c, d \in slCalls : c.inDialog /\ d.inDialog => c = d
  /\ \A c \in slCalls : c.inDialog => c.onPage

Untouched == <<configured, selectedId, slOpen, form, busy>>

LiveDeskInv == LiveDeskTypeOK /\ FormOfSelected
-----------------------------------------------------------------------------
(* The requests that survive are the old ones with another stage, or with  *)
(* their dialog or page gone.                                              *)
LEMMA StagedTyped ==
  ASSUME slCalls \subseteq SlCalls, NEW c \in slCalls,
         NEW st \in {"sent", "ok", "failed", "done"}
  PROVE  Stage(c, st) \subseteq SlCalls
<1>1. c \in SlCalls
  OBVIOUS
<1>2. [c EXCEPT !.stage = st] \in SlCalls
  BY <1>1 DEF SlCalls
<1> QED BY <1>2 DEF Stage

LEMMA DetachedTyped ==
  ASSUME NEW inFlight \in SUBSET SlCalls
  PROVE  /\ {[c EXCEPT !.inDialog = FALSE] : c \in inFlight} \subseteq SlCalls
         /\ {[c EXCEPT !.inDialog = FALSE, !.onPage = FALSE] : c \in inFlight} \subseteq SlCalls
<1> SUFFICES ASSUME NEW c \in inFlight
             PROVE  /\ [c EXCEPT !.inDialog = FALSE] \in SlCalls
                    /\ [c EXCEPT !.inDialog = FALSE, !.onPage = FALSE] \in SlCalls
  OBVIOUS
<1>1. c \in SlCalls
  OBVIOUS
<1> QED BY <1>1 DEF SlCalls

LEMMA BlankTyped == BlankForm \in SlForm
  BY DEF BlankForm, SlForm, SomeStrategy

(* The steps of the page, the dialog and the requests keep the types, and  *)
(* the form belongs to the strategy that is selected: a strategy is        *)
(* selected only while there is no form (LiveMonitorPage.tsx:52-74,        *)
(* LiveStrategyDetail.tsx:171-190).                                        *)
THEOREM LiveDeskTypeCorrect == LiveDeskSpec => []LiveDeskInv
<1>1. LiveDeskInit => LiveDeskInv
  <2> SUFFICES ASSUME LiveDeskInit PROVE LiveDeskInv
    OBVIOUS
  <2>1. form = BlankForm /\ form \in SlForm
    BY BlankTyped DEF LiveDeskInit
  <2>2. slServer \in [Strategies -> SlStates] /\ slShown \in [Strategies -> SlStates]
    BY DEF LiveDeskInit, SlStates
  <2>3. slSent \in 0..MaxSlCalls /\ slFaults \in 0..MaxSlFaults
    BY LiveBounds DEF LiveDeskInit
  <2>4. LiveDeskTypeOK
    BY <2>1, <2>2, <2>3 DEF LiveDeskInit, LiveDeskTypeOK, SomeStrategy
  <2>5. FormOfSelected
    BY <2>1 DEF LiveDeskInit, FormOfSelected, BlankForm
  <2> QED BY <2>4, <2>5 DEF LiveDeskInv
<1>2. LiveDeskInv /\ [LiveDeskNext]_liveDeskVars => LiveDeskInv'
  <2> SUFFICES ASSUME LiveDeskInv, [LiveDeskNext]_liveDeskVars
               PROVE  LiveDeskInv'
    OBVIOUS
  <2> USE LiveBounds
  <2>1. ASSUME NEW s \in Strategies, SelectStrategy(s) PROVE LiveDeskInv'
    BY <2>1 DEF SelectStrategy, LiveDeskInv, LiveDeskTypeOK, FormOfSelected, SomeStrategy,
                BlankForm
  <2>2. ASSUME NEW s \in Strategies, StopTriggers(s) PROVE LiveDeskInv'
    BY <2>2 DEF StopTriggers, LiveDeskInv, LiveDeskTypeOK, FormOfSelected, SlStates
  <2>3. ASSUME ConfigurationChanges PROVE LiveDeskInv'
    <3>1. slCalls' \subseteq SlCalls
      BY <2>3, DetachedTyped DEF ConfigurationChanges, LiveDeskInv, LiveDeskTypeOK
    <3> QED BY <2>3, <3>1, BlankTyped DEF ConfigurationChanges, LiveDeskInv,
               LiveDeskTypeOK, FormOfSelected, BlankForm
  <2>4. ASSUME LeavePage PROVE LiveDeskInv'
    <3>1. slCalls' \subseteq SlCalls
      BY <2>4, DetachedTyped DEF LeavePage, LiveDeskInv, LiveDeskTypeOK
    <3> QED BY <2>4, <3>1, BlankTyped DEF LeavePage, LiveDeskInv,
               LiveDeskTypeOK, FormOfSelected, BlankForm, SomeStrategy
  <2>5. ASSUME OpenDialog PROVE LiveDeskInv'
    BY <2>5 DEF OpenDialog, DetailShown, LiveDeskInv, LiveDeskTypeOK, FormOfSelected,
                SomeStrategy
  <2>6. ASSUME FillForm PROVE LiveDeskInv'
    <3>1. /\ form \in SlForm /\ slOpen /\ selectedId \in Strategies
          /\ \/ \E s \in {selectedId, NoStrategy} : form' = [form EXCEPT !.typed = s]
             \/ \E s \in {selectedId, NoStrategy} : form' = [form EXCEPT !.understood = s]
      BY <2>6 DEF FillForm, LiveDeskInv, LiveDeskTypeOK, FormOfSelected
    <3>2. /\ form' \in SlForm
          /\ form'.typed \in {form.typed, selectedId, NoStrategy}
          /\ form'.understood \in {form.understood, selectedId, NoStrategy}
      BY <3>1 DEF SlForm, SomeStrategy
    <3> QED BY <2>6, <3>1, <3>2 DEF FillForm, LiveDeskInv, LiveDeskTypeOK, FormOfSelected
  <2>7. ASSUME CancelDialog PROVE LiveDeskInv'
    <3>1. slCalls' \subseteq SlCalls
      BY <2>7, DetachedTyped DEF CancelDialog, Closed, LiveDeskInv, LiveDeskTypeOK
    <3> QED BY <2>7, <3>1, BlankTyped DEF CancelDialog, Closed, LiveDeskInv,
               LiveDeskTypeOK, FormOfSelected, BlankForm
  <2>8. ASSUME NEW op \in {"arm", "disarm"}, slOpen, SendsSl(op) PROVE LiveDeskInv'
    <3>1. selectedId \in Strategies /\ form \in SlForm /\ slSent \in Nat
      BY <2>8 DEF LiveDeskInv, LiveDeskTypeOK, FormOfSelected
    <3>2. form.typed \in SomeStrategy /\ form.understood \in SomeStrategy
      BY <3>1 DEF SlForm
    <3>3. [id |-> slSent + 1, op |-> op, on |-> selectedId,
           threshold |-> form.typed, understood |-> form.understood,
           stage |-> "sent", inDialog |-> TRUE, onPage |-> TRUE] \in SlCalls
      BY <3>1, <3>2 DEF SlCalls
    <3>4. slCalls' \subseteq SlCalls
      BY <2>8, <3>3 DEF SendsSl, LiveDeskInv, LiveDeskTypeOK
    <3>5. slSent' \in 0..MaxSlCalls
      BY <2>8 DEF SendsSl, LiveDeskInv, LiveDeskTypeOK
    <3> QED BY <2>8, <3>4, <3>5 DEF SendsSl, LiveDeskInv, LiveDeskTypeOK, FormOfSelected
  <2>9. ASSUME ShownUpdates PROVE LiveDeskInv'
    BY <2>9 DEF ShownUpdates, LiveDeskInv, LiveDeskTypeOK, FormOfSelected
  <2>10. ASSUME NEW c \in slCalls, NEW st \in {"sent", "ok", "failed", "done"},
                slCalls' = Stage(c, st), UNCHANGED <<Untouched, slShown, slSent>>,
                slServer' \in [Strategies -> SlStates], slFaults' \in 0..MaxSlFaults
         PROVE  LiveDeskInv'
    <3>1. slCalls' \subseteq SlCalls
      BY <2>10, StagedTyped DEF LiveDeskInv, LiveDeskTypeOK
    <3> QED BY <2>10, <3>1 DEF Untouched, LiveDeskInv, LiveDeskTypeOK, FormOfSelected
  <2>11. ASSUME NEW c \in slCalls, ServerObeys(c) PROVE LiveDeskInv'
    <3>1. slServer' \in [Strategies -> SlStates]
      BY <2>11 DEF ServerObeys, LiveDeskInv, LiveDeskTypeOK, SlStates
    <3>2. slFaults' \in 0..MaxSlFaults
      BY <2>11 DEF ServerObeys, LiveDeskInv, LiveDeskTypeOK
    <3> QED BY <2>10, <2>11, <3>1, <3>2 DEF ServerObeys, Untouched
  <2>12. ASSUME NEW c \in slCalls, NotArmed(c) \/ ServerRefuses(c) \/ ListRefetched(c)
         PROVE  LiveDeskInv'
    <3>1. slFaults' \in 0..MaxSlFaults /\ slServer' \in [Strategies -> SlStates]
      BY <2>12 DEF NotArmed, ServerRefuses, ListRefetched, LiveDeskInv, LiveDeskTypeOK
    <3> QED BY <2>10, <2>12, <3>1 DEF NotArmed, ServerRefuses, ListRefetched, Untouched
  <2>13. ASSUME NEW c \in slCalls, CallSucceeds(c) PROVE LiveDeskInv'
    <3>1. slCalls' \subseteq SlCalls
      BY <2>13, DetachedTyped DEF CallSucceeds, Closed, LiveDeskInv, LiveDeskTypeOK
    <3>2. CASE c.onPage
      <4>1. slOpen' = FALSE /\ form' = BlankForm /\ busy' = FALSE
        BY <2>13, <3>2 DEF CallSucceeds, Closed
      <4>2. FormOfSelected'
        BY <4>1 DEF FormOfSelected, BlankForm
      <4> QED BY <2>13, <3>1, <4>1, <4>2, BlankTyped
              DEF CallSucceeds, LiveDeskInv, LiveDeskTypeOK
    <3>3. CASE ~c.onPage
      BY <2>13, <3>1, <3>3 DEF CallSucceeds, LiveDeskInv, LiveDeskTypeOK, FormOfSelected
    <3> QED BY <3>2, <3>3
  <2>14. ASSUME NEW c \in slCalls, CallFails(c) PROVE LiveDeskInv'
    <3>1. busy' \in BOOLEAN /\ slCalls' \subseteq SlCalls
      BY <2>14 DEF CallFails, NotBusy, LiveDeskInv, LiveDeskTypeOK
    <3> QED BY <2>14, <3>1 DEF CallFails, LiveDeskInv, LiveDeskTypeOK, FormOfSelected
  <2>15. CASE UNCHANGED liveDeskVars
    BY <2>15 DEF liveDeskVars, LiveDeskInv, LiveDeskTypeOK, FormOfSelected
  <2> QED BY <2>1, <2>2, <2>3, <2>4, <2>5, <2>6, <2>7, <2>8, <2>9, <2>11, <2>12, <2>13,
             <2>14, <2>15 DEF LiveDeskNext, OnArm, OnDisarm
<1> QED BY <1>1, <1>2, PTL DEF LiveDeskSpec

-----------------------------------------------------------------------------
(* A stop-loss is armed with the consent and the threshold given in a      *)
(* dialog of that very strategy (StopLossDialog.tsx:24-29, 51, 77-84).     *)
THEOREM ArmedByItsOwnDialog == LiveDeskSpec => []ConsentIsForThisStrategy
<1>1. LiveDeskInit => ConsentIsForThisStrategy
  BY DEF LiveDeskInit, ConsentIsForThisStrategy
<1>2. LiveDeskInv /\ ConsentIsForThisStrategy /\ [LiveDeskNext]_liveDeskVars
        => ConsentIsForThisStrategy'
  <2> SUFFICES ASSUME LiveDeskInv, ConsentIsForThisStrategy, [LiveDeskNext]_liveDeskVars
               PROVE  ConsentIsForThisStrategy'
    OBVIOUS
  <2>1. ASSUME slCalls' \subseteq slCalls PROVE ConsentIsForThisStrategy'
    BY <2>1 DEF ConsentIsForThisStrategy
  <2>2. ASSUME NEW inFlight \in SUBSET slCalls,
               \/ slCalls' = {[c EXCEPT !.inDialog = FALSE] : c \in inFlight}
               \/ slCalls' = {[c EXCEPT !.inDialog = FALSE, !.onPage = FALSE] : c \in inFlight}
        PROVE  ConsentIsForThisStrategy'
    <3> SUFFICES ASSUME NEW d \in slCalls', d.op = "arm"
                 PROVE  d.understood = d.on /\ d.threshold = d.on
      BY DEF ConsentIsForThisStrategy
    <3>1. PICK c \in inFlight : \/ d = [c EXCEPT !.inDialog = FALSE]
                             \/ d = [c EXCEPT !.inDialog = FALSE, !.onPage = FALSE]
      BY <2>2
    <3>2. c \in slCalls /\ c \in SlCalls
      BY DEF LiveDeskInv, LiveDeskTypeOK
    <3>3. /\ d.op = c.op /\ d.on = c.on
          /\ d.understood = c.understood /\ d.threshold = c.threshold
      BY <3>1, <3>2 DEF SlCalls
    <3> QED BY <3>2, <3>3 DEF ConsentIsForThisStrategy
  <2>3. ASSUME NEW c \in slCalls, NEW st, slCalls' = Stage(c, st)
        PROVE  ConsentIsForThisStrategy'
    <3>1. c \in SlCalls
      BY DEF LiveDeskInv, LiveDeskTypeOK
    <3>2. LET d == [c EXCEPT !.stage = st]
          IN  /\ d.op = c.op /\ d.on = c.on
              /\ d.understood = c.understood /\ d.threshold = c.threshold
      BY <3>1 DEF SlCalls
    <3> QED BY <2>3, <3>2 DEF Stage, ConsentIsForThisStrategy
  <2>4. ASSUME NEW s \in Strategies, SelectStrategy(s) \/ StopTriggers(s)
        PROVE  ConsentIsForThisStrategy'
    BY <2>1, <2>4 DEF SelectStrategy, StopTriggers
  <2>5. ASSUME ConfigurationChanges \/ LeavePage PROVE ConsentIsForThisStrategy'
    BY <2>2, <2>5 DEF ConfigurationChanges, LeavePage
  <2>6. ASSUME OpenDialog \/ FillForm \/ ShownUpdates PROVE ConsentIsForThisStrategy'
    BY <2>1, <2>6 DEF OpenDialog, FillForm, ShownUpdates
  <2>7. ASSUME CancelDialog PROVE ConsentIsForThisStrategy'
    BY <2>2, <2>7 DEF CancelDialog, Closed
  <2>8. ASSUME OnArm PROVE ConsentIsForThisStrategy'
    <3>1. form.typed = selectedId /\ form.understood = selectedId
      BY <2>8 DEF OnArm, CanConfirm, LiveDeskInv, FormOfSelected
    <3> QED BY <2>8, <3>1 DEF OnArm, SendsSl, ConsentIsForThisStrategy
  <2>9. ASSUME OnDisarm PROVE ConsentIsForThisStrategy'
    BY <2>9 DEF OnDisarm, SendsSl, ConsentIsForThisStrategy
  <2>10. ASSUME NEW c \in slCalls,
                ServerObeys(c) \/ NotArmed(c) \/ ServerRefuses(c) \/ ListRefetched(c)
         PROVE  ConsentIsForThisStrategy'
    BY <2>3, <2>10 DEF ServerObeys, NotArmed, ServerRefuses, ListRefetched
  <2>11. ASSUME NEW c \in slCalls, CallSucceeds(c) PROVE ConsentIsForThisStrategy'
    BY <2>1, <2>2, <2>11 DEF CallSucceeds, Closed
  <2>12. ASSUME NEW c \in slCalls, CallFails(c) PROVE ConsentIsForThisStrategy'
    BY <2>1, <2>12 DEF CallFails
  <2>13. CASE UNCHANGED liveDeskVars
    BY <2>1, <2>13 DEF liveDeskVars
  <2> QED BY <2>4, <2>5, <2>6, <2>7, <2>8, <2>9, <2>10, <2>11, <2>12, <2>13
          DEF LiveDeskNext
<1> QED BY <1>1, <1>2, LiveDeskTypeCorrect, PTL DEF LiveDeskSpec

-----------------------------------------------------------------------------
(* The buttons of the dialog are blocked exactly while its one request is  *)
(* under way (StopLossDialog.tsx:51, 77-112, 214-236).                     *)
THEOREM BlockedWhileSending == LiveDeskSpec => []BusyWhileAwaiting
<1>1. LiveDeskInit => OneRequest
  BY DEF LiveDeskInit, OneRequest
<1>2. LiveDeskInv /\ OneRequest /\ [LiveDeskNext]_liveDeskVars => OneRequest'
  <2> SUFFICES ASSUME LiveDeskInv, OneRequest, [LiveDeskNext]_liveDeskVars
               PROVE  OneRequest'
    OBVIOUS
  <2> USE DEF OneRequest
  <2>0. slCalls \subseteq SlCalls /\ busy \in BOOLEAN
    BY DEF LiveDeskInv, LiveDeskTypeOK
  <2>1. ASSUME slCalls' = slCalls, busy' = busy PROVE OneRequest'
    BY <2>1
  <2>2. ASSUME NEW inFlight \in SUBSET slCalls, busy' = FALSE,
               \/ slCalls' = {[c EXCEPT !.inDialog = FALSE] : c \in inFlight}
               \/ slCalls' = {[c EXCEPT !.inDialog = FALSE, !.onPage = FALSE] : c \in inFlight}
        PROVE  OneRequest'
    <3>1. ASSUME NEW c \in inFlight
          PROVE  /\ [c EXCEPT !.inDialog = FALSE].inDialog = FALSE
                 /\ [c EXCEPT !.inDialog = FALSE, !.onPage = FALSE].inDialog = FALSE
      <4>1. c \in SlCalls
        BY <2>0
      <4> QED BY <4>1 DEF SlCalls
    <3>2. \A d \in slCalls' : d.inDialog = FALSE
      <4>1. CASE slCalls' = {[c EXCEPT !.inDialog = FALSE] : c \in inFlight}
        BY <3>1, <4>1
      <4>2. CASE slCalls' = {[c EXCEPT !.inDialog = FALSE, !.onPage = FALSE] : c \in inFlight}
        BY <3>1, <4>2
      <4> QED BY <2>2, <4>1, <4>2
    <3> QED BY <2>2, <3>2
  <2>3. ASSUME NEW c \in slCalls, NEW st, slCalls' = Stage(c, st), busy' = busy
        PROVE  OneRequest'
    <3> DEFINE d == [c EXCEPT !.stage = st]
    <3>1. d.inDialog = c.inDialog /\ d.onPage = c.onPage
      BY <2>0 DEF SlCalls
    <3>2. slCalls' = (slCalls \ {c}) \cup {d}
      BY <2>3 DEF Stage
    <3> HIDE DEF d
    <3> QED BY <2>3, <3>1, <3>2
  <2>4. ASSUME NEW s \in Strategies, SelectStrategy(s) \/ StopTriggers(s)
        PROVE  OneRequest'
    BY <2>1, <2>4 DEF SelectStrategy, StopTriggers
  <2>5. ASSUME ConfigurationChanges \/ LeavePage PROVE OneRequest'
    BY <2>2, <2>5 DEF ConfigurationChanges, LeavePage
  <2>6. ASSUME OpenDialog \/ FillForm \/ ShownUpdates PROVE OneRequest'
    BY <2>1, <2>6 DEF OpenDialog, FillForm, ShownUpdates
  <2>7. ASSUME CancelDialog PROVE OneRequest'
    BY <2>2, <2>7 DEF CancelDialog, Closed
  <2>8. ASSUME OnArm \/ OnDisarm PROVE OneRequest'
    <3>1. ~busy /\ busy' = TRUE
      BY <2>8 DEF OnArm, OnDisarm, CanConfirm, SendsSl
    <3>2. PICK op \in {"arm", "disarm"} : SendsSl(op)
      BY <2>8 DEF OnArm, OnDisarm
    <3> DEFINE r == [id |-> slSent + 1, op |-> op, on |-> selectedId,
                     threshold |-> form.typed, understood |-> form.understood,
                     stage |-> "sent", inDialog |-> TRUE, onPage |-> TRUE]
    <3>3. slCalls' = slCalls \cup {r}
      BY <3>2 DEF SendsSl
    <3>4. r.inDialog = TRUE /\ r.onPage = TRUE
      OBVIOUS
    <3> HIDE DEF r
    <3> QED BY <3>1, <3>3, <3>4
  <2>9. ASSUME NEW c \in slCalls,
               ServerObeys(c) \/ NotArmed(c) \/ ServerRefuses(c) \/ ListRefetched(c)
        PROVE  OneRequest'
    BY <2>3, <2>9 DEF ServerObeys, NotArmed, ServerRefuses, ListRefetched
  <2>10. ASSUME NEW c \in slCalls, CallSucceeds(c) PROVE OneRequest'
    <3>1. CASE c.onPage
      BY <2>2, <2>10, <3>1 DEF CallSucceeds, Closed
    <3>2. CASE ~c.onPage
      <4>1. ~c.inDialog /\ slCalls' = slCalls \ {c} /\ busy' = busy
        BY <2>10, <3>2 DEF CallSucceeds
      <4> QED BY <4>1
    <3> QED BY <3>1, <3>2
  <2>11. ASSUME NEW c \in slCalls, CallFails(c) PROVE OneRequest'
    <3>1. slCalls' = slCalls \ {c} /\ busy' = IF c.inDialog THEN FALSE ELSE busy
      BY <2>11 DEF CallFails, NotBusy
    <3> QED BY <2>0, <3>1
  <2>12. CASE UNCHANGED liveDeskVars
    BY <2>1, <2>12 DEF liveDeskVars
  <2> QED BY <2>4, <2>5, <2>6, <2>7, <2>8, <2>9, <2>10, <2>11, <2>12 DEF LiveDeskNext
<1>3. LiveDeskInv /\ OneRequest => BusyWhileAwaiting
  <2> SUFFICES ASSUME LiveDeskInv, OneRequest PROVE BusyWhileAwaiting
    OBVIOUS
  <2> DEFINE mine == {c \in slCalls : c.inDialog}
  <2>1. busy = (mine # {})
    BY DEF OneRequest, LiveDeskInv, LiveDeskTypeOK
  <2>2. Cardinality(mine) <= 1
    <3>1. CASE mine = {}
      BY <3>1, FS_EmptySet
    <3>2. CASE mine # {}
      <4>1. PICK c \in mine : mine = {c}
        BY <3>2 DEF OneRequest
      <4>2. Cardinality({c}) = 1
        BY FS_Singleton
      <4> QED BY <4>1, <4>2
    <3> QED BY <3>1, <3>2
  <2> QED BY <2>1, <2>2 DEF BusyWhileAwaiting
<1> QED BY <1>1, <1>2, <1>3, LiveDeskTypeCorrect, PTL DEF LiveDeskSpec

-----------------------------------------------------------------------------
(* The grouping form *)

(* The form and the transaction keep their types                           *)
(* (StrategyGrouper.tsx:20-66, strategy_grouper.py:19-31).                 *)
THEOREM GroupsTypeCorrect == GroupsSpec => []GroupsTypeOK
<1> USE GroupBounds
<1>1. GroupsInit => GroupsTypeOK
  <2> SUFFICES ASSUME GroupsInit PROVE GroupsTypeOK
    OBVIOUS
  <2>1. groups \in Seq(SUBSET Symbols)
    BY DEF GroupsInit
  <2>2. created \in 0..MaxCreates /\ groupFaults \in 0..MaxGroupFaults
    BY DEF GroupsInit
  <2> QED BY <2>1, <2>2 DEF GroupsInit, GroupsTypeOK
<1>2. GroupsTypeOK /\ [GroupsNext]_groupVars => GroupsTypeOK'
  <2> SUFFICES ASSUME GroupsTypeOK, [GroupsNext]_groupVars
               PROVE  GroupsTypeOK'
    OBVIOUS
  <2>1. ASSUME NEW s \in Symbols, PositionsChange(s) \/ TogglePicked(s)
        PROVE  GroupsTypeOK'
    BY <2>1 DEF PositionsChange, TogglePicked, GroupsTypeOK
  <2>2. ASSUME TypeName PROVE GroupsTypeOK'
    BY <2>2 DEF TypeName, GroupsTypeOK
  <2>3. ASSUME OnCreate PROVE GroupsTypeOK'
    <3>1. [id |-> created + 1, symbols |-> picked, stage |-> "sent", mounted |-> TRUE]
            \in Creates
      BY DEF Creates, GroupsTypeOK
    <3>2. creates' \subseteq Creates
      BY <2>3, <3>1 DEF OnCreate, GroupsTypeOK
    <3>3. created' \in 0..MaxCreates
      BY <2>3 DEF OnCreate, GroupsTypeOK
    <3> QED BY <2>3, <3>2, <3>3 DEF OnCreate, GroupsTypeOK
  <2>4. ASSUME Remount PROVE GroupsTypeOK'
    <3>1. \A c \in creates : [c EXCEPT !.mounted = FALSE] \in Creates
      BY DEF GroupsTypeOK, Creates
    <3> QED BY <2>4, <3>1 DEF Remount, GroupsTypeOK
  <2>5. ASSUME NEW c \in creates, NEW st \in {"ok", "failed"}
        PROVE  Answered(c, st) \subseteq Creates
    <3>1. c \in Creates /\ [c EXCEPT !.stage = st] \in Creates
      BY DEF GroupsTypeOK, Creates
    <3> QED BY <3>1 DEF Answered, GroupsTypeOK
  <2>6. ASSUME NEW c \in creates, StrategyCreated(c) PROVE GroupsTypeOK'
    <3>1. c.symbols \in SUBSET Symbols
      BY DEF GroupsTypeOK, Creates
    <3>2. groups' \in Seq(SUBSET Symbols)
      BY <2>6, <3>1 DEF StrategyCreated, GroupsTypeOK
    <3>3. creates' \subseteq Creates /\ groupFaults' \in 0..MaxGroupFaults
      BY <2>5, <2>6 DEF StrategyCreated, GroupsTypeOK
    <3> QED BY <2>6, <3>2, <3>3 DEF StrategyCreated, GroupsTypeOK
  <2>7. ASSUME NEW c \in creates, AlreadyTagged(c) \/ NotCreated(c) PROVE GroupsTypeOK'
    <3>1. creates' \subseteq Creates /\ groupFaults' \in 0..MaxGroupFaults
      BY <2>5, <2>7 DEF AlreadyTagged, NotCreated, GroupsTypeOK
    <3> QED BY <2>7, <3>1 DEF AlreadyTagged, NotCreated, GroupsTypeOK
  <2>8. ASSUME NEW c \in creates, CreateEnds(c) PROVE GroupsTypeOK'
    BY <2>8 DEF CreateEnds, GroupsTypeOK
  <2>9. CASE UNCHANGED groupVars
    BY <2>9 DEF groupVars, GroupsTypeOK
  <2> QED BY <2>1, <2>2, <2>3, <2>4, <2>6, <2>7, <2>8, <2>9 DEF GroupsNext
<1> QED BY <1>1, <1>2, PTL DEF GroupsSpec

(* No symbol is in two strategies, whatever the form sends again after a   *)
(* lost answer (StrategyGrouper.tsx:17-18, strategy_grouper.py:19-31).     *)
THEOREM GroupsAreDisjoint == GroupsSpec => []SymbolInOneStrategy
<1>1. GroupsInit => SymbolInOneStrategy
  BY DEF GroupsInit, SymbolInOneStrategy
<1>2. GroupsTypeOK /\ SymbolInOneStrategy /\ [GroupsNext]_groupVars => SymbolInOneStrategy'
  <2> SUFFICES ASSUME GroupsTypeOK, SymbolInOneStrategy, [GroupsNext]_groupVars
               PROVE  SymbolInOneStrategy'
    OBVIOUS
  <2>1. ASSUME UNCHANGED groups PROVE SymbolInOneStrategy'
    BY <2>1 DEF SymbolInOneStrategy
  <2>2. ASSUME NEW c \in creates, StrategyCreated(c) PROVE SymbolInOneStrategy'
    <3>1. groups \in Seq(SUBSET Symbols) /\ groups' = Append(groups, c.symbols)
          /\ Untagged(c.symbols)
      BY <2>2 DEF StrategyCreated, GroupsTypeOK
    <3>2. /\ DOMAIN groups' = DOMAIN groups \cup {Len(groups) + 1}
          /\ groups'[Len(groups) + 1] = c.symbols
          /\ \A i \in DOMAIN groups : groups'[i] = groups[i]
      BY <3>1
    <3> QED BY <3>1, <3>2 DEF SymbolInOneStrategy, Untagged
  <2> QED BY <2>1, <2>2 DEF GroupsNext, PositionsChange, TogglePicked, TypeName, OnCreate,
             Remount, AlreadyTagged, NotCreated, CreateEnds, groupVars
<1> QED BY <1>1, <1>2, GroupsTypeCorrect, PTL DEF GroupsSpec

-----------------------------------------------------------------------------
(* The curve of the profit and loss (PnlCurve) *)

(* Nothing on the curve is from the future.                                *)
CurveUntilNow ==
  /\ clock \in Nat /\ \A i \in DOMAIN curve : curve[i].at \in Nat
  /\ curve \in Seq([at : Nat, pnl : Pnls])
  /\ \A i \in DOMAIN curve : curve[i].at <= clock

(* A point of the present goes behind what is there, and what the cap      *)
(* drops is at the front (PaperPositionDetail.tsx:87-91).                  *)
LEMMA AppendedInOrder ==
  ASSUME CurveUntilNow, CurveInOrder, NEW v \in Pnls
  PROVE  LET ahead == Appended([at |-> clock, pnl |-> v])
         IN  /\ ahead \in Seq([at : Nat, pnl : Pnls])
             /\ \A i \in DOMAIN ahead : ahead[i].at \in Nat /\ ahead[i].at <= clock
             /\ \A i, j \in DOMAIN ahead : i < j => ahead[i].at <= ahead[j].at
<1> DEFINE Point == [at : Nat, pnl : Pnls]
           Good(s) == /\ s \in Seq(Point)
                      /\ \A i \in DOMAIN s : s[i].at \in Nat /\ s[i].at <= clock
                      /\ \A i, j \in DOMAIN s : i < j => s[i].at <= s[j].at
<1>1. PICK p : p = [at |-> clock, pnl |-> v]
  OBVIOUS
<1>2. p \in Point /\ p.at = clock
  BY <1>1 DEF CurveUntilNow
<1>3. PICK next : next = Append(curve, p)
  OBVIOUS
<1>4. /\ next \in Seq(Point) /\ Len(next) = Len(curve) + 1 /\ Len(curve) \in Nat
      /\ next[Len(curve) + 1] = p /\ \A i \in 1..Len(curve) : next[i] = curve[i]
      /\ DOMAIN curve = 1..Len(curve) /\ DOMAIN next = 1..Len(next)
  BY <1>2, <1>3 DEF CurveUntilNow
<1>5. ASSUME NEW i \in 1..Len(next)
      PROVE  next[i].at \in Nat /\ next[i].at <= clock
  <2>1. CASE i = Len(curve) + 1
    BY <1>2, <1>4, <2>1 DEF CurveUntilNow
  <2>2. CASE i \in 1..Len(curve)
    <3> HIDE DEF Point
    <3>1. next[i] = curve[i] /\ i \in DOMAIN curve
      BY <1>4, <2>2
    <3>2. curve[i].at \in Nat /\ curve[i].at <= clock
      BY <3>1 DEF CurveUntilNow
    <3> QED BY <3>1, <3>2
  <2> QED BY <1>4, <2>1, <2>2
<1>6. ASSUME NEW i \in 1..Len(next), NEW j \in 1..Len(next), i < j
      PROVE  next[i].at <= next[j].at
  <2> HIDE DEF Point
  <2>1. i \in 1..Len(curve)
    BY <1>4, <1>6
  <2>2. CASE j = Len(curve) + 1
    BY <1>2, <1>4, <1>5, <2>2
  <2>3. CASE j \in 1..Len(curve)
    <3>1. /\ next[i] = curve[i] /\ i \in DOMAIN curve
          /\ next[j] = curve[j] /\ j \in DOMAIN curve
      BY <1>4, <2>1, <2>3
    <3>2. curve[i].at <= curve[j].at
      BY <1>6, <3>1 DEF CurveInOrder
    <3> QED BY <3>1, <3>2
  <2> QED BY <1>4, <2>2, <2>3
<1>7. PICK ahead : ahead = Appended([at |-> clock, pnl |-> v])
  OBVIOUS
<1>8. ASSUME Len(next) <= CurveCap
      PROVE  Good(ahead)
  <2>1. ahead = next
    BY <1>1, <1>3, <1>4, <1>7, <1>8, CurveBounds DEF Appended
  <2>2. Good(next)
    <3> HIDE DEF Point
    <3> QED BY <1>4, <1>5, <1>6
  <2> QED BY <2>1, <2>2
<1>9. ASSUME Len(next) > CurveCap
      PROVE  Good(ahead)
  <2>1. PICK k : k = Len(next) - CurveCap
    OBVIOUS
  <2>2. k \in Nat /\ k + CurveCap = Len(next) /\ CurveCap \in Nat
    BY <1>4, <1>9, <2>1, CurveBounds
  <2>3. ahead = SubSeq(next, k + 1, Len(next))
    BY <1>1, <1>3, <1>7, <1>9, <2>1 DEF Appended
  <2>4. DOMAIN ahead = 1..CurveCap /\ \A i \in 1..CurveCap : ahead[i] = next[i + k]
    <3> HIDE DEF Point
    <3> QED BY <1>4, <2>2, <2>3
  <2>5. ahead \in Seq(Point)
    <3> HIDE DEF Point
    <3> QED BY <1>4, <2>2, <2>3
  <2>6. \A i \in 1..CurveCap : i + k \in 1..Len(next)
    BY <2>2
  <2>7. \A i \in DOMAIN ahead : ahead[i].at \in Nat /\ ahead[i].at <= clock
    BY <1>5, <2>4, <2>6
  <2>8. ASSUME NEW i \in DOMAIN ahead, NEW j \in DOMAIN ahead, i < j
        PROVE  ahead[i].at <= ahead[j].at
    <3>1. i + k < j + k /\ i + k \in 1..Len(next) /\ j + k \in 1..Len(next)
      BY <2>2, <2>4, <2>6, <2>8
    <3> QED BY <1>6, <2>4, <3>1
  <2>9. \A i, j \in DOMAIN ahead : i < j => ahead[i].at <= ahead[j].at
    BY <2>8
  <2> HIDE DEF Point
  <2> QED BY <2>5, <2>7, <2>9
<1>10. Good(ahead)
  <2> HIDE DEF Good
  <2>1. Len(next) \in Nat /\ CurveCap \in Nat
    BY <1>4, CurveBounds
  <2> QED BY <1>8, <1>9, <2>1
<1> QED BY <1>7, <1>10

(* However the history, the samples and the selections interleave, the     *)
(* curve is in the order of time (PaperPositionDetail.tsx:64-92).          *)
THEOREM CurveInOrderInv == CurveSpec => [](CurveUntilNow /\ CurveInOrder)
<1>1. CurveInit => CurveUntilNow /\ CurveInOrder
  BY DEF CurveInit, CurveUntilNow, CurveInOrder
<1>2. CurveUntilNow /\ CurveInOrder /\ [CurveNext]_curveVars
        => (CurveUntilNow /\ CurveInOrder)'
  <2> SUFFICES ASSUME CurveUntilNow, CurveInOrder, [CurveNext]_curveVars
               PROVE  (CurveUntilNow /\ CurveInOrder)'
    OBVIOUS
  <2>1. ASSUME curve' = curve \/ curve' = <<>>, clock' = clock \/ clock' = clock + 1
        PROVE  (CurveUntilNow /\ CurveInOrder)'
    <3>1. CASE curve' = <<>>
      BY <2>1, <3>1 DEF CurveUntilNow, CurveInOrder
    <3>2. CASE curve' = curve
      <4>1. clock' \in Nat /\ clock <= clock'
        BY <2>1 DEF CurveUntilNow
      <4>2. \A i \in DOMAIN curve : curve[i].at \in Nat /\ curve[i].at <= clock'
        BY <4>1 DEF CurveUntilNow
      <4> QED BY <3>2, <4>1, <4>2 DEF CurveUntilNow, CurveInOrder
    <3> QED BY <2>1, <3>1, <3>2
  <2>2. ASSUME NEW s \in Selectable, SelectRow(s) PROVE (CurveUntilNow /\ CurveInOrder)'
    BY <2>1, <2>2 DEF SelectRow
  <2>3. ASSUME SelectionGone \/ ClockTicks PROVE (CurveUntilNow /\ CurveInOrder)'
    BY <2>1, <2>3 DEF SelectionGone, ClockTicks
  <2>4. ASSUME HistoryArrives PROVE (CurveUntilNow /\ CurveInOrder)'
    <3>1. PICK h \in Histories : curve' = h /\ clock' = clock
      BY <2>4 DEF HistoryArrives, Seeded
    <3>2. PICK n \in Nat : h \in [1..n -> Points]
      BY CurveBounds DEF Histories
    <3>3. h \in Seq([at : Nat, pnl : Pnls]) /\ DOMAIN h = 1..n
      <4> DEFINE Point == [at : Nat, pnl : Pnls]
      <4>1. Points \subseteq Point
        BY CurveBounds DEF Points
      <4>2. h \in [1..n -> Point]
        BY <3>2, <4>1
      <4> HIDE DEF Point
      <4>3. h \in Seq(Point) /\ DOMAIN h = 1..n
        BY <4>2
      <4> QED BY <4>3 DEF Point
    <3>4. /\ \A i \in DOMAIN h : h[i].at <= clock /\ h[i].at \in Nat
          /\ \A i, j \in DOMAIN h : i < j => h[i].at < h[j].at
      BY <3>2, CurveBounds DEF Histories, Points
    <3> QED BY <3>1, <3>3, <3>4 DEF CurveUntilNow, CurveInOrder
  <2>5. ASSUME NEW v \in Pnls, LiveSample(v) \/ PaperSample(v)
        PROVE  (CurveUntilNow /\ CurveInOrder)'
    <3>1. curve' = Appended([at |-> clock, pnl |-> v]) /\ clock' = clock
      BY <2>5 DEF LiveSample, PaperSample
    <3> QED BY <3>1, AppendedInOrder DEF CurveUntilNow, CurveInOrder
  <2>6. CASE UNCHANGED curveVars
    BY <2>1, <2>6 DEF curveVars
  <2> QED BY <2>2, <2>3, <2>4, <2>5, <2>6 DEF CurveNext
<1> QED BY <1>1, <1>2, PTL DEF CurveSpec

(* The points of a curve go forward in time, which is how the axis of the  *)
(* chart takes them (PaperPositionDetail.tsx:64-92).                       *)
THEOREM CurveStaysInOrder == CurveSpec => []CurveInOrder
<1> QED BY CurveInOrderInv, PTL

(* The values of the curve are a finite set of integers, so its extent, and *)
(* the extent with zero, have ends.                                        *)
LEMMA ExtentHasEnds ==
  ASSUME NEW points \in Seq([at : Nat, pnl : Pnls]), PnlOf(points) # {}
  PROVE  LET values == PnlOf(points)
             top == CHOOSE w \in values : \A u \in values : u <= w
             bottom == CHOOSE w \in values : \A u \in values : w <= u
         IN  /\ values \subseteq Int
             /\ top \in values /\ \A u \in values : u <= top
             /\ bottom \in values /\ \A u \in values : bottom <= u
             /\ Highest(points) = IF top > 0 THEN top ELSE 0
             /\ Lowest(points) = IF bottom < 0 THEN bottom ELSE 0
<1> DEFINE values == PnlOf(points)
           top == CHOOSE w \in values : \A u \in values : u <= w
           bottom == CHOOSE w \in values : \A u \in values : w <= u
<1>1. \A i \in DOMAIN points : points[i].pnl \in Pnls
  <2> DEFINE Point == [at : Nat, pnl : Pnls]
  <2>1. \A point \in Point : point.pnl \in Pnls
    OBVIOUS
  <2>2. points \in Seq(Point)
    OBVIOUS
  <2> HIDE DEF Point
  <2>3. \A i \in DOMAIN points : points[i] \in Point
    BY <2>2
  <2> QED BY <2>1, <2>3
<1>2. values \subseteq Int
  BY <1>1, CurveBounds DEF PnlOf
<1>3. IsFiniteSet(values)
  <2> DEFINE f == [i \in 1..Len(points) |-> points[i].pnl]
  <2>1. {f[i] : i \in 1..Len(points)} = values
    BY DEF PnlOf
  <2>2. f = [i \in 1..Len(points) |-> f[i]] /\ Len(points) \in Nat
    OBVIOUS
  <2> HIDE DEF f, values
  <2> QED BY <2>1, <2>2, ValuesFinite
<1>4. /\ \E w \in values : \A u \in values : u <= w
      /\ \E w \in values : \A u \in values : w <= u
  <2> HIDE DEF values
  <2>1. values # {}
    BY DEF values
  <2> QED BY <1>2, <1>3, <2>1, Extremes
<1>5. /\ top \in values /\ \A u \in values : u <= top
      /\ bottom \in values /\ \A u \in values : bottom <= u
  <2> HIDE DEF values
  <2> QED BY <1>4
<1>6. Highest(points) = IF top > 0 THEN top ELSE 0
  <2> DEFINE high == IF top > 0 THEN top ELSE 0
  <2> HIDE DEF values, top, bottom
  <2>1. high \in values \cup {0} /\ \A w \in values \cup {0} : w <= high
    BY <1>2, <1>5
  <2> HIDE DEF high
  <2>2. ASSUME NEW v \in values \cup {0}, \A w \in values \cup {0} : w <= v
        PROVE  v = high
    <3>1. v \in Int /\ high \in Int /\ v <= high /\ high <= v
      BY <1>2, <2>1, <2>2
    <3> QED BY <3>1
  <2>3. high = CHOOSE v \in values \cup {0} : \A w \in values \cup {0} : w <= v
    BY <2>1, <2>2
  <2> QED BY <2>3 DEF Highest, values, high
<1>7. Lowest(points) = IF bottom < 0 THEN bottom ELSE 0
  <2> DEFINE low == IF bottom < 0 THEN bottom ELSE 0
  <2> HIDE DEF values, top, bottom
  <2>1. low \in values \cup {0} /\ \A w \in values \cup {0} : low <= w
    BY <1>2, <1>5
  <2> HIDE DEF low
  <2>2. ASSUME NEW v \in values \cup {0}, \A w \in values \cup {0} : v <= w
        PROVE  v = low
    <3>1. v \in Int /\ low \in Int /\ v <= low /\ low <= v
      BY <1>2, <2>1, <2>2
    <3> QED BY <3>1
  <2>3. low = CHOOSE v \in values \cup {0} : \A w \in values \cup {0} : v <= w
    BY <2>1, <2>2
  <2> QED BY <2>3 DEF Lowest, values, low
<1> HIDE DEF values, top, bottom
<1> QED BY <1>2, <1>5, <1>6, <1>7 DEF values, top, bottom

LEMMA LargerProduct ==
  ASSUME NEW a \in Int, NEW b \in Int, NEW n \in Int, n > 0, a < b
  PROVE  a * n < n * b
<1>1. (b - a) * n > 0
  OBVIOUS
<1> QED BY <1>1

(* Above its lowest value a curve is green where it is in profit, and red  *)
(* where it is not, whatever its extent: zero is a fraction of the extent  *)
(* with zero, and the two extents differ only for a curve that has no      *)
(* value on one side (PaperPositionDetail.tsx:227-259).                    *)
LEMMA GreenAboveZero ==
  ASSUME NEW points \in Seq([at : Nat, pnl : Pnls]), NEW v \in Pnls,
         NEW a \in PnlOf(points), NEW b \in PnlOf(points), a <= v, v <= b, a < b
  PROVE  /\ v > 0 /\ (\E u \in PnlOf(points) : u < v) => DrawnGreen(points, v)
         /\ v < 0 => ~DrawnGreen(points, v)
<1> DEFINE values == PnlOf(points)
           top == CHOOSE w \in values : \A u \in values : u <= w
           bottom == CHOOSE w \in values : \A u \in values : w <= u
           high == Highest(points)
           low == Lowest(points)
<1>1. /\ values \subseteq Int
      /\ top \in values /\ \A u \in values : u <= top
      /\ bottom \in values /\ \A u \in values : bottom <= u
      /\ high = IF top > 0 THEN top ELSE 0
      /\ low = IF bottom < 0 THEN bottom ELSE 0
  BY ExtentHasEnds
<1>2. DrawnGreen(points, v) <=>
        (top - v) * ZeroOffset(points)[2] < ZeroOffset(points)[1] * (top - bottom)
  BY DEF DrawnGreen
<1> HIDE DEF values, top, bottom, high, low
<1>3. /\ v \in Int /\ top \in Int /\ bottom \in Int /\ high \in Int /\ low \in Int
      /\ bottom <= v /\ v <= top /\ bottom < top
  <2>1. v \in Int /\ a \in Int /\ b \in Int /\ a \in values /\ b \in values
    BY <1>1, CurveBounds DEF values
  <2>2. top \in Int /\ bottom \in Int /\ bottom <= a /\ b <= top
    BY <1>1, <2>1
  <2> QED BY <1>1, <2>1, <2>2
<1>4. high - low # 0
  BY <1>1, <1>3
<1>5. ZeroOffset(points) = <<high, high - low>>
  BY <1>4 DEF ZeroOffset, high, low
<1>6. DrawnGreen(points, v) <=> (top - v) * (high - low) < high * (top - bottom)
  BY <1>2, <1>5
<1>7. ASSUME v > 0, NEW u \in values, u < v
      PROVE  DrawnGreen(points, v)
  <2>1. bottom < v /\ high = top /\ top > 0
    BY <1>1, <1>3, <1>7
  <2>2. CASE bottom >= 0
    <3>1. high - low = top
      BY <1>1, <1>3, <2>1, <2>2
    <3>2. (top - v) * top < top * (top - bottom)
      BY <1>3, <2>1, LargerProduct
    <3> QED BY <1>6, <2>1, <3>1, <3>2
  <2>3. CASE bottom < 0
    <3>1. high - low = top - bottom /\ top - bottom > 0
      BY <1>1, <1>3, <2>1, <2>3
    <3>2. (top - v) * (top - bottom) < (top - bottom) * top
      BY <1>3, <1>7, <3>1, LargerProduct
    <3>3. (top - bottom) * top = top * (top - bottom)
      BY <1>3
    <3> QED BY <1>6, <2>1, <3>1, <3>2, <3>3
  <2> QED BY <1>3, <2>2, <2>3
<1>8. ASSUME v < 0
      PROVE  ~DrawnGreen(points, v)
  <2>1. bottom < 0 /\ low = bottom
    BY <1>1, <1>3, <1>8
  <2>2. CASE top > 0
    <3>1. high = top /\ high - low = top - bottom /\ top - bottom > 0
      BY <1>1, <1>3, <2>1, <2>2
    <3>2. top * (top - bottom) < (top - bottom) * (top - v)
      BY <1>3, <1>8, <3>1, LargerProduct
    <3>3. (top - bottom) * (top - v) = (top - v) * (top - bottom)
      BY <1>3
    <3>4. top * (top - bottom) \in Int /\ (top - v) * (top - bottom) \in Int
      BY <1>3
    <3> QED BY <1>6, <3>1, <3>2, <3>3, <3>4
  <2>3. CASE ~(top > 0)
    <3>1. high = 0 /\ high - low > 0 /\ top - v >= 0
      BY <1>1, <1>3, <2>1, <2>3
    <3>2. (top - v) * (high - low) >= 0 /\ high * (top - bottom) = 0
      BY <1>3, <3>1
    <3>3. (top - v) * (high - low) \in Int
      BY <1>3
    <3> QED BY <1>6, <3>2, <3>3
  <2> QED BY <2>2, <2>3
<1> QED BY <1>7, <1>8 DEF values

(* However the curve came about, its stretches above zero are green and    *)
(* those below red (PaperPositionDetail.tsx:227-241, 247-259).             *)
THEOREM ColoursTellProfit == CurveSpec => []GreenIffProfit
<1>1. CurveUntilNow => GreenIffProfit
  BY GreenAboveZero DEF CurveUntilNow, GreenIffProfit
<1> QED BY <1>1, CurveInOrderInv, PTL

-----------------------------------------------------------------------------
(* The candle chart *)

\* Of a set of integers, each has a place of its own in the order.
LEMMA InOrderIsSorted ==
  ASSUME NEW T, IsFiniteSet(T), T \subseteq Int
  PROVE  /\ Cardinality(T) \in Nat
         /\ \A i \in 1..Cardinality(T) : InOrder(T)[i] \in T
         /\ \A i, j \in 1..Cardinality(T) : i < j => InOrder(T)[i] < InOrder(T)[j]
  <1> DEFINE n == Cardinality(T)
             Below(t) == {u \in T : u < t}
             place == [t \in T |-> Cardinality(Below(t)) + 1]
  <1>1. n \in Nat /\ IsFiniteSet(1..n) /\ Cardinality(1..n) = n
    BY FS_CardinalityType, FS_Interval
  <1>2. \A t \in T : /\ IsFiniteSet(Below(t)) /\ Cardinality(Below(t)) \in Nat
                     /\ Cardinality(Below(t)) < n
    <2> TAKE t \in T
    <2>1. Below(t) \in SUBSET T /\ Below(t) # T
      OBVIOUS
    <2>2. QED
      BY <1>1, <2>1, FS_Subset, FS_CardinalityType
  <1>3. \A t, v \in T : t < v => place[t] < place[v]
    <2> SUFFICES ASSUME NEW t \in T, NEW v \in T, t < v PROVE place[t] < place[v]
      BY Zenon
    <2>0. t \in Int /\ v \in Int /\ \A u \in T : u \in Int
      OBVIOUS
    <2>1. Below(t) \subseteq Below(v) /\ t \in Below(v) /\ t \notin Below(t)
      <3>1. \A u \in T : u < t => u < v
        BY <2>0
      <3>2. ~(t < t)
        BY <2>0
      <3>3. QED
        BY <3>1, <3>2
    <2>2. Cardinality(Below(t)) # Cardinality(Below(v)) /\ Cardinality(Below(t)) <= Cardinality(Below(v))
      BY <1>2, <2>1, FS_Subset
    <2>3. QED
      BY <1>2, <2>2
  <1>4. place \in Injection(T, 1..n)
    <2>1. place \in [T -> 1..n]
      <3> SUFFICES ASSUME NEW t \in T PROVE Cardinality(Below(t)) + 1 \in 1..n
        OBVIOUS
      <3> DEFINE c == Cardinality(Below(t))
      <3>1. c \in Nat /\ c < n
        BY <1>2
      <3> HIDE DEF c
      <3>2. c + 1 \in 1..n
        BY <1>1, <3>1
      <3>3. QED
        BY <3>2 DEF c
    <2> HIDE DEF place
    <2>2. \A t, v \in T : place[t] = place[v] => t = v
      <3> SUFFICES ASSUME NEW t \in T, NEW v \in T, t < v PROVE place[t] # place[v]
        OBVIOUS
      <3>1. place[t] \in 1..n /\ place[v] \in 1..n /\ place[t] < place[v]
        BY <1>3, <2>1
      <3>2. QED
        BY <1>1, <3>1
    <2>3. QED
      BY <2>1, <2>2 DEF Injection, IsInjective
  <1>5. place \in Surjection(T, 1..n)
    BY <1>1, <1>4, FS_Injection
  <1>6. ASSUME NEW i \in 1..n
        PROVE  InOrder(T)[i] \in T /\ place[InOrder(T)[i]] = i
    <2>1. \E t \in T : Cardinality(Below(t)) = i - 1
      <3>1. PICK t \in T : place[t] = i
        BY <1>5 DEF Surjection
      <3> DEFINE c == Cardinality(Below(t))
      <3>2. c \in Nat /\ c + 1 = i
        BY <1>2, <3>1
      <3> HIDE DEF c
      <3>3. c = i - 1
        BY <3>2
      <3>4. QED
        BY <3>3 DEF c
    <2>2. InOrder(T)[i] = CHOOSE t \in T : Cardinality(Below(t)) = i - 1
      BY DEF InOrder
    <2>3. InOrder(T)[i] \in T /\ Cardinality(Below(InOrder(T)[i])) = i - 1
      BY <2>1, <2>2
    <2>4. QED
      BY <1>1, <2>3
  <1>7. ASSUME NEW i \in 1..n, NEW j \in 1..n, i < j
        PROVE  InOrder(T)[i] < InOrder(T)[j]
    <2> HIDE DEF place
    <2>1. PICK a \in T : a = InOrder(T)[i] /\ place[a] = i
      BY <1>6
    <2>2. PICK b \in T : b = InOrder(T)[j] /\ place[b] = j
      BY <1>6
    <2>3. a < b
      <3>1. ~(b < a) /\ a # b
        BY <1>3, <1>7, <2>1, <2>2
      <3>2. QED
        BY <3>1
    <2>4. QED
      BY <2>1, <2>2, <2>3
  <1>8. QED
    BY <1>1, <1>6, <1>7

\* At most m elements of a set have fewer than m above them.
LEMMA LastOnesAreFew ==
  ASSUME NEW T, IsFiniteSet(T), T \subseteq Int, NEW m \in Nat
  PROVE  LET K == {t \in T : Cardinality({u \in T : u > t}) < m}
         IN  IsFiniteSet(K) /\ K \subseteq Int /\ Cardinality(K) \in 0..m
  <1> DEFINE K == {t \in T : Cardinality({u \in T : u > t}) < m}
  <1>1. K \in SUBSET T /\ IsFiniteSet(K) /\ Cardinality(K) \in Nat
    BY FS_Subset, FS_CardinalityType
  <1> SUFFICES Cardinality(K) <= m
    <2> HIDE DEF K
    <2>1. Cardinality(K) <= m => IsFiniteSet(K) /\ K \subseteq Int /\ Cardinality(K) \in 0..m
      BY <1>1
    <2>2. QED
      BY <2>1 DEF K
  <1>2. CASE K = {}
    <2>1. Cardinality(K) = 0
      BY <1>2, FS_EmptySet
    <2> HIDE DEF K
    <2>2. QED
      BY <2>1
  <1>3. CASE K # {}
    <2> HIDE DEF K
    <2>1. PICK x \in K : \A y \in K : x <= y
      BY <1>1, <1>3, Extremes
    <2> DEFINE Above == {u \in T : u > x}
    <2>2. x \in T /\ Cardinality(Above) < m
      BY DEF K
    <2>3. IsFiniteSet(Above) /\ Cardinality(Above) \in Nat
      BY FS_Subset, FS_CardinalityType
    <2>4. K \ {x} \in SUBSET Above
      BY <1>1, <2>1
    <2>5. Cardinality(K \ {x}) = Cardinality(K) - 1
      BY <1>1, FS_RemoveElement
    <2>6. Cardinality(K \ {x}) <= Cardinality(Above)
      BY <2>3, <2>4, FS_Subset
    <2>7. Cardinality(K) <= m
      BY <1>1, <2>2, <2>3, <2>5, <2>6
    <2>8. QED
      BY <2>7
  <1>4. QED
    BY <1>2, <1>3

\* What a sequence of bars becomes: the last one replaced, one more at the end, the
\* first one dropped for it.
LEMMA LastReplaced ==
  ASSUME NEW S, NEW s \in Seq(S), s # <<>>, NEW x \in S
  PROVE  LET r == Append(Front(s), x)
         IN  /\ r \in Seq(S) /\ Len(r) = Len(s) /\ Last(s) = s[Len(s)] /\ Len(s) \in Nat \ {0}
             /\ r[Len(s)] = x /\ \A i \in 1..Len(s) - 1 : r[i] = s[i]
  <1> DEFINE f == Front(s)
  <1>1. /\ f \in Seq(S) /\ Len(f) = Len(s) - 1 /\ Len(s) \in Nat \ {0}
        /\ \A i \in 1..Len(s) - 1 : f[i] = s[i]
    <2>1. Len(s) \in Nat \ {0}
      OBVIOUS
    <2> DEFINE m == Len(s) - 1
    <2>2. m \in 0..Len(s)
      BY <2>1
    <2> HIDE DEF m
    <2>3. /\ SubSeq(s, 1, m) \in Seq(S) /\ Len(SubSeq(s, 1, m)) = m
          /\ \A i \in 1..m : SubSeq(s, 1, m)[i] = s[i]
      BY <2>1, <2>2
    <2>4. QED
      BY <2>1, <2>3 DEF Front, m
  <1> HIDE DEF f
  <1>2. /\ Append(f, x) \in Seq(S) /\ Len(Append(f, x)) = Len(s)
        /\ Append(f, x)[Len(s)] = x /\ \A i \in 1..Len(s) - 1 : Append(f, x)[i] = s[i]
    BY <1>1
  <1>3. QED
    BY <1>1, <1>2 DEF f, Last

LEMMA FirstDropped ==
  ASSUME NEW S, NEW s \in Seq(S), s # <<>>, NEW x \in S
  PROVE  LET r == Append(Tail(s), x)
         IN  /\ r \in Seq(S) /\ Len(r) = Len(s) /\ Len(s) \in Nat \ {0}
             /\ r[Len(s)] = x /\ \A i \in 1..Len(s) - 1 : r[i] = s[i + 1]
  OBVIOUS

LEMMA MinuteType ==
  ASSUME time \in 0..MaxTime
  PROVE  Minute \in 0..MaxTime
  <1>1. \A k \in Nat : k * MinuteLength >= k
    BY ChartBounds
  <1>2. Minute \in Nat /\ Minute * MinuteLength <= time
    BY ChartBounds DEF Minute
  <1>3. QED
    BY <1>1, <1>2, ChartBounds

\* A bar as the chart wants one.
WellFormed(b) == /\ b \in Bar
                 /\ b.low <= Lower(b.open, b.close)
                 /\ Higher(b.open, b.close) <= b.high

\* Bars as the chart wants them.
Ordered(s) ==
  /\ s \in Seq(Bar) /\ Len(s) <= MaxBars
  /\ \A i, j \in 1..Len(s) : i < j => s[i].time < s[j].time
  /\ \A i \in 1..Len(s) : WellFormed(s[i])

LEMMA FlatIsWellFormed ==
  ASSUME NEW t \in 0..MaxTime + 1, NEW p \in Prices
  PROVE  WellFormed(Flat(t, p)) /\ Flat(t, p).time = t
  BY NumbersTyped DEF WellFormed, Flat, Bar, Lower, Higher

\* The history becomes bars in order, whatever it holds (one candle of each time).
LEMMA ParsedIsOrdered ==
  ASSUME time \in 0..MaxTime, NEW candles \in SUBSET RawCandles
  PROVE  Ordered(Parsed(candles))
  <1> DEFINE times == {c.time : c \in {r \in candles : ~r.broken}}
             kept == {t \in times : Cardinality({u \in times : u > t}) < MaxBars}
             p == CHOOSE q \in Prices : TRUE
             s == [i \in 1..Cardinality(kept) |-> Flat(InOrder(kept)[i], p)]
  <1>1. times \subseteq 0..Minute + 1 /\ 0..Minute + 1 \subseteq 0..MaxTime + 1
    BY MinuteType, ChartBounds DEF RawCandles
  <1>2. times \subseteq Int /\ IsFiniteSet(times)
    <2>1. Minute \in Int
      BY MinuteType, ChartBounds
    <2>2. IsFiniteSet(0..Minute + 1)
      BY <2>1, FS_Interval
    <2> HIDE DEF times
    <2>3. times \in SUBSET (0..Minute + 1)
      BY <1>1
    <2>4. IsFiniteSet(times)
      BY <2>2, <2>3, FS_Subset
    <2>5. QED
      BY <2>1, <2>3, <2>4
  <1>3. kept \subseteq times
    OBVIOUS
  <1>4. IsFiniteSet(kept) /\ kept \subseteq Int /\ Cardinality(kept) \in 0..MaxBars
    <2> HIDE DEF times
    <2>1. QED
      BY <1>2, LastOnesAreFew, ChartBounds
  <1>5. p \in Prices
    BY NumbersTyped
  <1>6. Parsed(candles) = s
    BY DEF Parsed
  <1> HIDE DEF kept, times, p
  <1>7. /\ \A i \in 1..Cardinality(kept) : InOrder(kept)[i] \in 0..MaxTime + 1
        /\ \A i, j \in 1..Cardinality(kept) : i < j => InOrder(kept)[i] < InOrder(kept)[j]
    BY <1>1, <1>3, <1>4, InOrderIsSorted
  <1>8. \A i \in 1..Cardinality(kept) : s[i] = Flat(InOrder(kept)[i], p)
                                        /\ WellFormed(s[i]) /\ s[i].time = InOrder(kept)[i]
    BY <1>5, <1>7, FlatIsWellFormed
  <1>9. s \in Seq(Bar) /\ Len(s) = Cardinality(kept)
    <2>1. \A i \in 1..Cardinality(kept) : s[i] \in Bar
      BY <1>8 DEF WellFormed
    <2>2. s \in [1..Cardinality(kept) -> Bar] /\ Cardinality(kept) \in Nat
      BY <1>4, <2>1
    <2> HIDE DEF s
    <2>3. QED
      BY <2>2
  <1> HIDE DEF s
  <1>10. QED
    BY <1>4, <1>6, <1>7, <1>8, <1>9, ChartBounds DEF Ordered

\* A live close keeps the bars in order, whatever the clock did since the last one.
LEMMA TickKeepsOrder ==
  ASSUME time \in 0..MaxTime, Ordered(bars), NEW p \in Prices
  PROVE  Ordered(WithTick(p))
  <1> DEFINE n == Len(bars)
             new == Flat(Minute, p)
             newest == bars[n]
             moved == [newest EXCEPT !.high = Higher(@, p), !.low = Lower(@, p), !.close = p]
  <1>1. WellFormed(new) /\ new.time = Minute /\ new \in Bar /\ Minute \in 0..MaxTime
    <2>1. Minute \in 0..MaxTime /\ Minute \in 0..MaxTime + 1
      BY MinuteType, ChartBounds
    <2>2. QED
      BY <2>1, FlatIsWellFormed DEF WellFormed
  <1>2. bars \in Seq(Bar) /\ n \in Nat
    BY DEF Ordered
  <1>3. CASE bars = <<>>
    <2>1. WithTick(p) = <<new>>
      BY <1>3 DEF WithTick
    <2> HIDE DEF new
    <2>2. QED
      BY <1>1, <2>1, ChartBounds DEF Ordered
  <1>4. CASE bars # <<>>
    <2>1. n \in Nat \ {0} /\ Last(bars) = newest /\ WellFormed(newest)
      BY <1>2, <1>4 DEF Last, Ordered
    <2>2. CASE newest.time = Minute
      <3>1. WithTick(p) = Append(Front(bars), moved)
        BY <1>4, <2>1, <2>2 DEF WithTick
      <3>2. WellFormed(moved) /\ moved.time = newest.time /\ moved \in Bar
        <4> HIDE DEF newest
        <4>1. /\ newest \in Bar /\ {newest.open, newest.high, newest.low, newest.close, p} \subseteq Int
              /\ newest.low <= newest.open /\ newest.open <= newest.high
              /\ Higher(newest.high, p) \in Prices /\ Lower(newest.low, p) \in Prices
          <5>1. /\ newest \in Bar /\ newest.open \in Prices /\ newest.high \in Prices
                /\ newest.low \in Prices /\ newest.close \in Prices
            BY <2>1 DEF WellFormed, Bar
          <5>2. /\ newest.low <= Lower(newest.open, newest.close)
                /\ Higher(newest.open, newest.close) <= newest.high
            BY <2>1 DEF WellFormed
          <5>3. \A q \in Prices : q \in Int
            BY NumbersTyped
          <5>4. /\ newest.open \in Int /\ newest.high \in Int /\ newest.low \in Int
                /\ newest.close \in Int /\ p \in Int
            BY <5>1, <5>3
          <5>5. newest.low <= newest.open /\ newest.open <= newest.high
            BY <5>2, <5>4 DEF Higher, Lower
          <5>6. Higher(newest.high, p) \in Prices /\ Lower(newest.low, p) \in Prices
            BY <5>1 DEF Higher, Lower
          <5>7. QED
            BY <5>1, <5>4, <5>5, <5>6
        <4>2. /\ moved.time = newest.time /\ moved.open = newest.open /\ moved.close = p
              /\ moved.high = Higher(newest.high, p) /\ moved.low = Lower(newest.low, p)
              /\ moved \in Bar
          BY <4>1 DEF Bar
        <4> HIDE DEF moved
        <4>3. /\ Lower(newest.low, p) <= Lower(newest.open, p)
              /\ Higher(newest.open, p) <= Higher(newest.high, p)
          BY <4>1 DEF Higher, Lower
        <4>4. QED
          BY <4>2, <4>3 DEF WellFormed
      <3> HIDE DEF moved, newest
      <3>3. /\ WithTick(p) \in Seq(Bar) /\ Len(WithTick(p)) = n
            /\ WithTick(p)[n] = moved /\ \A i \in 1..n - 1 : WithTick(p)[i] = bars[i]
        BY <1>2, <1>4, <3>1, <3>2, LastReplaced
      <3>4. \A i \in 1..n : WithTick(p)[i].time = bars[i].time /\ WellFormed(WithTick(p)[i])
        <4> SUFFICES ASSUME NEW i \in 1..n
                     PROVE  WithTick(p)[i].time = bars[i].time /\ WellFormed(WithTick(p)[i])
          OBVIOUS
        <4>1. CASE i = n
          BY <3>2, <3>3, <4>1 DEF newest
        <4>2. CASE i # n
          <5>1. i \in 1..n - 1
            BY <1>2, <4>2
          <5>2. QED
            BY <3>3, <5>1 DEF Ordered
        <4>3. QED
          BY <4>1, <4>2
      <3>5. QED
        BY <3>3, <3>4 DEF Ordered
    <2>3. CASE Minute < newest.time
      <3>1. WithTick(p) = bars
        BY <1>1, <1>4, <2>1, <2>3 DEF WithTick, WellFormed, Bar
      <3>2. QED
        BY <3>1
    <2>4. CASE newest.time # Minute /\ ~(Minute < newest.time)
      <3>1. newest.time \in Int /\ newest.time < Minute
        BY <1>1, <2>1, <2>4, ChartBounds DEF WellFormed, Bar
      <3>2. \A i \in 1..n : bars[i].time \in Int /\ bars[i].time < Minute
        <4>1. \A i \in 1..n : bars[i].time \in Int
          BY ChartBounds DEF Ordered, WellFormed, Bar
        <4>2. \A i \in 1..n : i = n \/ bars[i].time < newest.time
          BY <1>2 DEF Ordered
        <4>3. QED
          BY <1>1, <3>1, <4>1, <4>2
      <3>3. CASE n = MaxBars
        <4>1. WithTick(p) = Append(Tail(bars), new)
          BY <1>4, <2>1, <2>4, <3>3 DEF WithTick
        <4> HIDE DEF new, newest
        <4>2. /\ WithTick(p) \in Seq(Bar) /\ Len(WithTick(p)) = n
              /\ WithTick(p)[n] = new /\ \A i \in 1..n - 1 : WithTick(p)[i] = bars[i + 1]
          BY <1>1, <1>2, <1>4, <4>1, FirstDropped
        <4>3. \A i \in 1..n - 1 : i + 1 \in 1..n
          BY <2>1
        <4>4. \A i \in 1..n : WellFormed(WithTick(p)[i])
          BY <1>1, <2>1, <4>2, <4>3 DEF Ordered
        <4>5. ASSUME NEW i \in 1..n, NEW j \in 1..n, i < j
              PROVE  WithTick(p)[i].time < WithTick(p)[j].time
          <5>1. i \in 1..n - 1 /\ i + 1 \in 1..n /\ WithTick(p)[i] = bars[i + 1]
            BY <2>1, <4>2, <4>5
          <5>2. CASE j = n
            BY <1>1, <3>2, <4>2, <5>1, <5>2
          <5>3. CASE j # n
            <6>1. j \in 1..n - 1 /\ j + 1 \in 1..n /\ WithTick(p)[j] = bars[j + 1] /\ i + 1 < j + 1
              BY <2>1, <4>2, <4>5, <5>3
            <6>2. QED
              BY <5>1, <6>1 DEF Ordered
          <5>4. QED
            BY <5>2, <5>3
        <4>6. QED
          BY <4>2, <4>4, <4>5 DEF Ordered
      <3>4. CASE n # MaxBars
        <4>1. WithTick(p) = Append(bars, new)
          BY <1>4, <2>1, <2>4, <3>4 DEF WithTick
        <4> HIDE DEF new, newest
        <4>2. /\ WithTick(p) \in Seq(Bar) /\ Len(WithTick(p)) = n + 1 /\ n + 1 <= MaxBars
              /\ WithTick(p)[n + 1] = new /\ \A i \in 1..n : WithTick(p)[i] = bars[i]
          BY <1>1, <1>2, <3>4, <4>1, ChartBounds DEF Ordered
        <4>3. \A i \in 1..n + 1 : i \in 1..n \/ i = n + 1
          BY <1>2
        <4>4. \A i \in 1..n + 1 : WellFormed(WithTick(p)[i])
          BY <1>1, <4>2, <4>3 DEF Ordered
        <4>5. ASSUME NEW i \in 1..n + 1, NEW j \in 1..n + 1, i < j
              PROVE  WithTick(p)[i].time < WithTick(p)[j].time
          <5>1. i \in 1..n
            BY <1>2, <4>5
          <5>2. CASE j = n + 1
            BY <1>1, <3>2, <4>2, <5>1, <5>2
          <5>3. CASE j \in 1..n
            BY <4>2, <4>5, <5>1, <5>3 DEF Ordered
          <5>4. QED
            BY <4>3, <5>2, <5>3
        <4>6. QED
          BY <4>2, <4>4, <4>5 DEF Ordered
      <3>5. QED
        BY <3>3, <3>4
    <2>5. QED
      BY <2>2, <2>3, <2>4
  <1>5. QED
    BY <1>3, <1>4

ChartInv == ChartTypeOK /\ Ordered(bars)

\* A change of the configuration leaves it one.
LEMMA PatchKeepsTypes ==
  ASSUME ChartInv, NEW k \in IndicatorKinds, NEW c, Patch(k, c),
         c \in [enabled : BOOLEAN, params : Seq(Nat)]
  PROVE  ChartInv'
  <1>1. config' \in IndicatorConfig
    BY DEF Patch, ChartInv, ChartTypeOK, IndicatorConfig
  <1>2. edits' \in 0..MaxEdits
    BY ChartBounds DEF Patch, ChartInv, ChartTypeOK
  <1>3. QED
    BY <1>1, <1>2 DEF Patch, ChartInv, ChartTypeOK

LEMMA ChartInvInductive ==
  ASSUME ChartInv, [ChartNext]_chartVars
  PROVE  ChartInv'
  <1> USE DEF ChartInv, ChartTypeOK
  <1>1. CASE CandlesArrive
    <2>1. Ordered(bars')
      BY <1>1, ParsedIsOrdered DEF CandlesArrive
    <2>2. QED
      BY <1>1, <2>1 DEF CandlesArrive, Ordered
  <1>2. CASE TimePasses
    <2>1. time' \in 0..MaxTime /\ lastTick' \in 0..time'
      BY <1>2, ChartBounds DEF TimePasses
    <2>2. QED
      BY <1>2, <2>1 DEF TimePasses
  <1>3. CASE Redraw
    <2>1. Throws \in BOOLEAN
      BY Zenon DEF Throws
    <2>2. dead' \in BOOLEAN
      BY <1>3, <2>1, Zenon DEF Redraw
    <2>3. QED
      BY <1>3, <2>2 DEF Redraw
  <1>4. ASSUME NEW p \in Prices, LiveClose(p) PROVE ChartInv'
    <2>1. Ordered(bars')
      BY <1>4, TickKeepsOrder DEF LiveClose
    <2>2. lastTick' \in 0..time' /\ liveClose' \in Prices \cup {0} /\ stale' \in BOOLEAN
      <3>1. time \in Nat /\ lastTick \in 0..time /\ time' = time /\ liveClose' = p
        BY <1>4, ChartBounds DEF LiveClose
      <3>2. CASE UNCHANGED <<lastTick, stale>>
        BY <3>1, <3>2
      <3>3. CASE lastTick' = time /\ stale' = TRUE
        BY <3>1, <3>3
      <3>4. QED
        BY <1>4, <3>2, <3>3 DEF LiveClose
    <2>3. QED
      BY <1>4, <2>1, <2>2 DEF LiveClose, Ordered
  <1>5. ASSUME NEW k \in IndicatorKinds, Toggle(k) PROVE ChartInv'
    <2>1. [config[k] EXCEPT !.enabled = ~@] \in [enabled : BOOLEAN, params : Seq(Nat)]
      BY DEF IndicatorConfig
    <2>2. QED
      BY <1>5, <2>1, PatchKeepsTypes DEF Toggle
  <1>6. ASSUME NEW k \in IndicatorKinds, NEW i \in DOMAIN config[k].params, NEW v \in Typed,
               NumberInput(k, i, v)
        PROVE  ChartInv'
    <2>1. config[k] \in [enabled : BOOLEAN, params : Seq(Nat)] /\ v \in Nat
      BY NumbersTyped DEF IndicatorConfig
    <2> DEFINE ps == config[k].params
    <2>2. ps \in Seq(Nat) /\ i \in DOMAIN ps
      BY <2>1
    <2> HIDE DEF ps
    <2>3. [ps EXCEPT ![i] = v] \in Seq(Nat)
      BY <2>1, <2>2
    <2>4. [config[k] EXCEPT !.params[i] = v] = [config[k] EXCEPT !.params = [ps EXCEPT ![i] = v]]
      BY DEF ps
    <2>5. [config[k] EXCEPT !.params[i] = v] \in [enabled : BOOLEAN, params : Seq(Nat)]
      BY <2>1, <2>3, <2>4
    <2>6. QED
      BY <1>6, <2>5, PatchKeepsTypes DEF NumberInput
  <1>7. CASE UNCHANGED chartVars
    BY <1>7 DEF chartVars
  <1>8. QED
    BY <1>1, <1>2, <1>3, <1>4, <1>5, <1>6, <1>7 DEF ChartNext

LEMMA ChartInvInit == ChartInit => ChartInv
  <1> SUFFICES ASSUME ChartInit PROVE ChartInv
    OBVIOUS
  <1>1. config \in IndicatorConfig
    <2>1. \A k \in IndicatorKinds : [enabled |-> k = "adx", params |-> DefaultParams[k]]
                                        \in [enabled : BOOLEAN, params : Seq(Nat)]
      BY ParamsTyped
    <2>2. QED
      BY <2>1 DEF ChartInit, DefaultIndicatorConfig, IndicatorConfig
  <1>2. Ordered(bars)
    BY ChartBounds DEF ChartInit, Ordered
  <1>3. time \in 0..MaxTime /\ lastTick \in 0..time /\ edits \in 0..MaxEdits
    BY ChartBounds DEF ChartInit
  <1>4. QED
    BY <1>1, <1>2, <1>3 DEF ChartInit, ChartInv, ChartTypeOK, Ordered

\* The variables of the chart keep their types, and the numbers of its
\* configuration come from the defaults or the inputs (IndicatorPanel.tsx:73).
THEOREM ChartTypeCorrect == ChartSpec => []ChartTypeOK
  <1>1. ChartInv => ChartTypeOK
    BY DEF ChartInv
  <1>2. QED
    BY <1>1, ChartInvInit, ChartInvInductive, PTL DEF ChartSpec

\* Whatever the history holds and however late its answer and the ticks are, the
\* candles are in the order of time, one for a minute, each with its low below
\* and its high above what it opened and closed at (SpotChart.tsx:108-154, 216).
THEOREM BarsStayOrdered == ChartSpec => []BarsOrdered
  <1>1. ChartInv => BarsOrdered
    BY DEF ChartInv, Ordered, WellFormed, BarsOrdered
  <1>2. QED
    BY <1>1, ChartInvInit, ChartInvInductive, PTL DEF ChartSpec

\* What is drawn is what the configuration wants, until it or a bar changes.
DrawnAsConfigured ==
  /\ \A k \in IndicatorKinds : config[k].params # <<>>
  /\ ~stale /\ ~dead => overlays = Wanted /\ panes = Oscillators

LEMMA DrawnInductive ==
  ASSUME ChartInv, DrawnAsConfigured, [ChartNext]_chartVars
  PROVE  DrawnAsConfigured'
  <1>1. ASSUME NEW k \in IndicatorKinds, NEW c, Patch(k, c), c.params # <<>>
        PROVE  DrawnAsConfigured'
    BY <1>1 DEF Patch, DrawnAsConfigured, ChartInv, ChartTypeOK, IndicatorConfig
  <1>2. ASSUME NEW k \in IndicatorKinds, Toggle(k) PROVE DrawnAsConfigured'
    <2>1. [config[k] EXCEPT !.enabled = ~@].params # <<>>
      BY DEF ChartInv, ChartTypeOK, IndicatorConfig, DrawnAsConfigured
    <2>2. QED
      BY <1>1, <1>2, <2>1 DEF Toggle
  <1>3. ASSUME NEW k \in IndicatorKinds, NEW i \in DOMAIN config[k].params, NEW v \in Typed,
               NumberInput(k, i, v)
        PROVE  DrawnAsConfigured'
    <2> DEFINE ps == config[k].params
    <2>1. config[k] \in [enabled : BOOLEAN, params : Seq(Nat)] /\ ps \in Seq(Nat)
      BY DEF ChartInv, ChartTypeOK, IndicatorConfig
    <2>2. [config[k] EXCEPT !.params[i] = v].params = [ps EXCEPT ![i] = v]
      BY <2>1
    <2>3. i \in DOMAIN [ps EXCEPT ![i] = v]
      BY <1>3
    <2>4. [ps EXCEPT ![i] = v] # <<>>
      BY <2>3
    <2>5. QED
      BY <1>1, <1>3, <2>2, <2>4 DEF NumberInput
  <1>4. CASE Redraw
    <2>1. config' = config /\ bars' = bars
      BY <1>4 DEF Redraw
    <2>2. ~dead' => overlays' = Wanted /\ panes' = Oscillators
      <3>1. DOMAIN Wanted = (DOMAIN overlays \ (DOMAIN overlays \ DOMAIN Wanted)) \cup DOMAIN Wanted
        OBVIOUS
      <3>2. Wanted = [key \in DOMAIN Wanted |-> Wanted[key]]
        BY DEF Wanted
      <3>3. Reconciled = Wanted
        BY <3>1, <3>2 DEF Reconciled
      <3>4. QED
        BY <1>4, <3>3 DEF Redraw
    <2>3. Wanted' = Wanted /\ Oscillators' = Oscillators
      BY <2>1 DEF Wanted, Oscillators, LineData, Param
    <2>4. QED
      BY <2>1, <2>2, <2>3 DEF DrawnAsConfigured
  <1>5. CASE TimePasses \/ UNCHANGED chartVars
    <2>1. UNCHANGED <<config, bars, overlays, panes, stale, dead>>
      BY <1>5 DEF TimePasses, chartVars
    <2>2. QED
      BY <2>1 DEF DrawnAsConfigured, Wanted, Oscillators, LineData, Param
  <1>6. CASE CandlesArrive
    BY <1>6 DEF CandlesArrive, DrawnAsConfigured
  <1>7. ASSUME NEW p \in Prices, LiveClose(p) PROVE DrawnAsConfigured'
    <2>1. CASE stale'
      BY <1>7, <2>1 DEF LiveClose, DrawnAsConfigured
    <2>2. CASE ~stale'
      <3>1. UNCHANGED <<config, bars, overlays, panes, stale, dead>>
        BY <1>7, <2>2 DEF LiveClose
      <3>2. QED
        BY <3>1 DEF DrawnAsConfigured, Wanted, Oscillators, LineData, Param
    <2>3. QED
      BY <2>1, <2>2
  <1>8. QED
    BY <1>2, <1>3, <1>4, <1>5, <1>6, <1>7 DEF ChartNext

LEMMA DrawnMatches ==
  ASSUME ChartInv, DrawnAsConfigured
  PROVE  OverlaysMatchConfig
  <1> SUFFICES ASSUME ~stale, ~dead
               PROVE  /\ config["ema"].enabled <=> \E key \in DOMAIN Wanted : key[1] = "ema"
                      /\ \A key \in DOMAIN Wanted : key[1] = "ema" =>
                           \E i \in DOMAIN config["ema"].params : config["ema"].params[i] = key[2]
                      /\ config["bbands"].enabled <=> <<"bb-upper", 0>> \in DOMAIN Wanted
                      /\ \A key \in DOMAIN Wanted :
                           bars # <<>> /\ Wanted[key] # {} => Last(bars).time \in Wanted[key]
                      /\ DOMAIN Oscillators = {k \in IndicatorKinds \ OverlayKinds : config[k].enabled}
    BY DEF DrawnAsConfigured, OverlaysMatchConfig
  <1> DEFINE ps == config["ema"].params
             E == IF config["ema"].enabled THEN {<<"ema", ps[i]>> : i \in DOMAIN ps} ELSE {}
             B == IF config["bbands"].enabled
                    THEN {"bb-upper", "bb-middle", "bb-lower"} \X {0} ELSE {}
  <1>1. DOMAIN Wanted = E \cup B
    BY DEF Wanted, Param
  <1>2. \A k \in IndicatorKinds : config[k].params \in Seq(Nat) /\ config[k].params # <<>>
    BY DEF DrawnAsConfigured, ChartInv, ChartTypeOK, IndicatorConfig
  <1>3. ps \in Seq(Nat) /\ 1 \in DOMAIN ps
    BY <1>2 DEF IndicatorKinds
  <1>4. \A key \in E : /\ config["ema"].enabled /\ key[1] = "ema"
                        /\ \E i \in DOMAIN ps : ps[i] = key[2]
    OBVIOUS
  <1>5. \A key \in B : config["bbands"].enabled /\ key[1] # "ema"
    OBVIOUS
  <1>6. config["ema"].enabled => <<"ema", ps[1]>> \in E /\ <<"ema", ps[1]>>[1] = "ema"
    BY <1>3
  <1>7. config["bbands"].enabled <=> <<"bb-upper", 0>> \in E \cup B
    OBVIOUS
  <1>8. ASSUME NEW key \in DOMAIN Wanted, bars # <<>>, Wanted[key] # {}
        PROVE  Last(bars).time \in Wanted[key]
    <2>1. PICK n \in Nat : Wanted[key] = LineData(n)
      <3>1. config["bbands"].params[1] \in Nat
        <4>1. config["bbands"].params \in Seq(Nat) /\ config["bbands"].params # <<>>
          BY <1>2 DEF IndicatorKinds
        <4>2. \A q \in Seq(Nat) : q # <<>> => q[1] \in Nat
          OBVIOUS
        <4>3. QED
          BY <4>1, <4>2
      <3>2. \A i \in DOMAIN ps : ps[i] \in Nat
        BY <1>3
      <3>3. key \in E \cup B /\ \A e \in E : e[1] = "ema" /\ e[2] \in Nat
        BY <1>1, <3>2
      <3>4. Wanted[key] = LineData(IF key[1] = "ema" THEN key[2] ELSE config["bbands"].params[1])
        BY DEF Wanted, Param
      <3> HIDE DEF E, B
      <3>5. CASE key \in E
        BY <3>3, <3>4, <3>5
      <3>6. CASE key \in B
        BY <1>5, <3>1, <3>4, <3>6
      <3>7. QED
        BY <3>3, <3>5, <3>6
    <2>2. /\ WholeNumber(n)
          /\ LineData(n) = {bars[i].time : i \in {j \in DOMAIN bars : 2 * j >= n}}
      BY <1>8, <2>1 DEF LineData
    <2>3. bars \in Seq(Bar) /\ Len(bars) \in DOMAIN bars /\ Last(bars) = bars[Len(bars)]
          /\ \A j \in DOMAIN bars : j \in Nat /\ j <= Len(bars)
      BY <1>8 DEF ChartInv, ChartTypeOK, Last
    <2>4. QED
      BY <1>8, <2>1, <2>2, <2>3
  <1>9. DOMAIN Oscillators = {k \in IndicatorKinds \ OverlayKinds : config[k].enabled}
    BY DEF Oscillators
  <1> HIDE DEF E, B
  <1>10. QED
    BY <1>1, <1>4, <1>5, <1>6, <1>7, <1>8, <1>9

\* After every redraw the chart shows the series its configuration asks for, each
\* once, and no other (SpotChart.tsx:204-255).
THEOREM ChartShowsItsConfig == ChartSpec => []OverlaysMatchConfig
  <1>1. ChartInit => DrawnAsConfigured
    BY ParamsTyped DEF ChartInit, DrawnAsConfigured, DefaultIndicatorConfig
  <1>2. QED
    BY <1>1, ChartInvInit, ChartInvInductive, DrawnInductive, DrawnMatches, PTL DEF ChartSpec

-----------------------------------------------------------------------------
(* The page frame *)

\* The variables of the page frame have their types.
THEOREM ShellTypeCorrect == ShellSpec => []ShellTypeOK
  <1> USE DEF ShellTypeOK
  <1>1. ShellInit => ShellTypeOK
    <2> SUFFICES ASSUME ShellInit PROVE ShellTypeOK
      OBVIOUS
    <2>1. 1 \in 1..MaxNow /\ 0 \in 0..1
      BY ShellBounds
    <2>2. QED
      BY <2>1, PanelsTyped DEF ShellInit, Tabs
  <1>2. ASSUME ShellTypeOK, [ShellNext]_shellVars PROVE ShellTypeOK'
    <2> USE <1>2
    <2>1. ASSUME NEW t \in Tabs, SetTab(t)
          PROVE  tab' \in Tabs /\ active' \in panels' /\ panels' \subseteq Panels
      BY <2>1, PanelsTyped DEF SetTab
    <2>2. ASSUME NEW t \in Tabs, ClickTab(t) PROVE ShellTypeOK'
      BY <2>1, <2>2 DEF ClickTab
    <2>3. ASSUME NEW k \in Keys, KeyDown(k) PROVE ShellTypeOK'
      <3>1. CASE Chord(k)
        <4>1. TabOf[k] \in Tabs
          BY <3>1 DEF Chord, TabOf, Tabs
        <4>2. QED
          BY <2>1, <2>3, <3>1, <4>1 DEF KeyDown, Chord
      <3>2. CASE SingleKey(k)
        <4>1. tab' \in Tabs /\ active' \in panels' /\ panels' \subseteq Panels
          BY <2>1, <3>2 DEF SingleKey, StayOnTab, Tabs
        <4>2. pendingG' \in 0..now
          BY <3>2, ShellBounds DEF SingleKey, PendingAfter
        <4>3. {helpOpen', focusing'} \subseteq BOOLEAN
          BY <3>2 DEF SingleKey
        <4>4. QED
          BY <2>3, <4>1, <4>2, <4>3 DEF KeyDown
      <3>3. QED
        BY <2>3, <3>1, <3>2 DEF KeyDown
    <2>4. ASSUME NEW k \in Keys, IgnoredKey(k) PROVE ShellTypeOK'
      BY <2>4 DEF IgnoredKey
    <2>5. CASE CloseHelp
      BY <2>5 DEF CloseHelp
    <2>6. CASE FocusMoves
      BY <2>6 DEF FocusMoves
    <2>7. CASE TimeGoesOn
      BY <2>7, ShellBounds DEF TimeGoesOn
    <2>8. CASE ExpiriesArrive
      BY <2>8 DEF ExpiriesArrive
    <2>9. ASSUME NEW i \in DOMAIN expiries, PickExpiry(i) PROVE ShellTypeOK'
      BY <2>9 DEF PickExpiry
    <2>10. ASSUME NEW p \in Panels, SelectPanel(p) PROVE ShellTypeOK'
      BY <2>10 DEF SelectPanel
    <2>11. CASE UNCHANGED shellVars
      BY <2>11 DEF shellVars
    <2>12. QED
      BY <2>2, <2>3, <2>4, <2>5, <2>6, <2>7, <2>8, <2>9, <2>10, <2>11 DEF ShellNext
  <1>3. QED
    BY <1>1, <1>2, PTL DEF ShellSpec

\* A chord that a letter would complete was begun by the last key heeded.
ChordIsFresh ==
  /\ last \in [key : Keys \cup {"none"}, at : Nat, by : {"none", "key", "click"}]
  /\ ChordActive => last.key = "g" /\ last.at = pendingG

\* The page is left by a click, by "/", or by a letter directly after a `g` and
\* within the window.  ChordIsFresh is what it rests on: a key that neither
\* completes nor begins a chord leaves none that a letter would complete.
THEOREM LeftOnPurpose == ShellSpec => LeavesOnlyOnPurpose
  <1>1. ShellInit => ChordIsFresh
    BY DEF ShellInit, ChordIsFresh, ChordActive
  <1>2. ASSUME ShellTypeOK, ChordIsFresh, [ShellNext]_shellVars
        PROVE  /\ ChordIsFresh'
               /\ tab' # tab => \/ last'.by = "click" \/ last'.key = "/"
                                \/ /\ last'.key \in DOMAIN TabOf /\ tab' = TabOf[last'.key]
                                   /\ last.key = "g"
                                   /\ last'.at - last.at <= ChordWindow
    <2> USE <1>2
    <2>1. pendingG \in Nat /\ now \in Nat \ {0}
      BY DEF ShellTypeOK
    <2>2. ASSUME NEW t \in Tabs, ClickTab(t)
          PROVE  ChordIsFresh' /\ last'.by = "click"
      BY <2>2 DEF ClickTab, ChordIsFresh, ChordActive
    <2>3. ASSUME NEW k \in Keys, KeyDown(k)
          PROVE  /\ ChordIsFresh'
                 /\ tab' # tab => \/ last'.key = "/"
                                  \/ /\ last'.key \in DOMAIN TabOf /\ tab' = TabOf[last'.key]
                                     /\ last.key = "g"
                                     /\ last'.at - last.at <= ChordWindow
      <3>1. /\ last' = [key |-> k, at |-> now, by |-> "key"] /\ now' = now
            /\ last'.key = k /\ last'.at = now
            /\ last' \in [key : Keys \cup {"none"}, at : Nat, by : {"none", "key", "click"}]
        BY <2>1, <2>3 DEF KeyDown
      <3>2. CASE Chord(k)
        <4>1. pendingG' = 0 /\ ChordActive /\ k \in DOMAIN TabOf /\ SetTab(TabOf[k])
          BY <3>2 DEF Chord
        <4>2. last.key = "g" /\ now - last.at <= ChordWindow
          BY <4>1 DEF ChordIsFresh, ChordActive
        <4>3. tab' = TabOf[k]
          BY <4>1 DEF SetTab
        <4>4. QED
          BY <3>1, <4>1, <4>2, <4>3 DEF ChordIsFresh, ChordActive
      <3>3. CASE SingleKey(k)
        <4>1. pendingG' = PendingAfter(k)
          BY <3>3 DEF SingleKey
        <4>2. ChordActive' => k = "g" /\ pendingG' = now
          BY <3>1, <4>1 DEF PendingAfter, ChordActive
        <4>3. tab' # tab => k = "/"
          BY <3>3 DEF SingleKey, StayOnTab
        <4>4. QED
          BY <3>1, <4>2, <4>3 DEF ChordIsFresh
      <3>4. QED
        BY <2>3, <3>2, <3>3 DEF KeyDown
    <2>4. CASE TimeGoesOn
      BY <2>1, <2>4, ShellBounds DEF TimeGoesOn, ChordIsFresh, ChordActive
    <2>5. CASE \/ \E k \in Keys : IgnoredKey(k)
               \/ CloseHelp \/ FocusMoves \/ ExpiriesArrive
               \/ \E i \in DOMAIN expiries : PickExpiry(i)
               \/ \E p \in Panels : SelectPanel(p)
               \/ UNCHANGED shellVars
      <3>1. UNCHANGED <<tab, pendingG, now, last>>
        BY <2>5 DEF IgnoredKey, CloseHelp, FocusMoves, ExpiriesArrive, PickExpiry,
                    SelectPanel, shellVars
      <3>2. QED
        BY <3>1 DEF ChordIsFresh, ChordActive
    <2>6. QED
      BY <2>2, <2>3, <2>4, <2>5 DEF ShellNext, ChordIsFresh, ChordActive, TimeGoesOn
  <1>3. QED
    BY <1>1, <1>2, ShellTypeCorrect, PTL DEF ShellSpec, LeavesOnlyOnPurpose

-----------------------------------------------------------------------------
(* All parts *)

\* A behaviour of the run of all parts is a behaviour of each part: a step of the
\* part chosen at the start, and of the others none.
LEMMA EveryPartRunsAlone ==
  PartsSpec => /\ DeskSpec
               /\ BuilderSpec
               /\ LiveDeskSpec
               /\ GroupsSpec
               /\ CurveSpec
               /\ ChartSpec
               /\ TapeSpec
               /\ ShellSpec
               /\ MtmSpec
               /\ BucketSpec
               /\ SlippageSpec
<1>1. PartsInit => /\ DeskInit /\ BuilderInit /\ LiveDeskInit
                   /\ GroupsInit /\ CurveInit /\ ChartInit /\ TapeInit
                   /\ ShellInit /\ MtmInit /\ BucketInit /\ SlippageInit
  BY DEF PartsInit
<1>2. [PartsNext]_PartsVars => /\ [DeskNext]_deskVars
                               /\ [BuilderNext]_builderVars
                               /\ [LiveDeskNext]_liveDeskVars
                               /\ [GroupsNext]_groupVars
                               /\ [CurveNext]_curveVars
                               /\ [ChartNext]_chartVars
                               /\ [NextBar]_tapeVars
                               /\ [ShellNext]_shellVars
                               /\ [MtmNext]_mtmVars
                               /\ [BucketNext]_bucketVars
                               /\ [LevelListed]_slippageVars
  BY DEF PartsNext, PartsVars
<1> QED BY <1>1, <1>2, PTL DEF PartsSpec, DeskSpec, BuilderSpec, LiveDeskSpec, GroupsSpec, CurveSpec,
                               ChartSpec, TapeSpec, ShellSpec, MtmSpec, BucketSpec, SlippageSpec

\* Whichever part runs, the variables of every part keep their types: what the
\* proofs above say of each part alone holds of the run of all of them.
THEOREM PartsTypeCorrect == PartsSpec => []PartsTypeOK
<1>1. LiveDeskInv => LiveDeskTypeOK
  BY DEF LiveDeskInv
<1> QED BY <1>1, EveryPartRunsAlone, DeskTypes, LiveDeskTypeCorrect,
           GroupsTypeCorrect, ChartTypeCorrect, ShellTypeCorrect, MtmTypeCorrect,
           BucketTypeCorrect, PTL DEF PartsTypeOK
=============================================================================
