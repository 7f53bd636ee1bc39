------------------------------ MODULE LiveDesk ------------------------------
(***************************************************************************)
(* The live page (pages/live/LiveMonitorPage.tsx), the detail of the       *)
(* selected strategy (LiveStrategyDetail.tsx) and its stop-loss dialog     *)
(* (StopLossDialog.tsx), over the requests of lib/liveApi.ts.  The server  *)
(* is external; module StopLoss models it.  The rows of the table are no   *)
(* buttons and lie under the open dialog, so a strategy is selected only   *)
(* while the dialog is closed.                                             *)
(*                                                                         *)
(* The tick box and the input hold, instead of TRUE or a number, the      *)
(* strategy whose dialog they were filled in for.                          *)
(***************************************************************************)
EXTENDS Naturals, FiniteSets

CONSTANTS
  Strategies, NoStrategy,
  MaxSlCalls,  \* bound on the requests sent
  MaxSlFaults  \* bound on the refused and lost ones

ASSUME NoStrategyIsNone == NoStrategy \notin Strategies
ASSUME LiveBounds == MaxSlCalls \in Nat /\ MaxSlFaults \in Nat

VARIABLES
  configured,  \* ~notConfigured: the last fetch of the positions was no 503
  selectedId,
  slOpen,      \* the dialog is on the page
  form,        \* its input and tick box, blank while there is none
  busy,        \* its request is under way
  slServer,    \* strategy -> state of its stop-loss on the server
  slShown,     \* strategy -> the copy the detail shows
  slCalls,     \* requests whose caller still awaits something
  slSent, slFaults

liveDeskVars == <<configured, selectedId, slOpen, form, busy, slServer, slShown,
                  slCalls, slSent, slFaults>>

SlStates == {"off", "ARMED", "TRIGGERED"}
SomeStrategy == Strategies \cup {NoStrategy}

SlForm == [typed : SomeStrategy, understood : SomeStrategy]

\* inDialog, onPage: the dialog, the detail that sent it is still mounted
SlCalls == [id : Nat, op : {"arm", "disarm"}, on : Strategies,
            threshold : SomeStrategy, understood : SomeStrategy,
            stage : {"sent", "ok", "failed", "done"},
            inDialog : BOOLEAN, onPage : BOOLEAN]

LiveDeskTypeOK ==
  /\ {configured, slOpen, busy} \subseteq BOOLEAN
  /\ selectedId \in SomeStrategy
  /\ form \in SlForm
  /\ slServer \in [Strategies -> SlStates]
  /\ slShown \in [Strategies -> SlStates]
  /\ slCalls \subseteq SlCalls
  /\ slSent \in 0..MaxSlCalls /\ slFaults \in 0..MaxSlFaults

\* useState of a dialog that is mounted.
BlankForm == [typed |-> NoStrategy, understood |-> NoStrategy]

LiveDeskInit ==
  /\ configured = TRUE /\ selectedId = NoStrategy
  /\ slOpen = FALSE /\ form = BlankForm /\ busy = FALSE
  /\ slServer = [s \in Strategies |-> "off"]
  /\ slShown = [s \in Strategies |-> "off"]
  /\ slCalls = {} /\ slSent = 0 /\ slFaults = 0

-----------------------------------------------------------------------------
DetailShown == configured /\ selectedId # NoStrategy

SelectStrategy(s) ==
  /\ configured /\ ~slOpen /\ s # selectedId
  /\ selectedId' = s
  /\ UNCHANGED <<configured, slOpen, form, busy, slServer, slShown, slCalls,
                 slSent, slFaults>>

(* A 503 takes the detail and its dialog off the page, a later answer puts *)
(* a new detail there.                                                     *)
ConfigurationChanges ==
  /\ configured' = ~configured
  /\ slOpen' = FALSE /\ form' = BlankForm /\ busy' = FALSE
  /\ slCalls' = {[c EXCEPT !.inDialog = FALSE, !.onPage = FALSE] : c \in slCalls}
  /\ UNCHANGED <<selectedId, slServer, slShown, slSent, slFaults>>

(* Another tab takes the whole page away.                                  *)
LeavePage ==
  /\ selectedId # NoStrategy
  /\ selectedId' = NoStrategy
  /\ slOpen' = FALSE /\ form' = BlankForm /\ busy' = FALSE
  /\ slCalls' = {[c EXCEPT !.inDialog = FALSE, !.onPage = FALSE] : c \in slCalls}
  /\ UNCHANGED <<configured, slServer, slShown, slSent, slFaults>>

OpenDialog ==
  /\ DetailShown /\ ~slOpen
  /\ slOpen' = TRUE
  /\ UNCHANGED <<configured, selectedId, form, busy, slServer, slShown, slCalls,
                 slSent, slFaults>>

(* The tick box and the input; the radio buttons show the other mode's     *)
(* input, empty or filled in before.                                       *)
FillForm ==
  /\ slOpen
  /\ form' \in {[form EXCEPT !.typed = s] : s \in {selectedId, NoStrategy}}
               \cup {[form EXCEPT !.understood = s] : s \in {selectedId, NoStrategy}}
  /\ UNCHANGED <<configured, selectedId, slOpen, busy, slServer, slShown, slCalls,
                 slSent, slFaults>>

\* Mutant of Closed: the state of the dialog outlives it.
ClosedKeepsForm(calls) ==
  /\ slOpen' = FALSE /\ busy' = FALSE
  /\ slCalls' = {[c EXCEPT !.inDialog = FALSE] : c \in calls}
  /\ UNCHANGED form

(* onClose: the detail unmounts its dialog, whichever one is open. *)
Closed(calls) ==
  /\ slOpen' = FALSE
  /\ form' = BlankForm /\ busy' = FALSE
  /\ slCalls' = {[c EXCEPT !.inDialog = FALSE] : c \in calls}

CancelDialog ==
  /\ slOpen
  /\ Closed(slCalls)
  /\ UNCHANGED <<configured, selectedId, slServer, slShown, slSent, slFaults>>

-----------------------------------------------------------------------------
SendsSl(op) ==
  /\ slSent < MaxSlCalls
  /\ slSent' = slSent + 1
  /\ busy' = TRUE
  /\ slCalls' = slCalls \cup
       {[id |-> slSent + 1, op |-> op, on |-> selectedId,
         threshold |-> form.typed, understood |-> form.understood,
         stage |-> "sent", inDialog |-> TRUE, onPage |-> TRUE]}
  /\ UNCHANGED <<configured, selectedId, slOpen, form, slServer, slShown, slFaults>>

CanConfirm == /\ form.understood # NoStrategy
              /\ form.typed # NoStrategy
              /\ ~busy

OnArm == slOpen /\ CanConfirm /\ SendsSl("arm")

\* The Disarm button is there while the copy says ARMED.
OnDisarm == slOpen /\ slShown[selectedId] = "ARMED" /\ ~busy /\ SendsSl("disarm")

Stage(c, stage) == (slCalls \ {c}) \cup {[c EXCEPT !.stage = stage]}

(* The request succeeds on the server; its answer may still be lost. *)
ServerObeys(c) ==
  /\ c.stage = "sent"
  /\ c.op = "disarm" => slServer[c.on] = "ARMED"
  /\ slServer' = [slServer EXCEPT ![c.on] = IF c.op = "arm" THEN "ARMED" ELSE "off"]
  /\ \/ slCalls' = Stage(c, "ok") /\ UNCHANGED slFaults
     \/ /\ slFaults < MaxSlFaults /\ slFaults' = slFaults + 1
        /\ slCalls' = Stage(c, "failed")
  /\ UNCHANGED <<configured, selectedId, slOpen, form, busy, slShown, slSent>>

(* 409 for a stop-loss that is not armed. *)
NotArmed(c) ==
  /\ c.stage = "sent" /\ c.op = "disarm" /\ slServer[c.on] # "ARMED"
  /\ slCalls' = Stage(c, "failed")
  /\ UNCHANGED <<configured, selectedId, slOpen, form, busy, slServer, slShown,
                 slSent, slFaults>>

(* 403, 422, 503, or the request is lost. *)
ServerRefuses(c) ==
  /\ c.stage = "sent" /\ slFaults < MaxSlFaults
  /\ slFaults' = slFaults + 1
  /\ slCalls' = Stage(c, "failed")
  /\ UNCHANGED <<configured, selectedId, slOpen, form, busy, slServer, slShown, slSent>>

(* The list of the strategies has been refetched. *)
ListRefetched(c) ==
  /\ c.stage = "ok"
  /\ slCalls' = Stage(c, "done")
  /\ UNCHANGED <<configured, selectedId, slOpen, form, busy, slServer, slShown,
                 slSent, slFaults>>

(* The rest of onArm or onDisarm: onClose, and setBusy(false) in any case. *)
CallSucceeds(c) ==
  /\ c.stage = "done"
  /\ IF c.onPage THEN Closed(slCalls \ {c})
                 ELSE slCalls' = slCalls \ {c} /\ UNCHANGED <<slOpen, form, busy>>
  /\ UNCHANGED <<configured, selectedId, slServer, slShown, slSent, slFaults>>

NotBusy == busy' = FALSE

CallFails(c) ==
  /\ c.stage = "failed"
  /\ slCalls' = slCalls \ {c}
  /\ IF c.inDialog THEN NotBusy ELSE UNCHANGED busy
  /\ UNCHANGED <<configured, selectedId, slOpen, form, slServer, slShown, slSent, slFaults>>

-----------------------------------------------------------------------------
(* The monitor fires. *)
StopTriggers(s) ==
  /\ slServer[s] = "ARMED"
  /\ slServer' = [slServer EXCEPT ![s] = "TRIGGERED"]
  /\ UNCHANGED <<configured, selectedId, slOpen, form, busy, slShown, slCalls,
                 slSent, slFaults>>

(* A frame or a poll brings the state of the strategy that is shown. *)
ShownUpdates ==
  /\ DetailShown
  /\ slShown' = [slShown EXCEPT ![selectedId] = slServer[selectedId]]
  /\ UNCHANGED <<configured, selectedId, slOpen, form, busy, slServer, slCalls,
                 slSent, slFaults>>

LiveDeskNext ==
  \/ \E s \in Strategies : SelectStrategy(s) \/ StopTriggers(s)
  \/ ConfigurationChanges \/ LeavePage \/ OpenDialog \/ FillForm \/ CancelDialog
  \/ OnArm \/ OnDisarm \/ ShownUpdates
  \/ \E c \in slCalls : \/ ServerObeys(c) \/ NotArmed(c) \/ ServerRefuses(c)
                        \/ ListRefetched(c) \/ CallSucceeds(c) \/ CallFails(c)

LiveDeskSpec == LiveDeskInit /\ [][LiveDeskNext]_liveDeskVars

-----------------------------------------------------------------------------
(* Real orders are authorised only by a box ticked, and a threshold typed, *)
(* in a dialog of that very strategy: consent given for one strategy, or   *)
(* in a dialog since cancelled, never arms another.                        *)
(* StopLossDialog.tsx:24-29, 51, 77-84.                                    *)
ConsentIsForThisStrategy ==
  \A c \in slCalls : c.op = "arm" => c.understood = c.on /\ c.threshold = c.on

(* A dialog has at most one request under way, and its buttons are blocked *)
(* exactly while it has one: neither a failure nor the answer to an        *)
(* earlier dialog leaves them blocked or frees them too early.             *)
(* StopLossDialog.tsx:98-112, 214-236.                                     *)
BusyWhileAwaiting ==
  LET mine == {c \in slCalls : c.inDialog}
  IN  busy = (mine # {}) /\ Cardinality(mine) <= 1

=============================================================================
