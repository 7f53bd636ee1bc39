---------------------------- MODULE StrategyDesk ----------------------------
(***************************************************************************)
(* The paper-trading page (pages/paper/PaperTradePage.tsx): the modal that *)
(* previews and executes a strategy (StrategyPreviewModal.tsx), the list   *)
(* of open positions (usePaperPositions, PaperPositionsTable.tsx) and the  *)
(* dialog that closes one (ClosePositionDialog.tsx), over the requests of  *)
(* lib/paperApi.ts.  The builder that hands a spec to the modal is module  *)
(* StrategyBuilder; here a spec is its number.  The server's answers are   *)
(* external.  The page behind a dialog can be used while it is open: the   *)
(* focus is not trapped.  The page itself can be left for another tab and  *)
(* entered again at any time (Section1Paper.tsx:43,131): its components    *)
(* are new then, its requests, the list and its fetch are not, as only the *)
(* page observes the query of the list.                                    *)
(***************************************************************************)
EXTENDS Naturals, Sequences, FiniteSets

CONSTANTS
  MaxPreviews, MaxCloses,  \* bounds on the previews and the confirmed closes
  MaxFaults,               \* bound on the refused, lost and failed requests
  NoChoice                 \* null

ASSUME DeskBounds == {MaxPreviews, MaxCloses} \subseteq Nat /\ MaxFaults \in Nat
ASSUME NoChoiceIsNoId == NoChoice \notin Nat

VARIABLES
  here,       \* the page is on the screen
  specs,      \* how many specs were previewed; the last one is the modal's
  open,       \* previewSpec is not null: the modal is on the page
  phase,      \* of the modal
  preview,    \* the draft the modal shows, or null
  calls,      \* requests whose caller still awaits something
  closers,    \* pending setTimeout(onClose, 600)
  drafts,     \* server: draft id -> number of the spec it holds
  positions,  \* server: position id -> [draft, shown, status]
  listing,    \* positions the page lists
  fetching,   \* a fetch of the list is under way
  fetched,    \* what the server read for it, or null
  listingOk,  \* the last fetch that ended had succeeded
  loaded,     \* a fetch of the list has succeeded: the query has data
  marked,     \* the query is invalidated
  missed,     \* positions an answer already read lists, whose close ended
              \* while the page was left; until the next read
  closing,    \* the position of the close dialog, or null
  closePhase,
  closes,     \* how many closes were confirmed
  told,       \* positions reported as closed
  faults

book == <<drafts, positions>>
list == <<here, listing, fetching, fetched, listingOk, loaded, marked, missed>>
modal == <<specs, open, phase, preview, closers>>
dialog == <<closing, closePhase, closes, told>>
deskVars == <<modal, calls, book, list, dialog, faults>>

Calls == [op : {"preview", "execute", "close"}, on : Nat, shown : Nat,
          stage : {"sent", "ok", "refused", "lost", "refetching", "done"},
          awaited : BOOLEAN, left : BOOLEAN]

DeskTypeOK ==
  /\ here \in BOOLEAN /\ specs \in Nat
  /\ open \in BOOLEAN
  /\ phase \in {"loading", "ready", "executing", "executed", "error"}
  /\ preview \in DOMAIN drafts \cup {NoChoice}
  /\ calls \subseteq Calls
  /\ closers \in Nat
  /\ \A d \in DOMAIN drafts : drafts[d] \in 1..specs
  /\ \A p \in DOMAIN positions :
       positions[p] \in [draft : DOMAIN drafts, shown : 1..specs,
                         status : {"open", "closed"}]
  /\ listing \subseteq DOMAIN positions
  /\ fetching \in BOOLEAN
  /\ fetched = NoChoice \/ fetched \subseteq DOMAIN positions
  /\ listingOk \in BOOLEAN /\ loaded \in BOOLEAN /\ marked \in BOOLEAN
  /\ missed \subseteq DOMAIN positions
  /\ closing \in DOMAIN positions \cup {NoChoice}
  /\ closePhase \in {"confirm", "closing", "closed", "error"}
  /\ closes \in Nat
  /\ told \subseteq DOMAIN positions
  /\ faults \in 0..MaxFaults

DeskInit ==
  /\ specs = 0 /\ open = FALSE /\ phase = "loading" /\ preview = NoChoice
  /\ calls = {} /\ closers = 0
  /\ drafts = <<>> /\ positions = <<>>
  /\ here = FALSE /\ listing = {} /\ fetching = FALSE /\ fetched = NoChoice
  /\ listingOk = TRUE /\ loaded = FALSE /\ marked = FALSE /\ missed = {}
  /\ closing = NoChoice /\ closePhase = "confirm" /\ closes = 0 /\ told = {}
  /\ faults = 0

-----------------------------------------------------------------------------
\* Mutant of Forgotten: an overtaken request is not cancelled.
NotForgotten(ops) == calls

(* The component instance that awaits these requests goes away, or its     *)
(* effect is cleaned up.                                                   *)
Forgotten(ops) ==
  {IF c.op \in ops THEN [c EXCEPT !.awaited = FALSE] ELSE c : c \in calls}

Request(op, on, shown) ==
  [op |-> op, on |-> on, shown |-> shown, stage |-> "sent",
   awaited |-> TRUE, left |-> FALSE]

Staged(c, stage) == (calls \ {c}) \cup {[c EXCEPT !.stage = stage]}

(* What ends a fetch ends the wait of whoever awaited it. *)
Woken(S) == {IF d.stage = "refetching" THEN [d EXCEPT !.stage = "done"] ELSE d : d \in S}

(* Another tab: every component of the page goes away, with its pending    *)
(* timers' effect.  The requests go on, and so does a fetch of the list.   *)
LeavePaper ==
  /\ here /\ here' = FALSE
  /\ open' = FALSE /\ preview' = NoChoice /\ phase' = "loading" /\ closers' = 0
  /\ closing' = NoChoice /\ closePhase' = "confirm"
  /\ calls' = {[c EXCEPT !.awaited = FALSE, !.left = TRUE] : c \in calls}
  /\ UNCHANGED <<specs, book, listing, fetching, fetched, listingOk, loaded, marked,
                 missed, closes, told, faults>>

(* The query is fetched on mount if it has no data, is invalidated or is   *)
(* older than its staleTime, whose clock is left out; a fetch under way is *)
(* joined.                                                                 *)
EnterPaper ==
  /\ ~here /\ here' = TRUE
  /\ \/ fetching' = TRUE
     \/ loaded /\ ~marked /\ UNCHANGED fetching
  /\ UNCHANGED <<modal, calls, book, listing, fetched, listingOk, loaded, marked,
                 missed, dialog, faults>>

(* openPreview, and the modal's effect on the new spec: the request of an  *)
(* earlier spec is cancelled, the modal itself stays if it was open.       *)
OpenPreview ==
  /\ here /\ specs < MaxPreviews
  /\ specs' = specs + 1
  /\ open' = TRUE
  /\ phase' = "loading"
  /\ preview' = IF open THEN preview ELSE NoChoice
  /\ calls' = Forgotten({"preview"}) \cup {Request("preview", specs + 1, specs + 1)}
  /\ UNCHANGED <<closers, book, list, dialog, faults>>

(* X, Cancel, or the timer of an execution that succeeded. *)
ClosedModal ==
  /\ open' = FALSE
  /\ preview' = NoChoice /\ phase' = "loading"
  /\ calls' = Forgotten({"preview", "execute"})
  /\ UNCHANGED <<specs, book, list, dialog, faults>>

CancelPreview == open /\ ClosedModal /\ UNCHANGED closers

TimedClose ==
  /\ closers > 0
  /\ closers' = closers - 1
  /\ IF open THEN ClosedModal
             ELSE UNCHANGED <<specs, open, phase, preview, calls,
                              book, list, dialog, faults>>

(* The server keeps the spec as a draft and previews it. *)
DraftSaved(c) ==
  /\ c.op = "preview" /\ c.stage = "sent"
  /\ drafts' = Append(drafts, c.on)
  /\ \/ /\ calls' = (calls \ {c}) \cup
                      {[c EXCEPT !.stage = "ok", !.on = Len(drafts) + 1]}
        /\ UNCHANGED faults
     \/ /\ faults < MaxFaults /\ faults' = faults + 1
        /\ calls' = Staged(c, "lost")
  /\ UNCHANGED <<modal, positions, list, dialog>>

(* Insufficient depth, or any other refusal. *)
Refuses(c) ==
  /\ c.stage = "sent" /\ faults < MaxFaults
  /\ faults' = faults + 1
  /\ calls' = Staged(c, "refused")
  /\ UNCHANGED <<modal, book, list, dialog>>

(* The continuations of previewStrategy: nothing if the effect was         *)
(* cleaned up.                                                             *)
PreviewAnswers(c) ==
  /\ c.op = "preview" /\ c.stage \in {"ok", "refused", "lost"}
  /\ calls' = calls \ {c}
  /\ IF c.awaited
       THEN /\ phase' = IF c.stage = "ok" THEN "ready" ELSE "error"
            /\ preview' = IF c.stage = "ok" THEN c.on ELSE preview
       ELSE UNCHANGED <<phase, preview>>
  /\ UNCHANGED <<specs, open, closers, book, list, dialog, faults>>

-----------------------------------------------------------------------------
\* Mutant of Executable: it also retries after an error.
ExecutableOnError == open /\ phase \in {"ready", "error"} /\ preview # NoChoice

(* The Execute button is enabled. *)
Executable == open /\ phase = "ready" /\ preview # NoChoice

Execute ==
  /\ Executable
  /\ phase' = "executing"
  /\ calls' = calls \cup {Request("execute", preview, specs)}
  /\ UNCHANGED <<specs, open, preview, closers, book, list,
                 dialog, faults>>

(* The server opens the position; its answer may be lost. *)
PositionOpened(c) ==
  /\ c.op = "execute" /\ c.stage = "sent"
  /\ positions' = Append(positions, [draft |-> c.on, shown |-> c.shown, status |-> "open"])
  /\ \/ calls' = Staged(c, "ok") /\ UNCHANGED faults
     \/ /\ faults < MaxFaults /\ faults' = faults + 1
        /\ calls' = Staged(c, "lost")
  /\ UNCHANGED <<modal, drafts, list, dialog>>

(* The server closes it. *)
PositionClosed(c) ==
  /\ c.op = "close" /\ c.stage = "sent" /\ positions[c.on].status = "open"
  /\ positions' = [positions EXCEPT ![c.on].status = "closed"]
  /\ \/ calls' = Staged(c, "ok") /\ UNCHANGED faults
     \/ /\ faults < MaxFaults /\ faults' = faults + 1
        /\ calls' = Staged(c, "lost")
  /\ UNCHANGED <<modal, drafts, list, dialog>>

(* A position that is closed already is not closed again. *)
AlreadyClosed(c) ==
  /\ c.op = "close" /\ c.stage = "sent" /\ positions[c.on].status = "closed"
  /\ calls' = Staged(c, "refused")
  /\ UNCHANGED <<modal, book, list, dialog, faults>>

\* Mutant of Refetched: it joins the fetch under way.
RefetchedJoins ==
  fetching' = TRUE /\ UNCHANGED fetched

(* A fetch under way is cancelled if the query has data, joined if not;    *)
(* else a new one starts.                                                  *)
Refetched ==
  /\ fetching' = TRUE
  /\ IF loaded THEN fetched' = NoChoice ELSE UNCHANGED fetched

(* A request that succeeded is followed by invalidateQueries, which awaits *)
(* the refetch it causes; a fetch that is cancelled ends the wait of       *)
(* whoever awaited it.  Without the page the query has no observer: it is  *)
(* marked, and neither cancelled nor refetched.                            *)
Invalidate(c) ==
  /\ c.op \in {"execute", "close"} /\ c.stage = "ok"
  /\ marked' = TRUE
  /\ \/ /\ here /\ Refetched
        /\ calls' = (IF loaded THEN Woken(calls \ {c}) ELSE calls \ {c})
                      \cup {[c EXCEPT !.stage = "refetching"]}
        /\ UNCHANGED missed
     \/ /\ ~here /\ UNCHANGED <<fetching, fetched>>
        /\ calls' = Staged(c, "done")
        /\ missed' = missed \cup
             {p \in {c.on} : c.op = "close" /\ fetched # NoChoice /\ p \in fetched}
  /\ UNCHANGED <<here, listing, listingOk, loaded, modal, book, dialog, faults>>

(* refetchInterval, while the page is there: joins a fetch under way. *)
Poll ==
  /\ here /\ ~fetching
  /\ fetching' = TRUE
  /\ UNCHANGED <<here, modal, calls, book, listing, fetched, listingOk, loaded, marked,
                 missed, dialog, faults>>

(* listPositions("open"): the server reads, ... *)
ServerLists ==
  /\ fetching /\ fetched = NoChoice
  /\ fetched' = {p \in DOMAIN positions : positions[p].status = "open"}
  /\ missed' = {}
  /\ UNCHANGED <<here, modal, calls, book, listing, fetching, listingOk, loaded, marked,
                 dialog, faults>>

(* ... and the answer arrives, or the fetch fails and the old rows stay.   *)
(* Whoever awaited the fetch goes on either way.                           *)
FetchEnds ==
  /\ fetching /\ fetched # NoChoice
  /\ fetching' = FALSE /\ fetched' = NoChoice
  /\ \/ /\ listing' = fetched /\ listingOk' = TRUE
        /\ loaded' = TRUE /\ marked' = FALSE
        /\ UNCHANGED faults
     \/ /\ faults < MaxFaults /\ faults' = faults + 1
        /\ listingOk' = FALSE /\ UNCHANGED <<listing, loaded, marked>>
  /\ calls' = Woken(calls)
  /\ UNCHANGED <<here, missed, modal, book, dialog>>

(* The rest of onExecute.  The phase is the modal's, if it is still there; *)
(* the timer is set in any case, and does nothing on a page that was left. *)
ExecuteEnds(c) ==
  /\ c.op = "execute" /\ c.stage \in {"done", "refused", "lost"}
  /\ calls' = calls \ {c}
  /\ phase' = IF ~c.awaited THEN phase
              ELSE IF c.stage = "done" THEN "executed" ELSE "error"
  /\ closers' = IF c.stage = "done" /\ ~c.left THEN closers + 1 ELSE closers
  /\ UNCHANGED <<specs, open, preview, book, list, dialog, faults>>

-----------------------------------------------------------------------------
(* The Close button of a row. *)
OpenClose(p) ==
  /\ here /\ p \in listing /\ p # closing
  /\ closing' = p
  /\ closePhase' = IF closing = NoChoice THEN "confirm" ELSE closePhase
  /\ UNCHANGED <<modal, calls, book, list, closes, told, faults>>

(* X, Cancel and Done. *)
CancelClose ==
  /\ closing # NoChoice
  /\ closing' = NoChoice /\ closePhase' = "confirm"
  /\ calls' = Forgotten({"close"})
  /\ UNCHANGED <<modal, book, list, closes, told, faults>>

ConfirmClose ==
  /\ closing # NoChoice /\ closePhase \in {"confirm", "error"}
  /\ closes < MaxCloses /\ closes' = closes + 1
  /\ closePhase' = "closing"
  /\ calls' = calls \cup {Request("close", closing, 0)}
  /\ UNCHANGED <<modal, book, list, closing, told, faults>>

(* The rest of onConfirm: the toast is shown in any case. *)
CloseEnds(c) ==
  /\ c.op = "close" /\ c.stage \in {"done", "refused", "lost"}
  /\ calls' = calls \ {c}
  /\ closePhase' = IF ~c.awaited THEN closePhase
                   ELSE IF c.stage = "done" THEN "closed" ELSE "error"
  /\ told' = IF c.stage = "done" THEN told \cup {c.on} ELSE told
  /\ UNCHANGED <<modal, book, list, closing, closes, faults>>

-----------------------------------------------------------------------------
Previewing == OpenPreview \/ CancelPreview \/ TimedClose \/ Execute
Closing == (\E p \in listing : OpenClose(p)) \/ CancelClose \/ ConfirmClose
Listing == Poll \/ ServerLists \/ FetchEnds
Answering == \E c \in calls :
  \/ DraftSaved(c) \/ PositionOpened(c) \/ PositionClosed(c) \/ AlreadyClosed(c)
  \/ Refuses(c)
  \/ PreviewAnswers(c) \/ Invalidate(c) \/ ExecuteEnds(c) \/ CloseEnds(c)

DeskNext == LeavePaper \/ EnterPaper \/ Previewing \/ Closing \/ Listing \/ Answering

DeskSpec == DeskInit /\ [][DeskNext]_deskVars

-----------------------------------------------------------------------------
(* A draft is executed at most once, however answers are lost, modals      *)
(* cancelled and reopened, and previews overlap: nothing the page offers   *)
(* sends a second execution of what may already have been executed.        *)
(* StrategyPreviewModal.tsx:58-81, 223.                                    *)
DraftOpensOnePosition ==
  \A p, q \in DOMAIN positions : positions[p].draft = positions[q].draft => p = q

(* What is opened is what the modal showed when Execute was clicked, not   *)
(* an earlier preview whose answer came late.                              *)
(* StrategyPreviewModal.tsx:33-56, 64.                                     *)
OpenedAsShown ==
  \A p \in DOMAIN positions : drafts[positions[p].draft] = positions[p].shown

(* Once a position has been reported as closed and no fetch of the list is *)
(* under way, the page lists it no longer, unless the last fetch failed: a *)
(* list read before the close does not win, polls, other refetches and     *)
(* leaving the page included, except in one way.  When the close is        *)
(* answered while the page is left and an answer that was read before it   *)
(* is on its way, nothing cancels that answer, and it takes the mark with  *)
(* it: on a return within staleTime the page lists the position until it   *)
(* polls again.  ClosePositionDialog.tsx:54-55, usePaperPositions.ts:8-11. *)
ClosedIsDelisted ==
  here /\ ~fetching /\ listingOk => (told \ missed) \cap listing = {}

=============================================================================
