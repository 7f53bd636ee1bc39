------------------------- MODULE StrategyDeskProofs -------------------------
(***************************************************************************)
(* What the paper page promises: module StrategyDesk for any number of     *)
(* previews, executions, closes and faults, and the footer of module       *)
(* StrategyBuilder for any legs on any chains.                             *)
(***************************************************************************)
EXTENDS StrategyDesk, StrategyBuilder, Induction, TLAPS

Phases == {"loading", "ready", "executing", "executed", "error"}
Position == [draft : Nat, shown : Nat, status : {"open", "closed"}]

(* What a request refers to exists. *)
Refers(c) ==
  /\ c.op = "preview" /\ c.stage = "sent" => c.on \in 1..specs
  /\ c.op = "preview" /\ c.stage = "ok" => c.on \in DOMAIN drafts
  /\ c.op = "execute" => c.on \in DOMAIN drafts /\ c.shown \in 1..specs
  /\ c.op = "close" => c.on \in DOMAIN positions

BookOK ==
  /\ specs \in Nat
  /\ drafts \in Seq(Nat) /\ positions \in Seq(Position)
  /\ \A d \in DOMAIN drafts : drafts[d] \in 1..specs
  /\ \A p \in DOMAIN positions : /\ positions[p].draft \in DOMAIN drafts
                                 /\ positions[p].shown \in 1..specs
CallsOK == calls \subseteq Calls /\ \A c \in calls : Refers(c)
ModalOK == /\ open \in BOOLEAN /\ phase \in Phases /\ closers \in Nat
           /\ preview \in DOMAIN drafts \cup {NoChoice}
ListOK == /\ listing \subseteq DOMAIN positions
          /\ fetching \in BOOLEAN /\ listingOk \in BOOLEAN
          /\ here \in BOOLEAN /\ loaded \in BOOLEAN /\ marked \in BOOLEAN
          /\ missed \subseteq DOMAIN positions
          /\ fetched = NoChoice \/ fetched \subseteq DOMAIN positions
DialogOK == /\ closing \in DOMAIN positions \cup {NoChoice}
            /\ closePhase \in {"confirm", "closing", "closed", "error"}
            /\ closes \in Nat /\ told \subseteq DOMAIN positions

DeskTyped == /\ BookOK /\ CallsOK /\ ModalOK /\ ListOK /\ DialogOK
             /\ faults \in 0..MaxFaults
-----------------------------------------------------------------------------
(* a is request b some steps later: still about the same thing, awaited    *)
(* only if it was, neither sent again nor, a preview, answered.            *)
Later(b, a) ==
  /\ a.op = b.op /\ a.on = b.on /\ a.shown = b.shown
  /\ a.awaited => b.awaited
  /\ a.stage = "sent" => b.stage = "sent"
  /\ a.op = "preview" /\ a.stage = "ok" => b.stage = "ok"

(* Every request of S is a different one of the requests under way, later. *)
Descend(S) ==
  /\ S \subseteq Calls
  /\ \E f \in [S -> calls] : /\ \A a \in S : Later(f[a], a)
                             /\ \A a, b \in S : f[a] = f[b] => a = b

(* The step from a request to its successor is a function.                 *)
LEMMA ImageDescends ==
  ASSUME NEW g \in [calls -> Calls], \A b \in calls : Later(b, g[b])
  PROVE  Descend({g[b] : b \in calls})
<1> DEFINE S == {g[b] : b \in calls}
           f == [a \in S |-> CHOOSE b \in calls : g[b] = a]
<1>1. \A a \in S : f[a] \in calls /\ g[f[a]] = a
  OBVIOUS
<1>2. f \in [S -> calls]
  BY <1>1
<1>3. \A a \in S : Later(f[a], a)
  BY <1>1
<1>4. \A a, b \in S : f[a] = f[b] => a = b
  BY <1>1
<1>5. S \subseteq Calls
  OBVIOUS
<1> HIDE DEF S, f
<1>6. Descend(S)
  BY <1>2, <1>3, <1>4, <1>5 DEF Descend
<1> QED BY <1>6 DEF S

LEMMA SubsetDescends ==
  ASSUME calls \subseteq Calls, NEW S \in SUBSET calls
  PROVE  Descend(S)
<1> DEFINE f == [a \in S |-> a]
<1>1. f \in [S -> calls] /\ \A a \in S : f[a] = a
  OBVIOUS
<1>2. \A a \in S : Later(a, a)
  BY DEF Later
<1> HIDE DEF f
<1> QED BY <1>1, <1>2 DEF Descend

(* The helpers of the requests: Staged and Forgotten.                      *)
LEMMA StagedDescends ==
  ASSUME calls \subseteq Calls, NEW c \in calls,
         NEW stage \in {"ok", "refused", "lost", "refetching", "done"},
         c.op = "preview" => stage # "ok"
  PROVE  Descend(Staged(c, stage))
<1> DEFINE e == [c EXCEPT !.stage = stage]
           g == [b \in calls |-> IF b = c THEN e ELSE b]
<1>1. c \in Calls
  OBVIOUS
<1>2. e \in Calls /\ Later(c, e)
  BY <1>1 DEF Calls, Later
<1>3. \A b \in calls : Later(b, b)
  BY DEF Later
<1> HIDE DEF e
<1>4. g \in [calls -> Calls] /\ \A b \in calls : Later(b, g[b])
  BY <1>2, <1>3
<1>5. Staged(c, stage) = {g[b] : b \in calls}
  BY DEF Staged, e
<1> HIDE DEF g
<1> QED BY <1>4, <1>5, ImageDescends

LEMMA ForgottenDescends ==
  ASSUME calls \subseteq Calls, NEW ops
  PROVE  /\ Descend(Forgotten(ops))
         /\ \A a \in Forgotten(ops) : a.op \in ops => ~a.awaited
<1> DEFINE g == [c \in calls |-> IF c.op \in ops THEN [c EXCEPT !.awaited = FALSE] ELSE c]
<1>1. ASSUME NEW c \in calls
      PROVE  /\ g[c] \in Calls /\ Later(c, g[c])
             /\ g[c].op \in ops => ~g[c].awaited
  <2>1. c \in Calls
    OBVIOUS
  <2>2. CASE c.op \in ops
    <3>1. g[c] = [c EXCEPT !.awaited = FALSE]
      BY <2>2
    <3> QED BY <2>1, <3>1 DEF Calls, Later
  <2>3. CASE c.op \notin ops
    <3>1. g[c] = c
      BY <2>3
    <3> QED BY <2>1, <2>3, <3>1 DEF Later
  <2> QED BY <2>2, <2>3
<1>2. Forgotten(ops) = {g[c] : c \in calls}
  BY DEF Forgotten
<1>3. g \in [calls -> Calls]
  BY <1>1
<1> HIDE DEF g
<1>4. Descend({g[c] : c \in calls})
  BY <1>1, <1>3, ImageDescends
<1> QED BY <1>1, <1>2, <1>4

(* Leaving the page: nobody awaits anything any longer.                    *)
LEMMA LeftDescends ==
  ASSUME calls \subseteq Calls, LeavePaper
  PROVE  Descend(calls') /\ \A a \in calls' : ~a.awaited
<1> DEFINE g == [c \in calls |-> [c EXCEPT !.awaited = FALSE, !.left = TRUE]]
<1>1. ASSUME NEW c \in calls
      PROVE  g[c] \in Calls /\ Later(c, g[c]) /\ ~g[c].awaited
  <2>1. c \in Calls
    OBVIOUS
  <2>2. PICK h : h = [c EXCEPT !.awaited = FALSE]
    OBVIOUS
  <2>3. h \in Calls /\ Later(c, h) /\ ~h.awaited
    BY <2>1, <2>2 DEF Calls, Later
  <2>4. g[c] = [h EXCEPT !.left = TRUE]
    BY <2>1, <2>2 DEF Calls
  <2> QED BY <2>3, <2>4 DEF Calls, Later
<1>2. calls' = {g[c] : c \in calls}
  BY DEF LeavePaper
<1>3. g \in [calls -> Calls]
  BY <1>1
<1> HIDE DEF g
<1>4. Descend({g[b] : b \in calls})
  BY <1>1, <1>3, ImageDescends
<1> QED BY <1>1, <1>2, <1>4

LEMMA WokenDescends ==
  ASSUME calls \subseteq Calls
  PROVE  /\ Descend(Woken(calls))
         /\ \A c \in calls : (c.op # "preview" /\ c.stage = "ok") =>
              Descend(Woken(calls \ {c}) \cup {[c EXCEPT !.stage = "refetching"]})
<1> DEFINE w == [d \in calls |-> IF d.stage = "refetching" THEN [d EXCEPT !.stage = "done"]
                                                           ELSE d]
<1>1. ASSUME NEW d \in calls PROVE w[d] \in Calls /\ Later(d, w[d])
  <2>1. d \in Calls
    OBVIOUS
  <2>2. CASE d.stage = "refetching"
    <3>1. w[d] = [d EXCEPT !.stage = "done"]
      BY <2>2
    <3> QED BY <2>1, <3>1 DEF Calls, Later
  <2>3. CASE d.stage # "refetching"
    <3>1. w[d] = d
      BY <2>3
    <3> QED BY <2>1, <3>1 DEF Later
  <2> QED BY <2>2, <2>3
<1>2. Woken(calls) = {w[d] : d \in calls} /\ w \in [calls -> Calls]
  BY <1>1 DEF Woken
<1>3. Descend(Woken(calls))
  <2> HIDE DEF w
  <2> QED BY <1>1, <1>2, ImageDescends
<1>4. ASSUME NEW c \in calls, c.op # "preview", c.stage = "ok"
      PROVE  Descend(Woken(calls \ {c}) \cup {[c EXCEPT !.stage = "refetching"]})
  <2> DEFINE e == [c EXCEPT !.stage = "refetching"]
             g == [d \in calls |-> IF d = c THEN e ELSE w[d]]
  <2>1. c \in Calls
    OBVIOUS
  <2>2. e \in Calls /\ Later(c, e)
    BY <1>4, <2>1 DEF Calls, Later
  <2>3. \A d \in calls \ {c} :
          w[d] = IF d.stage = "refetching" THEN [d EXCEPT !.stage = "done"] ELSE d
    OBVIOUS
  <2> HIDE DEF e, w
  <2>4. g \in [calls -> Calls] /\ \A d \in calls : Later(d, g[d])
    BY <1>1, <2>2
  <2>5. Woken(calls \ {c}) = {w[d] : d \in calls \ {c}}
    BY <2>3 DEF Woken
  <2>6. Woken(calls \ {c}) \cup {e} = {g[d] : d \in calls}
    BY <2>5
  <2> HIDE DEF g
  <2>7. Descend(Woken(calls \ {c}) \cup {e})
    BY <2>4, <2>6, ImageDescends
  <2> QED BY <2>7 DEF e
<1> QED BY <1>3, <1>4

(* An invalidation ends the wait of others, or no wait at all.             *)
LEMMA InvalidateDescends ==
  ASSUME calls \subseteq Calls, NEW c \in calls, Invalidate(c)
  PROVE  Descend(calls')
<1>1. c.op # "preview" /\ c.stage = "ok"
  BY DEF Invalidate
<1>2. \/ calls' = Woken(calls \ {c}) \cup {[c EXCEPT !.stage = "refetching"]}
      \/ calls' = Staged(c, "refetching") \/ calls' = Staged(c, "done")
  BY DEF Invalidate, Staged
<1>3. Descend(Staged(c, "refetching")) /\ Descend(Staged(c, "done"))
  BY StagedDescends
<1>4. Descend(Woken(calls \ {c}) \cup {[c EXCEPT !.stage = "refetching"]})
  BY <1>1, WokenDescends
<1> QED BY <1>2, <1>3, <1>4

-----------------------------------------------------------------------------
(* Requests go on referring to what exists: drafts and positions are only  *)
(* added.                                                                  *)
LEMMA DescendantsRefer ==
  ASSUME CallsOK, NEW S, Descend(S)
  PROVE  S \subseteq Calls /\ \A a \in S : Refers(a)
<1>1. PICK f \in [S -> calls] : \A a \in S : Later(f[a], a)
  BY DEF Descend
<1>2. ASSUME NEW a \in S PROVE Refers(a)
  <2>1. Refers(f[a]) /\ Later(f[a], a) /\ f[a] \in Calls
    BY <1>1 DEF CallsOK
  <2> QED BY <2>1 DEF Refers, Later
<1> QED BY <1>2 DEF Descend

LEMMA ReferenceStays ==
  ASSUME NEW c, Refers(c), specs \in Nat, specs' \in Nat, specs <= specs',
         DOMAIN drafts \subseteq DOMAIN drafts',
         DOMAIN positions \subseteq DOMAIN positions'
  PROVE  Refers(c)'
BY DEF Refers

(* The books, the requests, the modal, the list and the dialog stay well   *)
(* formed: whatever an answer, however late, refers to exists.             *)
THEOREM DeskTypeCorrect == DeskSpec => []DeskTyped
<1> USE DeskBounds, NoChoiceIsNoId
<1>1. DeskInit => DeskTyped
  <2> SUFFICES ASSUME DeskInit PROVE DeskTyped
    OBVIOUS
  <2>1. BookOK
    BY DEF DeskInit, BookOK
  <2>2. CallsOK
    BY DEF DeskInit, CallsOK
  <2>3. ModalOK
    BY DEF DeskInit, ModalOK, Phases
  <2>4. ListOK /\ DialogOK
    BY DEF DeskInit, ListOK, DialogOK
  <2>5. faults \in 0..MaxFaults
    BY DEF DeskInit
  <2> QED BY <2>1, <2>2, <2>3, <2>4, <2>5 DEF DeskTyped
<1>2. DeskTyped /\ [DeskNext]_deskVars => DeskTyped'
  <2> SUFFICES ASSUME DeskTyped, [DeskNext]_deskVars
               PROVE  DeskTyped'
    OBVIOUS
  <2>0. calls \subseteq Calls /\ BookOK /\ CallsOK /\ ModalOK /\ ListOK /\ DialogOK
        /\ faults \in 0..MaxFaults
    BY DEF DeskTyped, CallsOK
  \* Requests go on, the books stay: what is left to show.
  <2>1. ASSUME Descend(calls'), UNCHANGED <<specs, book>>,
               ModalOK', ListOK', DialogOK', faults' \in 0..MaxFaults
        PROVE  DeskTyped'
    <3>1. calls' \subseteq Calls /\ \A a \in calls' : Refers(a)
      BY <2>0, <2>1, DescendantsRefer
    <3>2. CallsOK'
      BY <2>1, <3>1 DEF CallsOK, Refers, book
    <3>3. BookOK'
      BY <2>0, <2>1 DEF BookOK, book
    <3> QED BY <2>1, <3>2, <3>3 DEF DeskTyped
  <2>2. ASSUME NEW r \in Calls, calls' = calls \cup {r}, Refers(r), UNCHANGED <<specs, book>>,
               ModalOK', ListOK', DialogOK', faults' \in 0..MaxFaults
        PROVE  DeskTyped'
    <3>1. CallsOK'
      BY <2>0, <2>2 DEF CallsOK, Refers, book
    <3>2. BookOK'
      BY <2>0, <2>2 DEF BookOK, book
    <3> QED BY <2>2, <3>1, <3>2 DEF DeskTyped
  <2>3. ASSUME UNCHANGED book, UNCHANGED list PROVE ListOK'
    BY <2>0, <2>3 DEF ListOK, book, list
  <2>4. ASSUME UNCHANGED book, UNCHANGED dialog PROVE DialogOK'
    BY <2>0, <2>4 DEF DialogOK, book, dialog
  <2>5. ASSUME UNCHANGED book, UNCHANGED modal PROVE ModalOK'
    BY <2>0, <2>5 DEF ModalOK, book, modal
  <2>6. ASSUME OpenPreview PROVE DeskTyped'
    <3>0. PICK r : r = Request("preview", specs + 1, specs + 1)
      OBVIOUS
    <3>1. r \in Calls /\ specs \in Nat /\ specs' = specs + 1
      BY <2>0, <2>6, <3>0 DEF OpenPreview, BookOK, Calls, Request
    <3>2. calls' = Forgotten({"preview"}) \cup {r}
      BY <2>6, <3>0 DEF OpenPreview
    <3>3. /\ Forgotten({"preview"}) \subseteq Calls
          /\ \A a \in Forgotten({"preview"}) : Refers(a)
      BY <2>0, ForgottenDescends, DescendantsRefer
    <3>4. UNCHANGED book /\ UNCHANGED list /\ UNCHANGED dialog /\ UNCHANGED faults
      BY <2>6 DEF OpenPreview
    <3>5. Refers(r)'
      BY <3>0, <3>1 DEF Refers, Request
    <3>6. \A a \in calls' : Refers(a)'
      <4>1. \A a \in Forgotten({"preview"}) : Refers(a)'
        BY <3>1, <3>3, <3>4, ReferenceStays DEF book
      <4> QED BY <3>2, <3>5, <4>1
    <3>7. CallsOK'
      BY <3>1, <3>2, <3>3, <3>6 DEF CallsOK
    <3>8. BookOK'
      BY <2>0, <3>1, <3>4 DEF BookOK, book
    <3>9. ModalOK'
      BY <2>0, <2>6, <3>4 DEF OpenPreview, ModalOK, Phases, book
    <3> QED BY <2>0, <2>3, <2>4, <3>4, <3>7, <3>8, <3>9 DEF DeskTyped
  <2>7. ASSUME ClosedModal, closers' \in Nat PROVE DeskTyped'
    <3>1. Descend(calls')
      BY <2>0, <2>7, ForgottenDescends DEF ClosedModal
    <3>2. ModalOK'
      BY <2>7 DEF ClosedModal, ModalOK, Phases
    <3> QED BY <2>0, <2>1, <2>3, <2>4, <2>7, <3>1, <3>2 DEF ClosedModal
  <2>8. ASSUME CancelPreview PROVE DeskTyped'
    BY <2>0, <2>7, <2>8 DEF CancelPreview, ModalOK
  <2>9. ASSUME TimedClose PROVE DeskTyped'
    <3>1. closers' \in Nat
      BY <2>0, <2>9 DEF TimedClose, ModalOK
    <3>2. CASE open
      BY <2>7, <2>9, <3>1, <3>2 DEF TimedClose
    <3>3. CASE ~open
      <4>1. UNCHANGED <<specs, open, phase, preview, calls, book, list, dialog, faults>>
        BY <2>9, <3>3 DEF TimedClose
      <4>2. Descend(calls')
        BY <2>0, <4>1, SubsetDescends
      <4>3. ModalOK'
        BY <2>0, <3>1, <4>1 DEF ModalOK, book
      <4> QED BY <2>0, <2>1, <2>3, <2>4, <4>1, <4>2, <4>3
    <3> QED BY <3>2, <3>3
  <2>10. ASSUME NEW c \in calls, DraftSaved(c) PROVE DeskTyped'
    <3>0. PICK e : e = [c EXCEPT !.stage = "ok", !.on = Len(drafts) + 1]
      OBVIOUS
    <3>1. /\ c \in Calls /\ c.op = "preview" /\ c.stage = "sent" /\ c.on \in 1..specs
          /\ specs \in Nat /\ drafts \in Seq(Nat)
      BY <2>0, <2>10 DEF DraftSaved, CallsOK, Refers, BookOK
    <3>2. /\ drafts' = Append(drafts, c.on) /\ Len(drafts) \in Nat
          /\ DOMAIN drafts = 1..Len(drafts) /\ DOMAIN drafts' = 1..(Len(drafts) + 1)
          /\ \A d \in DOMAIN drafts : drafts'[d] = drafts[d]
          /\ drafts'[Len(drafts) + 1] = c.on
      BY <2>10, <3>1 DEF DraftSaved
    <3>3. UNCHANGED modal /\ UNCHANGED positions /\ UNCHANGED list /\ UNCHANGED dialog
      BY <2>10 DEF DraftSaved
    <3>4. BookOK'
      <4>1. drafts' \in Seq(Nat) /\ positions' \in Seq(Position) /\ specs' \in Nat
        BY <2>0, <3>1, <3>2, <3>3 DEF BookOK, modal
      <4>2. \A d \in DOMAIN drafts' : drafts'[d] \in 1..specs'
        BY <2>0, <3>1, <3>2, <3>3 DEF BookOK, modal
      <4> QED BY <2>0, <3>1, <3>2, <3>3, <4>1, <4>2 DEF BookOK, modal
    <3>5. e \in Calls /\ e.op = "preview" /\ e.stage = "ok" /\ e.on = Len(drafts) + 1
      <4>1. PICK h : h = [c EXCEPT !.stage = "ok"]
        OBVIOUS
      <4>2. h \in Calls /\ h.op = "preview" /\ h.stage = "ok"
        BY <3>1, <4>1 DEF Calls
      <4>3. e = [h EXCEPT !.on = Len(drafts) + 1] /\ Len(drafts) + 1 \in Nat
        BY <3>0, <3>1, <3>2, <4>1 DEF Calls
      <4> QED BY <4>2, <4>3 DEF Calls
    <3>6. /\ Staged(c, "lost") \subseteq Calls
          /\ \A a \in Staged(c, "lost") : Refers(a)
      BY <2>0, StagedDescends, DescendantsRefer
    <3>7. calls' \subseteq Staged(c, "lost") \cup calls \cup {e}
      BY <2>10, <3>0 DEF DraftSaved
    <3>8. /\ specs' = specs /\ DOMAIN drafts \subseteq DOMAIN drafts'
          /\ DOMAIN positions' = DOMAIN positions
      BY <3>2, <3>3 DEF modal
    <3>9. Refers(e)'
      BY <3>2, <3>5 DEF Refers
    <3>10. CallsOK'
      <4>1. calls' \subseteq Calls
        BY <2>0, <3>5, <3>6, <3>7
      <4>2. \A a \in Staged(c, "lost") \cup calls : Refers(a)'
        BY <2>0, <3>1, <3>6, <3>8, ReferenceStays DEF CallsOK
      <4> QED BY <3>7, <3>9, <4>1, <4>2 DEF CallsOK
    <3>11. ModalOK' /\ ListOK' /\ DialogOK'
      BY <2>0, <3>3, <3>8 DEF ModalOK, ListOK, DialogOK, modal, list, dialog
    <3>12. faults' \in 0..MaxFaults
      BY <2>0, <2>10 DEF DraftSaved
    <3> QED BY <3>4, <3>10, <3>11, <3>12 DEF DeskTyped
  <2>11. ASSUME NEW c \in calls, Refuses(c) PROVE DeskTyped'
    <3>1. Descend(calls') /\ faults' \in 0..MaxFaults
      BY <2>0, <2>11, StagedDescends DEF Refuses
    <3> QED BY <2>0, <2>1, <2>3, <2>4, <2>5, <2>11, <3>1 DEF Refuses, modal
  <2>12. ASSUME NEW c \in calls, PreviewAnswers(c) PROVE DeskTyped'
    <3>1. Descend(calls')
      BY <2>0, <2>12, SubsetDescends DEF PreviewAnswers
    <3>2. ModalOK'
      BY <2>0, <2>12 DEF PreviewAnswers, ModalOK, Phases, CallsOK, Refers, book
    <3> QED BY <2>0, <2>1, <2>3, <2>4, <2>12, <3>1, <3>2 DEF PreviewAnswers
  <2>13. ASSUME Execute PROVE DeskTyped'
    <3> DEFINE r == Request("execute", preview, specs)
    <3>1. preview \in DOMAIN drafts /\ specs \in Nat /\ drafts[preview] \in 1..specs
          /\ preview \in Nat
      BY <2>0, <2>13 DEF Execute, Executable, ModalOK, BookOK
    <3>2. r \in Calls /\ Refers(r)
      BY <3>1 DEF Calls, Request, Refers
    <3>3. ModalOK'
      BY <2>0, <2>13 DEF Execute, ModalOK, Phases, book
    <3> HIDE DEF r
    <3>4. calls' = calls \cup {r}
      BY <2>13 DEF Execute, r
    <3> QED BY <2>0, <2>2, <2>3, <2>4, <2>13, <3>2, <3>3, <3>4 DEF Execute
  <2>14. ASSUME NEW c \in calls, PositionOpened(c) PROVE DeskTyped'
    <3> DEFINE new == [draft |-> c.on, shown |-> c.shown, status |-> "open"]
    <3>1. /\ c \in Calls /\ c.on \in DOMAIN drafts /\ c.shown \in 1..specs
          /\ c.op = "execute" /\ specs \in Nat /\ drafts \in Seq(Nat)
          /\ positions \in Seq(Position)
      BY <2>0, <2>14 DEF PositionOpened, CallsOK, Refers, BookOK
    <3>2. new \in Position
      BY <3>1 DEF Position
    <3>3. positions' = Append(positions, new)
      BY <2>14 DEF PositionOpened
    <3>4. UNCHANGED modal /\ UNCHANGED drafts /\ UNCHANGED list /\ UNCHANGED dialog
      BY <2>14 DEF PositionOpened
    <3>5. new.draft = c.on /\ new.shown = c.shown
      OBVIOUS
    <3> HIDE DEF new
    <3>6. /\ positions' \in Seq(Position) /\ DOMAIN positions \subseteq DOMAIN positions'
          /\ \A p \in DOMAIN positions' : \/ p \in DOMAIN positions /\ positions'[p] = positions[p]
                                          \/ positions'[p] = new
      <4>1. positions' \in Seq(Position)
        BY <3>1, <3>2, <3>3
      <4>2. /\ DOMAIN positions = 1..Len(positions) /\ Len(positions) \in Nat
            /\ DOMAIN positions' = 1..(Len(positions) + 1)
        BY <3>1, <3>3
      <4>3. /\ \A p \in 1..Len(positions) : positions'[p] = positions[p]
            /\ positions'[Len(positions) + 1] = new
        BY <3>1, <3>3
      <4> QED BY <4>1, <4>2, <4>3
    <3>7. BookOK'
      BY <2>0, <3>1, <3>4, <3>5, <3>6 DEF BookOK, modal
    <3>8. Descend(calls') /\ faults' \in 0..MaxFaults
      <4>1. Descend(Staged(c, "ok")) /\ Descend(Staged(c, "lost"))
        BY <2>0, <3>1, StagedDescends
      <4>2. calls' \in {Staged(c, "ok"), Staged(c, "lost")} /\ faults' \in 0..MaxFaults
        BY <2>0, <2>14 DEF PositionOpened
      <4> QED BY <4>1, <4>2
    <3>9. CallsOK'
      <4>1. calls' \subseteq Calls /\ \A a \in calls' : Refers(a)
        BY <2>0, <3>8, DescendantsRefer
      <4>2. \A a \in calls' : Refers(a)'
        BY <3>1, <3>4, <3>6, <4>1, ReferenceStays DEF modal
      <4> QED BY <4>1, <4>2 DEF CallsOK
    <3>10. ModalOK' /\ ListOK' /\ DialogOK'
      BY <2>0, <3>4, <3>6 DEF ModalOK, ListOK, DialogOK, modal, list, dialog
    <3> QED BY <3>7, <3>8, <3>9, <3>10 DEF DeskTyped
  <2>15. ASSUME NEW c \in calls, PositionClosed(c) PROVE DeskTyped'
    <3>1. /\ c \in Calls /\ c.on \in DOMAIN positions /\ c.op = "close"
          /\ positions \in Seq(Position) /\ positions[c.on] \in Position
      BY <2>0, <2>15 DEF PositionClosed, CallsOK, Refers, BookOK
    <3> DEFINE e == [positions[c.on] EXCEPT !.status = "closed"]
    <3>2. e \in Position /\ e.draft = positions[c.on].draft /\ e.shown = positions[c.on].shown
      BY <3>1 DEF Position
    <3>3. positions' = [positions EXCEPT ![c.on] = e]
      BY <2>15 DEF PositionClosed
    <3>4. UNCHANGED modal /\ UNCHANGED drafts /\ UNCHANGED list /\ UNCHANGED dialog
      BY <2>15 DEF PositionClosed
    <3> HIDE DEF e
    <3>5. /\ positions' \in Seq(Position) /\ DOMAIN positions' = DOMAIN positions
          /\ \A p \in DOMAIN positions' : /\ positions'[p].draft = positions[p].draft
                                          /\ positions'[p].shown = positions[p].shown
      BY <3>1, <3>2, <3>3
    <3>6. BookOK'
      BY <2>0, <3>4, <3>5 DEF BookOK, modal
    <3>7. Descend(calls') /\ faults' \in 0..MaxFaults
      <4>1. Descend(Staged(c, "ok")) /\ Descend(Staged(c, "lost"))
        BY <2>0, <3>1, StagedDescends
      <4>2. calls' \in {Staged(c, "ok"), Staged(c, "lost")} /\ faults' \in 0..MaxFaults
        BY <2>0, <2>15 DEF PositionClosed
      <4> QED BY <4>1, <4>2
    <3>8. CallsOK'
      <4>1. calls' \subseteq Calls /\ \A a \in calls' : Refers(a)
        BY <2>0, <3>7, DescendantsRefer
      <4> QED BY <3>4, <3>5, <4>1 DEF CallsOK, Refers, modal
    <3>9. ModalOK' /\ ListOK' /\ DialogOK'
      BY <2>0, <3>4, <3>5 DEF ModalOK, ListOK, DialogOK, modal, list, dialog
    <3> QED BY <3>6, <3>7, <3>8, <3>9 DEF DeskTyped
  <2>16. ASSUME NEW c \in calls, AlreadyClosed(c) PROVE DeskTyped'
    <3>1. Descend(calls')
      BY <2>0, <2>16, StagedDescends DEF AlreadyClosed
    <3> QED BY <2>0, <2>1, <2>3, <2>4, <2>5, <2>16, <3>1 DEF AlreadyClosed, modal
  <2>17. ASSUME NEW c \in calls, Invalidate(c) PROVE DeskTyped'
    <3>1. Descend(calls')
      BY <2>0, <2>17, InvalidateDescends
    <3>2. ListOK'
      BY <2>0, <2>17 DEF Invalidate, Refetched, ListOK, book
    <3> QED BY <2>0, <2>1, <2>4, <2>5, <2>17, <3>1, <3>2 DEF Invalidate, modal
  <2>18. ASSUME Poll \/ ServerLists PROVE DeskTyped'
    <3>1. UNCHANGED modal /\ UNCHANGED calls /\ UNCHANGED book /\ UNCHANGED dialog
          /\ UNCHANGED faults
      BY <2>18 DEF Poll, ServerLists
    <3>2. Descend(calls')
      BY <2>0, <3>1, SubsetDescends
    <3>3. ListOK'
      BY <2>0, <2>18 DEF Poll, ServerLists, ListOK, book
    <3> QED BY <2>0, <2>1, <2>4, <2>5, <3>1, <3>2, <3>3 DEF modal
  <2>19. ASSUME FetchEnds PROVE DeskTyped'
    <3>1. Descend(calls')
      BY <2>0, <2>19, WokenDescends DEF FetchEnds
    <3>2. faults' \in 0..MaxFaults
      BY <2>0, <2>19 DEF FetchEnds
    <3>3. ListOK'
      <4>1. /\ listing' \in {listing, fetched} /\ fetched # NoChoice
            /\ fetching' = FALSE /\ fetched' = NoChoice /\ listingOk' \in BOOLEAN
            /\ loaded' \in BOOLEAN /\ marked' \in BOOLEAN
            /\ UNCHANGED <<here, missed>> /\ UNCHANGED book
        BY <2>0, <2>19 DEF FetchEnds, ListOK
      <4> QED BY <2>0, <4>1 DEF ListOK, book
    <3> QED BY <2>0, <2>1, <2>4, <2>5, <2>19, <3>1, <3>2, <3>3 DEF FetchEnds, modal
  <2>20. ASSUME NEW c \in calls, ExecuteEnds(c) PROVE DeskTyped'
    <3>1. Descend(calls')
      BY <2>0, <2>20, SubsetDescends DEF ExecuteEnds
    <3>2. ModalOK'
      BY <2>0, <2>20 DEF ExecuteEnds, ModalOK, Phases, book
    <3> QED BY <2>0, <2>1, <2>3, <2>4, <2>20, <3>1, <3>2 DEF ExecuteEnds
  <2>21. ASSUME NEW p \in listing, OpenClose(p) PROVE DeskTyped'
    <3>1. Descend(calls')
      BY <2>0, <2>21, SubsetDescends DEF OpenClose
    <3>2. DialogOK'
      BY <2>0, <2>21 DEF OpenClose, DialogOK, ListOK, book
    <3> QED BY <2>0, <2>1, <2>3, <2>5, <2>21, <3>1, <3>2 DEF OpenClose, modal
  <2>22. ASSUME CancelClose PROVE DeskTyped'
    <3>1. Descend(calls')
      BY <2>0, <2>22, ForgottenDescends DEF CancelClose
    <3>2. DialogOK'
      BY <2>0, <2>22 DEF CancelClose, DialogOK, book
    <3> QED BY <2>0, <2>1, <2>3, <2>5, <2>22, <3>1, <3>2 DEF CancelClose, modal
  <2>23. ASSUME ConfirmClose PROVE DeskTyped'
    <3> DEFINE r == Request("close", closing, 0)
    <3>1. closing \in DOMAIN positions /\ closing \in Nat
      BY <2>0, <2>23 DEF ConfirmClose, DialogOK, BookOK
    <3>2. r \in Calls /\ Refers(r)
      BY <3>1 DEF Calls, Request, Refers
    <3>3. DialogOK'
      BY <2>0, <2>23 DEF ConfirmClose, DialogOK, book
    <3> HIDE DEF r
    <3>4. calls' = calls \cup {r}
      BY <2>23 DEF ConfirmClose, r
    <3> QED BY <2>0, <2>2, <2>3, <2>5, <2>23, <3>2, <3>3, <3>4 DEF ConfirmClose, modal
  <2>24. ASSUME NEW c \in calls, CloseEnds(c) PROVE DeskTyped'
    <3>1. Descend(calls')
      BY <2>0, <2>24, SubsetDescends DEF CloseEnds
    <3>2. DialogOK'
      BY <2>0, <2>24 DEF CloseEnds, DialogOK, CallsOK, Refers, book
    <3> QED BY <2>0, <2>1, <2>3, <2>5, <2>24, <3>1, <3>2 DEF CloseEnds, modal
  <2>25. CASE UNCHANGED deskVars
    <3>1. Descend(calls')
      BY <2>0, <2>25, SubsetDescends DEF deskVars
    <3> QED BY <2>0, <2>1, <2>3, <2>4, <2>5, <2>25, <3>1 DEF deskVars, modal
  <2>26. CASE LeavePaper
    <3>1. Descend(calls')
      BY <2>0, <2>26, LeftDescends
    <3>2. ModalOK' /\ ListOK' /\ DialogOK'
      BY <2>0, <2>26 DEF LeavePaper, ModalOK, Phases, ListOK, DialogOK, book
    <3> QED BY <2>0, <2>1, <2>26, <3>1, <3>2 DEF LeavePaper
  <2>27. CASE EnterPaper
    <3>1. UNCHANGED modal /\ UNCHANGED calls /\ UNCHANGED book /\ UNCHANGED dialog
          /\ UNCHANGED faults
      BY <2>27 DEF EnterPaper
    <3>2. Descend(calls')
      BY <2>0, <3>1, SubsetDescends
    <3>3. ListOK'
      BY <2>0, <2>27 DEF EnterPaper, ListOK, book
    <3> QED BY <2>0, <2>1, <2>4, <2>5, <3>1, <3>2, <3>3 DEF modal
  <2> QED BY <2>6, <2>8, <2>9, <2>10, <2>11, <2>12, <2>13, <2>14, <2>15, <2>16, <2>17,
             <2>18, <2>19, <2>20, <2>21, <2>22, <2>23, <2>24, <2>25, <2>26, <2>27
          DEF DeskNext, Previewing, Closing, Listing, Answering
<1> QED BY <1>1, <1>2, PTL DEF DeskSpec

(* The type invariant of the runs.                                         *)
LEMMA TypedIsTypeOK == DeskTyped => DeskTypeOK
<1> SUFFICES ASSUME DeskTyped PROVE DeskTypeOK
  OBVIOUS
<1>1. BookOK /\ CallsOK /\ ModalOK /\ ListOK /\ DialogOK /\ faults \in 0..MaxFaults
  BY DEF DeskTyped
<1>2. ASSUME NEW p \in DOMAIN positions
      PROVE  positions[p] \in [draft : DOMAIN drafts, shown : 1..specs,
                               status : {"open", "closed"}]
  <2>1. /\ positions[p] \in Position /\ positions[p].draft \in DOMAIN drafts
        /\ positions[p].shown \in 1..specs
    BY <1>1 DEF BookOK
  <2> QED BY <2>1 DEF Position
<1> QED BY <1>1, <1>2 DEF DeskTypeOK, BookOK, CallsOK, ModalOK, ListOK, DialogOK, Phases

(* Type correctness of the paper-trading page.                             *)
THEOREM DeskTypes == DeskSpec => []DeskTypeOK
BY DeskTypeCorrect, TypedIsTypeOK, PTL

-----------------------------------------------------------------------------
(* A draft that an execution is under way for, or that opened a position.  *)
Spent(d) == \/ \E c \in calls : c.op = "execute" /\ c.on = d
            \/ \E p \in DOMAIN positions : positions[p].draft = d

(* The modal takes this preview's answer.                                  *)
Awaited(c) == c.op = "preview" /\ c.awaited

(* The one preview whose answer the modal takes is that of the last spec;  *)
(* its draft is fresh, and so is the one the modal can execute.            *)
FreshPreview ==
  /\ \A c \in calls : Awaited(c) =>
       /\ open /\ phase # "ready"
       /\ c.stage = "sent" => c.on = specs
       /\ c.stage = "ok" => drafts[c.on] = specs /\ ~Spent(c.on)
  /\ \A c, d \in calls : Awaited(c) /\ Awaited(d) => c = d
  /\ phase = "ready" /\ preview # NoChoice =>
       drafts[preview] = specs /\ ~Spent(preview)

(* A draft has one execution, which opens one position, of what was shown. *)
OneExecution ==
  /\ \A c \in calls : c.op = "execute" => drafts[c.on] = c.shown
  /\ \A c, d \in calls : c.op = "execute" /\ d.op = "execute" /\ c.on = d.on => c = d
  /\ \A c \in calls : c.op = "execute" /\ c.stage = "sent" =>
       \A p \in DOMAIN positions : positions[p].draft # c.on

OneUse == FreshPreview /\ OneExecution /\ DraftOpensOnePosition /\ OpenedAsShown

\* The positions are the same up to their status.
SamePositions ==
  /\ DOMAIN positions' = DOMAIN positions
  /\ \A p \in DOMAIN positions : /\ positions'[p].draft = positions[p].draft
                                 /\ positions'[p].shown = positions[p].shown

(* Executions that go on stay the only ones of their drafts.               *)
LEMMA ExecutionsDescend ==
  ASSUME OneExecution, NEW S, Descend(S)
  PROVE  /\ \A a \in S : a.op = "execute" =>
              /\ drafts[a.on] = a.shown /\ Spent(a.on)
              /\ a.stage = "sent" => \A p \in DOMAIN positions : positions[p].draft # a.on
         /\ \A a, b \in S : a.op = "execute" /\ b.op = "execute" /\ a.on = b.on => a = b
<1>1. PICK f \in [S -> calls] : /\ \A a \in S : Later(f[a], a)
                                /\ \A a, b \in S : f[a] = f[b] => a = b
  BY DEF Descend
<1>2. ASSUME NEW a \in S, a.op = "execute"
      PROVE  /\ drafts[a.on] = a.shown /\ Spent(a.on)
             /\ a.stage = "sent" => \A p \in DOMAIN positions : positions[p].draft # a.on
  <2>1. f[a] \in calls /\ Later(f[a], a)
    BY <1>1
  <2> QED BY <1>2, <2>1 DEF Later, OneExecution, Spent
<1>3. ASSUME NEW a \in S, NEW b \in S, a.op = "execute", b.op = "execute", a.on = b.on
      PROVE  a = b
  <2>1. f[a] \in calls /\ Later(f[a], a) /\ f[b] \in calls /\ Later(f[b], b)
    BY <1>1
  <2>2. f[a] = f[b]
    BY <1>3, <2>1 DEF Later, OneExecution
  <2> QED BY <1>1, <2>2
<1> QED BY <1>2, <1>3

(* So does the preview the modal waits for.                                *)
LEMMA PreviewsDescend ==
  ASSUME FreshPreview, NEW S, Descend(S)
  PROVE  /\ \A a \in S : Awaited(a) =>
              /\ open /\ phase # "ready"
              /\ a.stage = "sent" => a.on = specs
              /\ a.stage = "ok" => drafts[a.on] = specs /\ ~Spent(a.on)
         /\ \A a, b \in S : Awaited(a) /\ Awaited(b) => a = b
<1>1. PICK f \in [S -> calls] : /\ \A a \in S : Later(f[a], a)
                                /\ \A a, b \in S : f[a] = f[b] => a = b
  BY DEF Descend
<1>2. ASSUME NEW a \in S, Awaited(a)
      PROVE  /\ open /\ phase # "ready"
             /\ a.stage = "sent" => a.on = specs
             /\ a.stage = "ok" => drafts[a.on] = specs /\ ~Spent(a.on)
  <2>1. f[a] \in calls /\ Later(f[a], a)
    BY <1>1
  <2> QED BY <1>2, <2>1 DEF Later, Awaited, FreshPreview
<1>3. ASSUME NEW a \in S, NEW b \in S, Awaited(a), Awaited(b)
      PROVE  a = b
  <2>1. f[a] \in calls /\ Later(f[a], a) /\ f[b] \in calls /\ Later(f[b], b)
    BY <1>1
  <2>2. f[a] = f[b]
    BY <1>3, <2>1 DEF Later, Awaited, FreshPreview
  <2> QED BY <1>1, <2>2
<1> QED BY <1>2, <1>3

(* The step of requests that only go on: no draft is used again.           *)
LEMMA GoingOn ==
  ASSUME DeskTyped, OneUse, Descend(calls'), SamePositions,
         specs' = specs, drafts' = drafts,
         open' = open \/ \A a \in calls' : ~Awaited(a),
         (phase' = phase /\ preview' = preview) \/ phase' # "ready"
  PROVE  OneUse'
<1>1. \A a \in calls' : a.op = "execute" =>
        /\ drafts[a.on] = a.shown /\ Spent(a.on)
        /\ a.stage = "sent" => \A p \in DOMAIN positions : positions[p].draft # a.on
  BY ExecutionsDescend DEF OneUse
<1>2. \A a, b \in calls' : a.op = "execute" /\ b.op = "execute" /\ a.on = b.on => a = b
  BY ExecutionsDescend DEF OneUse
<1>3. \A a \in calls' : Awaited(a) =>
        /\ open /\ phase # "ready"
        /\ a.stage = "sent" => a.on = specs
        /\ a.stage = "ok" => drafts[a.on] = specs /\ ~Spent(a.on)
  BY PreviewsDescend DEF OneUse
<1>4. \A a, b \in calls' : Awaited(a) /\ Awaited(b) => a = b
  BY PreviewsDescend DEF OneUse
<1>5. ASSUME NEW d, Spent(d)' PROVE Spent(d)
  <2>1. CASE \E c \in calls' : c.op = "execute" /\ c.on = d
    BY <1>1, <2>1
  <2>2. CASE \E p \in DOMAIN positions' : positions'[p].draft = d
    BY <2>2 DEF SamePositions, Spent
  <2> QED BY <1>5, <2>1, <2>2 DEF Spent
<1>6. OneExecution'
  BY <1>1, <1>2 DEF OneExecution, SamePositions
<1>7. FreshPreview'
  <2>1. \A c \in calls' : Awaited(c) =>
          /\ open' /\ phase' # "ready"
          /\ c.stage = "sent" => c.on = specs'
          /\ c.stage = "ok" => drafts'[c.on] = specs' /\ ~Spent(c.on)'
    BY <1>3, <1>5
  <2>2. phase' = "ready" /\ preview' # NoChoice =>
          drafts'[preview'] = specs' /\ ~(Spent(preview)')
    <3> SUFFICES ASSUME phase' = "ready", preview' # NoChoice
                 PROVE  drafts'[preview'] = specs' /\ ~(Spent(preview)')
      OBVIOUS
    <3>1. phase = "ready" /\ preview' = preview /\ preview # NoChoice
      OBVIOUS
    <3>2. drafts[preview] = specs /\ ~Spent(preview)
      BY <3>1 DEF OneUse, FreshPreview
    <3>3. PICK d : d = preview
      OBVIOUS
    <3>4. ~(Spent(d)')
      BY <1>5, <3>2, <3>3
    <3>5. ~(Spent(preview)')
      BY <3>1, <3>3, <3>4 DEF Spent
    <3> QED BY <3>1, <3>2, <3>5
  <2> QED BY <1>4, <2>1, <2>2 DEF FreshPreview
<1>8. DraftOpensOnePosition' /\ OpenedAsShown'
  BY DEF OneUse, DraftOpensOnePosition, OpenedAsShown, SamePositions
<1> QED BY <1>6, <1>7, <1>8 DEF OneUse

(* The three steps that bring in something new: a spec, a draft, an        *)
(* execution.                                                              *)
LEMMA OpenPreviewFresh ==
  ASSUME DeskTyped, OneUse, OpenPreview
  PROVE  OneUse'
<1> DEFINE old == Forgotten({"preview"})
<1>1. PICK r : r = Request("preview", specs + 1, specs + 1)
  OBVIOUS
<1>2. /\ calls' = old \cup {r} /\ specs' = specs + 1 /\ open' = TRUE /\ phase' = "loading"
      /\ UNCHANGED book
  BY <1>1 DEF OpenPreview
<1>3. r.op = "preview" /\ r.stage = "sent" /\ r.on = specs + 1
  BY <1>1 DEF Request
<1>4. Descend(old) /\ \A a \in old : a.op = "preview" => ~a.awaited
  BY ForgottenDescends DEF DeskTyped, CallsOK
<1> HIDE DEF old
<1>5. \A a \in calls' : a.op = "execute" =>
        /\ a \in old /\ drafts[a.on] = a.shown
        /\ a.stage = "sent" => \A p \in DOMAIN positions : positions[p].draft # a.on
  BY <1>2, <1>3, <1>4, ExecutionsDescend DEF OneUse
<1>6. \A a, b \in old : a.op = "execute" /\ b.op = "execute" /\ a.on = b.on => a = b
  BY <1>4, ExecutionsDescend DEF OneUse
<1>7. OneExecution'
  BY <1>2, <1>5, <1>6 DEF OneExecution, book
<1>8. \A a \in calls' : Awaited(a) => a = r
  BY <1>2, <1>4 DEF Awaited
<1>9. FreshPreview'
  BY <1>2, <1>3, <1>8 DEF FreshPreview
<1> QED BY <1>2, <1>7, <1>9 DEF OneUse, DraftOpensOnePosition, OpenedAsShown, book

LEMMA DraftSavedFresh ==
  ASSUME DeskTyped, OneUse, NEW c \in calls, DraftSaved(c)
  PROVE  OneUse'
<1>0. /\ calls \subseteq Calls /\ drafts \in Seq(Nat) /\ c \in Calls
      /\ \A p \in DOMAIN positions : positions[p].draft \in DOMAIN drafts
      /\ \A a \in calls : Refers(a)
  BY DEF DeskTyped, CallsOK, BookOK
<1>1. c.op = "preview" /\ c.stage = "sent" /\ drafts' = Append(drafts, c.on)
  BY DEF DraftSaved
<1>2. PICK n : n = Len(drafts) + 1
  OBVIOUS
<1>3. /\ n \notin DOMAIN drafts /\ drafts'[n] = c.on
      /\ \A d \in DOMAIN drafts : drafts'[d] = drafts[d]
  BY <1>0, <1>1, <1>2
<1>4. /\ specs' = specs /\ open' = open /\ phase' = phase /\ preview' = preview
      /\ positions' = positions
  BY DEF DraftSaved, modal
<1>5. PICK e : e \in {[c EXCEPT !.stage = "ok", !.on = n], [c EXCEPT !.stage = "lost"]}
                /\ calls' = (calls \ {c}) \cup {e}
  BY <1>2 DEF DraftSaved, Staged
<1>6. /\ e.op = "preview" /\ e.awaited = c.awaited
      /\ (e.stage = "ok" /\ e.on = n) \/ e.stage = "lost"
  <2>1. c \in Calls
    BY <1>0
  <2>2. CASE e = [c EXCEPT !.stage = "lost"]
    BY <1>1, <2>1, <2>2 DEF Calls
  <2>3. CASE e = [c EXCEPT !.stage = "ok", !.on = n]
    BY <1>1, <2>1, <2>3 DEF Calls
  <2> QED BY <1>5, <2>2, <2>3
<1>7. \A d : Spent(d)' <=> Spent(d)
  <2>1. \A a : (a \in calls' /\ a.op = "execute") <=> (a \in calls /\ a.op = "execute")
    BY <1>1, <1>5, <1>6
  <2> QED BY <1>4, <2>1 DEF Spent
<1>8. ~Spent(n)
  BY <1>0, <1>3 DEF Spent, Refers
<1>9. OneExecution'
  <2>1. \A a \in calls' : a.op = "execute" => a \in calls /\ drafts'[a.on] = drafts[a.on]
    BY <1>0, <1>3, <1>5, <1>6 DEF Refers
  <2> QED BY <1>4, <2>1 DEF OneUse, OneExecution
<1>10. FreshPreview'
  <2>1. ASSUME NEW a \in calls', Awaited(a)
        PROVE  /\ open' /\ phase' # "ready"
               /\ a.stage = "sent" => a.on = specs'
               /\ a.stage = "ok" => drafts'[a.on] = specs' /\ ~Spent(a.on)'
    <3>1. CASE a = e
      <4>1. open /\ phase # "ready" /\ c.on = specs
        BY <1>1, <1>6, <2>1, <3>1 DEF Awaited, OneUse, FreshPreview
      <4> QED BY <1>3, <1>4, <1>6, <1>7, <1>8, <3>1, <4>1
    <3>2. CASE a # e
      <4>1. a \in calls
        BY <1>5, <2>1, <3>2
      <4>2. a.stage = "ok" => a.on \in DOMAIN drafts
        BY <1>0, <2>1, <4>1 DEF Awaited, Refers
      <4> QED BY <1>3, <1>4, <1>7, <2>1, <4>1, <4>2 DEF OneUse, FreshPreview
    <3> QED BY <3>1, <3>2
  <2>2. \A a, b \in calls' : Awaited(a) /\ Awaited(b) => a = b
    <3>1. Awaited(e) => Awaited(c)
      BY <1>1, <1>6 DEF Awaited
    <3> QED BY <1>5, <3>1 DEF OneUse, FreshPreview
  <2>3. phase' = "ready" /\ preview' # NoChoice =>
          drafts'[preview'] = specs' /\ ~(Spent(preview)')
    <3> SUFFICES ASSUME phase = "ready", preview # NoChoice
                 PROVE  drafts'[preview] = specs /\ ~(Spent(preview)')
      BY <1>4
    <3>1. preview \in DOMAIN drafts /\ drafts[preview] = specs /\ ~Spent(preview)
      BY DEF DeskTyped, ModalOK, OneUse, FreshPreview
    <3>2. PICK d : d = preview
      OBVIOUS
    <3>3. ~(Spent(d)')
      BY <1>7, <3>1, <3>2
    <3>4. ~(Spent(preview)')
      BY <1>4, <3>2, <3>3 DEF Spent
    <3> QED BY <1>3, <3>1, <3>4
  <2> QED BY <2>1, <2>2, <2>3 DEF FreshPreview
<1>11. DraftOpensOnePosition' /\ OpenedAsShown'
  BY <1>0, <1>3, <1>4 DEF OneUse, DraftOpensOnePosition, OpenedAsShown
<1> QED BY <1>9, <1>10, <1>11 DEF OneUse

LEMMA ExecuteFresh ==
  ASSUME DeskTyped, OneUse, Execute
  PROVE  OneUse'
<1>1. PICK r : r = Request("execute", preview, specs)
  OBVIOUS
<1>2. r.op = "execute" /\ r.on = preview /\ r.shown = specs
  BY <1>1 DEF Request
<1>3. /\ phase = "ready" /\ preview # NoChoice /\ phase' = "executing"
      /\ calls' = calls \cup {r} /\ UNCHANGED <<specs, open, preview>> /\ UNCHANGED book
  BY <1>1 DEF Execute, Executable
<1>4. drafts[preview] = specs /\ ~Spent(preview) /\ \A c \in calls : ~Awaited(c)
  BY <1>3 DEF OneUse, FreshPreview
<1>5. OneExecution'
  BY <1>2, <1>3, <1>4 DEF OneUse, OneExecution, Spent, book
<1>6. FreshPreview'
  <2>1. \A c \in calls' : ~Awaited(c)
    BY <1>2, <1>3, <1>4 DEF Awaited
  <2> QED BY <1>3, <2>1 DEF FreshPreview
<1> QED BY <1>3, <1>5, <1>6 DEF OneUse, DraftOpensOnePosition, OpenedAsShown, book

(* The modal takes the answer it waits for, and waits for no other.        *)
LEMMA AnswerFresh ==
  ASSUME DeskTyped, OneUse, NEW c \in calls, PreviewAnswers(c)
  PROVE  OneUse'
<1>1. /\ calls' = calls \ {c} /\ UNCHANGED <<specs, open>> /\ UNCHANGED book
      /\ c.op = "preview" /\ calls \subseteq Calls
  BY DEF PreviewAnswers, DeskTyped, CallsOK
<1>2. Descend(calls')
  BY <1>1, SubsetDescends
<1>3. SamePositions /\ drafts' = drafts
  BY <1>1 DEF SamePositions, book
<1>4. CASE ~c.awaited \/ c.stage # "ok"
  <2>1. (phase' = phase /\ preview' = preview) \/ phase' # "ready"
    BY <1>4 DEF PreviewAnswers
  <2> QED BY <1>1, <1>2, <1>3, <2>1, GoingOn
<1>5. CASE c.awaited /\ c.stage = "ok"
  <2>1. Awaited(c) /\ preview' = c.on /\ phase' = "ready"
    BY <1>1, <1>5 DEF PreviewAnswers, Awaited
  <2>2. drafts[c.on] = specs /\ ~Spent(c.on) /\ \A a \in calls' : ~Awaited(a)
    BY <1>1, <1>5, <2>1 DEF OneUse, FreshPreview
  <2>3. \A a : (a \in calls' /\ a.op = "execute") <=> (a \in calls /\ a.op = "execute")
    BY <1>1
  <2>4. PICK d : d = c.on
    OBVIOUS
  <2>5. ~(Spent(d)')
    BY <1>1, <2>2, <2>3, <2>4 DEF Spent, book
  <2>6. ~(Spent(preview)')
    BY <2>1, <2>4, <2>5 DEF Spent
  <2>7. FreshPreview'
    BY <1>1, <1>3, <2>1, <2>2, <2>6 DEF FreshPreview
  <2>8. OneExecution'
    BY <1>1, <2>3 DEF OneUse, OneExecution, book
  <2> QED BY <1>1, <2>7, <2>8 DEF OneUse, DraftOpensOnePosition, OpenedAsShown, book
<1> QED BY <1>4, <1>5

(* The one execution of a draft opens its one position.                    *)
LEMMA OpenedFresh ==
  ASSUME DeskTyped, OneUse, NEW c \in calls, PositionOpened(c)
  PROVE  OneUse'
<1>0. calls \subseteq Calls /\ positions \in Seq(Position) /\ c \in Calls
  BY DEF DeskTyped, CallsOK, BookOK
<1>1. PICK new : new = [draft |-> c.on, shown |-> c.shown, status |-> "open"]
  OBVIOUS
<1>2. new.draft = c.on /\ new.shown = c.shown
  BY <1>1
<1>3. /\ c.op = "execute" /\ c.stage = "sent" /\ positions' = Append(positions, new)
      /\ UNCHANGED modal /\ UNCHANGED drafts
  BY <1>1 DEF PositionOpened
<1>4. PICK n : n = Len(positions) + 1
  OBVIOUS
<1>5. /\ DOMAIN positions' = DOMAIN positions \cup {n} /\ n \notin DOMAIN positions
      /\ positions'[n] = new
      /\ \A p \in DOMAIN positions : positions'[p] = positions[p]
  BY <1>0, <1>3, <1>4
<1>6. PICK e : /\ e \in {[c EXCEPT !.stage = "ok"], [c EXCEPT !.stage = "lost"]}
               /\ calls' = (calls \ {c}) \cup {e}
  BY DEF PositionOpened, Staged
<1>7. e.op = "execute" /\ e.on = c.on /\ e.shown = c.shown /\ e.stage # "sent"
  BY <1>0, <1>3, <1>6 DEF Calls
<1>8. \A a \in calls : a.op = "execute" /\ a.on = c.on => a = c
  BY <1>3 DEF OneUse, OneExecution
<1>9. \A p \in DOMAIN positions : positions[p].draft # c.on
  BY <1>3 DEF OneUse, OneExecution
<1>10. \A d : Spent(d)' <=> Spent(d)
  <2>1. ASSUME NEW d, Spent(d)' PROVE Spent(d)
    <3>1. CASE \E a \in calls' : a.op = "execute" /\ a.on = d
      BY <1>3, <1>6, <1>7, <3>1 DEF Spent
    <3>2. CASE \E p \in DOMAIN positions' : positions'[p].draft = d
      BY <1>2, <1>3, <1>5, <3>2 DEF Spent
    <3> QED BY <2>1, <3>1, <3>2 DEF Spent
  <2>2. ASSUME NEW d, Spent(d) PROVE Spent(d)'
    <3>1. CASE \E a \in calls : a.op = "execute" /\ a.on = d
      BY <1>6, <1>7, <3>1 DEF Spent
    <3>2. CASE \E p \in DOMAIN positions : positions[p].draft = d
      BY <1>5, <3>2 DEF Spent
    <3> QED BY <2>2, <3>1, <3>2 DEF Spent
  <2> QED BY <2>1, <2>2
<1>11. OneExecution'
  <2>1. \A a \in calls' : a.op = "execute" => drafts'[a.on] = a.shown
    BY <1>3, <1>6, <1>7 DEF OneUse, OneExecution
  <2>2. \A a, b \in calls' : a.op = "execute" /\ b.op = "execute" /\ a.on = b.on => a = b
    BY <1>6, <1>7, <1>8 DEF OneUse, OneExecution
  <2>3. ASSUME NEW a \in calls', a.op = "execute", a.stage = "sent",
               NEW p \in DOMAIN positions'
        PROVE  positions'[p].draft # a.on
    <3>1. a \in calls /\ a # c
      BY <1>6, <1>7, <2>3
    <3>2. a.on # c.on /\ \A q \in DOMAIN positions : positions[q].draft # a.on
      BY <1>8, <2>3, <3>1 DEF OneUse, OneExecution
    <3> QED BY <1>2, <1>5, <3>2
  <2> QED BY <2>1, <2>2, <2>3 DEF OneExecution
<1>12. FreshPreview'
  <2>1. \A a : (a \in calls' /\ Awaited(a)) => a \in calls
    BY <1>6, <1>7 DEF Awaited
  <2>2. phase' = phase /\ preview' = preview /\ specs' = specs /\ open' = open
        /\ drafts' = drafts
    BY <1>3 DEF modal
  <2>3. \A a \in calls' : Awaited(a) =>
          /\ open' /\ phase' # "ready"
          /\ a.stage = "sent" => a.on = specs'
          /\ a.stage = "ok" => drafts'[a.on] = specs' /\ ~Spent(a.on)'
    BY <1>10, <2>1, <2>2 DEF OneUse, FreshPreview
  <2>4. phase' = "ready" /\ preview' # NoChoice =>
          drafts'[preview'] = specs' /\ ~(Spent(preview)')
    <3> SUFFICES ASSUME phase = "ready", preview # NoChoice
                 PROVE  drafts[preview] = specs /\ ~(Spent(preview)')
      BY <2>2
    <3>1. drafts[preview] = specs /\ ~Spent(preview)
      BY DEF OneUse, FreshPreview
    <3>2. PICK d : d = preview
      OBVIOUS
    <3>3. ~(Spent(d)')
      BY <1>10, <3>1, <3>2
    <3>4. ~(Spent(preview)')
      BY <2>2, <3>2, <3>3 DEF Spent
    <3> QED BY <3>1, <3>4
  <2> QED BY <2>1, <2>3, <2>4 DEF OneUse, FreshPreview
<1>13. DraftOpensOnePosition'
  BY <1>2, <1>5, <1>9 DEF OneUse, DraftOpensOnePosition
<1>14. OpenedAsShown'
  BY <1>2, <1>3, <1>5 DEF OneUse, OneExecution, OpenedAsShown
<1> QED BY <1>11, <1>12, <1>13, <1>14 DEF OneUse

(* Every step of the page and of the server keeps the drafts of one use.   *)
THEOREM DraftsAreUsedOnce == DeskSpec => []OneUse
<1>1. DeskInit => OneUse
  BY DEF DeskInit, OneUse, FreshPreview, OneExecution, DraftOpensOnePosition,
         OpenedAsShown
<1>2. DeskTyped /\ OneUse /\ [DeskNext]_deskVars => OneUse'
  <2> SUFFICES ASSUME DeskTyped, OneUse, [DeskNext]_deskVars
               PROVE  OneUse'
    OBVIOUS
  <2>0. calls \subseteq Calls
    BY DEF DeskTyped, CallsOK
  <2>1. ASSUME Descend(calls'), UNCHANGED book, UNCHANGED <<specs, open>>,
               UNCHANGED <<phase, preview>> \/ phase' # "ready"
        PROVE  OneUse'
    <3>1. SamePositions
      BY <2>1 DEF SamePositions, book
    <3> QED BY <2>1, <3>1, GoingOn DEF book
  <2>2. ASSUME OpenPreview PROVE OneUse'
    BY <2>2, OpenPreviewFresh
  <2>3. ASSUME ClosedModal PROVE OneUse'
    <3>1. Descend(calls') /\ \A a \in calls' : ~Awaited(a)
      BY <2>0, <2>3, ForgottenDescends DEF ClosedModal, Awaited
    <3>2. SamePositions /\ drafts' = drafts /\ specs' = specs /\ phase' = "loading"
      BY <2>3 DEF ClosedModal, SamePositions, book
    <3> QED BY <3>1, <3>2, GoingOn
  <2>4. ASSUME CancelPreview PROVE OneUse'
    BY <2>3, <2>4 DEF CancelPreview
  <2>5. ASSUME UNCHANGED calls, UNCHANGED book, UNCHANGED <<specs, open, phase, preview>>
        PROVE  OneUse'
    <3>1. Descend(calls')
      BY <2>0, <2>5, SubsetDescends
    <3> QED BY <2>1, <2>5, <3>1
  <2>6. ASSUME TimedClose PROVE OneUse'
    BY <2>3, <2>5, <2>6 DEF TimedClose
  <2>7. ASSUME Execute PROVE OneUse'
    BY <2>7, ExecuteFresh
  <2>8. ASSUME NEW c \in calls, DraftSaved(c) PROVE OneUse'
    BY <2>8, DraftSavedFresh
  <2>9. ASSUME NEW c \in calls, PositionOpened(c) PROVE OneUse'
    BY <2>9, OpenedFresh
  <2>10. ASSUME NEW c \in calls, PositionClosed(c) PROVE OneUse'
    <3>1. /\ Descend(calls') /\ UNCHANGED modal /\ UNCHANGED drafts
      BY <2>0, <2>10, StagedDescends DEF PositionClosed
    <3>2. c.on \in DOMAIN positions /\ positions[c.on] \in Position
      BY <2>10 DEF PositionClosed, DeskTyped, CallsOK, Refers, BookOK
    <3>3. PICK e : e = [positions[c.on] EXCEPT !.status = "closed"]
      OBVIOUS
    <3>4. e.draft = positions[c.on].draft /\ e.shown = positions[c.on].shown
      BY <3>2, <3>3 DEF Position
    <3>5. positions' = [positions EXCEPT ![c.on] = e]
      BY <2>10, <3>3 DEF PositionClosed
    <3>6. SamePositions
      BY <3>2, <3>4, <3>5 DEF SamePositions
    <3> QED BY <3>1, <3>6, GoingOn DEF modal
  <2>11. ASSUME NEW c \in calls, Refuses(c) \/ AlreadyClosed(c) PROVE OneUse'
    <3>1. /\ Descend(calls') /\ UNCHANGED modal /\ UNCHANGED book
      BY <2>0, <2>11, StagedDescends DEF Refuses, AlreadyClosed
    <3> QED BY <2>1, <3>1 DEF modal
  <2>12. ASSUME NEW c \in calls, PreviewAnswers(c) PROVE OneUse'
    BY <2>12, AnswerFresh
  <2>13. ASSUME NEW c \in calls, Invalidate(c) PROVE OneUse'
    <3>1. Descend(calls') /\ UNCHANGED modal /\ UNCHANGED book
      BY <2>0, <2>13, InvalidateDescends DEF Invalidate
    <3> QED BY <2>1, <3>1 DEF modal
  <2>14. ASSUME Poll \/ ServerLists PROVE OneUse'
    BY <2>5, <2>14 DEF Poll, ServerLists, modal
  <2>15. ASSUME FetchEnds PROVE OneUse'
    <3>1. Descend(calls') /\ UNCHANGED modal /\ UNCHANGED book
      BY <2>0, <2>15, WokenDescends DEF FetchEnds
    <3> QED BY <2>1, <3>1 DEF modal
  <2>16. ASSUME NEW c \in calls, ExecuteEnds(c) PROVE OneUse'
    <3>1. Descend(calls')
      BY <2>0, <2>16, SubsetDescends DEF ExecuteEnds
    <3> QED BY <2>1, <2>16, <3>1 DEF ExecuteEnds
  <2>17. ASSUME NEW p \in listing, OpenClose(p) PROVE OneUse'
    BY <2>5, <2>17 DEF OpenClose, modal
  <2>18. ASSUME CancelClose PROVE OneUse'
    <3>1. Descend(calls')
      BY <2>0, <2>18, ForgottenDescends DEF CancelClose
    <3> QED BY <2>1, <2>18, <3>1 DEF CancelClose, modal
  <2>19. ASSUME ConfirmClose PROVE OneUse'
    <3>1. PICK r : r = Request("close", closing, 0)
      OBVIOUS
    <3>2. r.op = "close" /\ calls' = calls \cup {r}
      BY <2>19, <3>1 DEF ConfirmClose, Request
    <3>3. /\ UNCHANGED <<specs, open, phase, preview>> /\ UNCHANGED book
      BY <2>19 DEF ConfirmClose, modal
    <3>4. \A d : Spent(d)' <=> Spent(d)
      BY <3>2, <3>3 DEF Spent, book
    <3>5. OneExecution'
      BY <3>2, <3>3 DEF OneUse, OneExecution, book
    <3>6. FreshPreview'
      <4>1. \A a \in calls' : Awaited(a) => a \in calls
        BY <3>2 DEF Awaited
      <4>2. ~(Spent(preview)) => ~(Spent(preview)')
        BY <3>2, <3>3 DEF Spent, book
      <4> QED BY <3>3, <3>4, <4>1, <4>2 DEF OneUse, FreshPreview, book
    <3> QED BY <3>3, <3>5, <3>6 DEF OneUse, DraftOpensOnePosition, OpenedAsShown, book
  <2>20. ASSUME NEW c \in calls, CloseEnds(c) PROVE OneUse'
    <3>1. Descend(calls')
      BY <2>0, <2>20, SubsetDescends DEF CloseEnds
    <3> QED BY <2>1, <2>20, <3>1 DEF CloseEnds, modal
  <2>21. CASE UNCHANGED deskVars
    BY <2>5, <2>21 DEF deskVars, modal
  <2>22. CASE LeavePaper
    <3>1. Descend(calls') /\ \A a \in calls' : ~Awaited(a)
      BY <2>0, <2>22, LeftDescends DEF Awaited
    <3>2. SamePositions /\ drafts' = drafts /\ specs' = specs /\ phase' = "loading"
      BY <2>22 DEF LeavePaper, SamePositions, book
    <3> QED BY <3>1, <3>2, GoingOn
  <2>23. CASE EnterPaper
    BY <2>5, <2>23 DEF EnterPaper, modal
  <2> QED BY <2>2, <2>4, <2>6, <2>7, <2>8, <2>9, <2>10, <2>11, <2>12, <2>13, <2>14,
             <2>15, <2>16, <2>17, <2>18, <2>19, <2>20, <2>21, <2>22, <2>23
          DEF DeskNext, Previewing, Closing, Listing, Answering
<1> QED BY <1>1, <1>2, DeskTypeCorrect, PTL DEF DeskSpec

(* A draft is executed at most once, however answers are lost, modals      *)
(* reopened and previews overlap (StrategyPreviewModal.tsx:58-81, 223).    *)
THEOREM OnePositionPerDraft == DeskSpec => []DraftOpensOnePosition
<1>1. OneUse => DraftOpensOnePosition
  BY DEF OneUse
<1> QED BY <1>1, DraftsAreUsedOnce, PTL

(* What is opened is what the modal showed when Execute was clicked        *)
(* (StrategyPreviewModal.tsx:33-56, 64).                                   *)
THEOREM ShownIsOpened == DeskSpec => []OpenedAsShown
<1>1. OneUse => OpenedAsShown
  BY DEF OneUse
<1> QED BY <1>1, DraftsAreUsedOnce, PTL

-----------------------------------------------------------------------------
(* A close the server has carried out, and one the list is to forget.      *)
Served(c) == c.op = "close" /\ c.stage \in {"ok", "refetching", "done"}
Reporting(c) == c.op = "close" /\ c.stage \in {"refetching", "done"}
Gone == told \cup {c.on : c \in {d \in calls : Reporting(d)}}
IsClosed(p) == p \in DOMAIN positions /\ positions[p].status = "closed"

(* What can be closed was listed.                                          *)
LoadedFirst ==
  ~loaded => listing = {} /\ closing = NoChoice /\ \A c \in calls : c.op # "close"

LEMMA ClosesDescend ==
  ASSUME NEW S, Descend(S), \A c \in calls : c.op # "close"
  PROVE  \A a \in S : a.op # "close"
BY DEF Descend, Later

(* A position is listed before the page can close it, so an invalidation   *)
(* that follows a close finds a query with data.                           *)
THEOREM ListedBeforeClosed == DeskSpec => []LoadedFirst
<1>1. DeskInit => LoadedFirst
  BY DEF DeskInit, LoadedFirst
<1>2. DeskTyped /\ LoadedFirst /\ [DeskNext]_deskVars => LoadedFirst'
  <2> SUFFICES ASSUME DeskTyped, LoadedFirst, [DeskNext]_deskVars, ~loaded'
               PROVE  /\ listing' = {} /\ closing' = NoChoice
                      /\ \A c \in calls' : c.op # "close"
    BY DEF LoadedFirst
  <2>0. calls \subseteq Calls
    BY DEF DeskTyped, CallsOK
  <2>1. ~loaded
    BY DEF DeskNext, Previewing, Closing, Listing, Answering, deskVars, LeavePaper, EnterPaper,
           OpenPreview, CancelPreview, TimedClose, ClosedModal, Execute, OpenClose, CancelClose,
           ConfirmClose, Poll, ServerLists, FetchEnds, DraftSaved, PositionOpened,
           PositionClosed, AlreadyClosed, Refuses, PreviewAnswers, Invalidate, ExecuteEnds,
           CloseEnds, list
  <2>2. listing = {} /\ closing = NoChoice /\ \A c \in calls : c.op # "close"
    BY <2>1 DEF LoadedFirst
  <2>3. ASSUME Descend(calls') \/ calls' \subseteq calls, listing' = listing, closing' = closing
        PROVE  /\ listing' = {} /\ closing' = NoChoice
               /\ \A c \in calls' : c.op # "close"
    BY <2>2, <2>3, ClosesDescend
  <2>4. CASE LeavePaper
    BY <2>0, <2>2, <2>4, LeftDescends, ClosesDescend DEF LeavePaper
  <2>5. CASE EnterPaper \/ Poll \/ ServerLists
    BY <2>3, <2>5 DEF EnterPaper, Poll, ServerLists, dialog
  <2>6. CASE OpenPreview
    <3>1. PICK r : r = Request("preview", specs + 1, specs + 1)
      OBVIOUS
    <3>2. r.op = "preview" /\ calls' = Forgotten({"preview"}) \cup {r}
      BY <2>6, <3>1 DEF OpenPreview, Request
    <3>3. \A a \in Forgotten({"preview"}) : a.op # "close"
      BY <2>0, <2>2, ForgottenDescends, ClosesDescend
    <3> QED BY <2>2, <2>6, <3>2, <3>3 DEF OpenPreview, list, dialog
  <2>7. ASSUME ClosedModal
        PROVE  /\ listing' = {} /\ closing' = NoChoice
               /\ \A c \in calls' : c.op # "close"
    BY <2>0, <2>3, <2>7, ForgottenDescends DEF ClosedModal, list, dialog
  <2>8. CASE CancelPreview
    BY <2>7, <2>8 DEF CancelPreview
  <2>9. CASE TimedClose
    BY <2>3, <2>7, <2>9 DEF TimedClose, list, dialog
  <2>10. CASE Execute
    <3>1. PICK r : r = Request("execute", preview, specs)
      OBVIOUS
    <3>2. r.op = "execute" /\ calls' = calls \cup {r}
      BY <2>10, <3>1 DEF Execute, Request
    <3> QED BY <2>2, <2>10, <3>2 DEF Execute, list, dialog
  <2>11. ASSUME NEW c \in calls, DraftSaved(c)
         PROVE  /\ listing' = {} /\ closing' = NoChoice
                /\ \A a \in calls' : a.op # "close"
    <3>1. PICK e : e = [c EXCEPT !.stage = "ok", !.on = Len(drafts) + 1]
      OBVIOUS
    <3>2. c \in Calls /\ c.op = "preview"
      BY <2>0, <2>11 DEF DraftSaved
    <3>3. e.op = "preview"
      BY <3>1, <3>2 DEF Calls
    <3>4. calls' = (calls \ {c}) \cup {e} \/ calls' = Staged(c, "lost")
      BY <2>11, <3>1 DEF DraftSaved
    <3>5. listing' = listing /\ closing' = closing
      BY <2>11 DEF DraftSaved, list, dialog
    <3>6. Descend(Staged(c, "lost"))
      BY <2>0, StagedDescends
    <3> QED BY <2>2, <2>3, <3>3, <3>4, <3>5, <3>6
  <2>12. ASSUME NEW c \in calls, \/ PositionOpened(c) \/ PositionClosed(c)
                                 \/ AlreadyClosed(c) \/ Refuses(c)
         PROVE  /\ listing' = {} /\ closing' = NoChoice
                /\ \A a \in calls' : a.op # "close"
    <3>1. \/ calls' = Staged(c, "lost") \/ calls' = Staged(c, "refused")
          \/ calls' = Staged(c, "ok") /\ c.op # "preview"
      BY <2>12 DEF PositionOpened, PositionClosed, AlreadyClosed, Refuses
    <3>2. Descend(calls')
      BY <2>0, <3>1, StagedDescends
    <3> QED BY <2>3, <2>12, <3>2
            DEF PositionOpened, PositionClosed, AlreadyClosed, Refuses, list, dialog
  <2>13. ASSUME NEW c \in calls, PreviewAnswers(c) \/ ExecuteEnds(c) \/ CloseEnds(c)
         PROVE  /\ listing' = {} /\ closing' = NoChoice
                /\ \A a \in calls' : a.op # "close"
    BY <2>3, <2>13 DEF PreviewAnswers, ExecuteEnds, CloseEnds, list, dialog
  <2>14. ASSUME NEW c \in calls, Invalidate(c)
         PROVE  /\ listing' = {} /\ closing' = NoChoice
                /\ \A a \in calls' : a.op # "close"
    BY <2>0, <2>3, <2>14, InvalidateDescends DEF Invalidate, dialog
  <2>15. CASE FetchEnds
    <3>1. calls' = Woken(calls) /\ listing' = listing /\ closing' = closing
      BY <2>15 DEF FetchEnds, dialog
    <3> QED BY <2>0, <2>3, <3>1, WokenDescends
  <2>16. CASE \E p \in listing : OpenClose(p)
    BY <2>2, <2>16
  <2>17. CASE CancelClose
    BY <2>2, <2>17 DEF CancelClose
  <2>18. CASE ConfirmClose
    BY <2>2, <2>18 DEF ConfirmClose
  <2>19. CASE UNCHANGED deskVars
    BY <2>3, <2>19 DEF deskVars, list, dialog
  <2> QED BY <2>4, <2>5, <2>6, <2>8, <2>9, <2>10, <2>11, <2>12, <2>13, <2>14, <2>15,
             <2>16, <2>17, <2>18, <2>19
          DEF DeskNext, Previewing, Closing, Listing, Answering
<1> QED BY <1>1, <1>2, DeskTypeCorrect, PTL DEF DeskSpec

(* Once a close is followed by a fetch, what a fetch under way has read,   *)
(* and what the last good one left, is without the position; the exception *)
(* are those missed, and a query left invalidated is fetched on return.    *)
Delisting ==
  /\ \A p \in told : IsClosed(p)
  /\ \A c \in calls : Served(c) => IsClosed(c.on)
  /\ ~fetching => fetched = NoChoice
  /\ fetching /\ fetched # NoChoice => fetched \cap (Gone \ missed) = {}
  /\ ~fetching /\ listingOk /\ ~marked => listing \cap (Gone \ missed) = {}
  /\ here /\ ~fetching /\ listingOk => ~marked

(* A step that closes nothing for the page and leaves the list alone.      *)
LEMMA ListLeftAlone ==
  ASSUME Delisting, UNCHANGED list,
         told' \subseteq Gone, \A c \in calls' : Reporting(c) => c.on \in Gone,
         \A c \in calls' : Served(c) => IsClosed(c.on)',
         \A p : IsClosed(p) => IsClosed(p)'
  PROVE  Delisting'
<1>1. Gone' \subseteq Gone
  BY DEF Gone, Reporting
<1>2. \A p \in Gone : IsClosed(p)
  BY DEF Gone, Delisting, Served, Reporting
<1>3. \A p \in told' : IsClosed(p)'
  BY <1>2
<1>4. (\A c \in calls : Served(c) => IsClosed(c.on))'
  BY DEF Served
<1> QED BY <1>1, <1>3, <1>4 DEF Delisting, list

(* The helpers of the requests again: a request changes its stage only.    *)
LEMMA StagedServed ==
  ASSUME calls \subseteq Calls, NEW c \in calls, NEW stage
  PROVE  \A a \in Staged(c, stage) :
           a \in calls \/ (a.op = c.op /\ a.on = c.on /\ a.stage = stage)
BY DEF Staged, Calls

LEMMA ForgottenServed ==
  ASSUME calls \subseteq Calls, NEW ops
  PROVE  \A a \in Forgotten(ops) : \E b \in calls : a.op = b.op /\ a.on = b.on /\ a.stage = b.stage
<1> SUFFICES ASSUME NEW b \in calls
             PROVE  LET a == IF b.op \in ops THEN [b EXCEPT !.awaited = FALSE] ELSE b
                    IN  a.op = b.op /\ a.on = b.on /\ a.stage = b.stage
  BY DEF Forgotten
<1>1. b \in Calls
  OBVIOUS
<1> QED BY <1>1 DEF Calls

LEMMA LeftServed ==
  ASSUME calls \subseteq Calls, LeavePaper
  PROVE  \A a \in calls' : \E b \in calls : a.op = b.op /\ a.on = b.on /\ a.stage = b.stage
<1> SUFFICES ASSUME NEW b \in calls
             PROVE  LET a == [b EXCEPT !.awaited = FALSE, !.left = TRUE]
                    IN  a.op = b.op /\ a.on = b.on /\ a.stage = b.stage
  BY DEF LeavePaper
<1>1. b \in Calls
  OBVIOUS
<1> QED BY <1>1 DEF Calls

LEMMA WokenServed ==
  ASSUME NEW S, S \subseteq Calls
  PROVE  \A a \in Woken(S) : \E b \in S :
           a.op = b.op /\ a.on = b.on /\ (a.stage = b.stage \/ (b.stage = "refetching" /\ a.stage = "done"))
<1> SUFFICES ASSUME NEW b \in S
             PROVE  LET a == IF b.stage = "refetching" THEN [b EXCEPT !.stage = "done"] ELSE b
                    IN  a.op = b.op /\ a.on = b.on
                        /\ (a.stage = b.stage \/ (b.stage = "refetching" /\ a.stage = "done"))
  BY DEF Woken
<1>1. b \in Calls
  OBVIOUS
<1> QED BY <1>1 DEF Calls

(* A position reported as closed is listed no longer once no fetch is      *)
(* under way and the last one succeeded: an invalidation cancels the fetch *)
(* whose answer might be older, or has the page fetch again when it is     *)
(* entered, unless an answer already read arrives in between               *)
(* (ClosePositionDialog.tsx:54-55, usePaperPositions.ts:8-11).             *)
THEOREM ClosedStaysDelisted == DeskSpec => []ClosedIsDelisted
<1>1. DeskInit => Delisting
  BY DEF DeskInit, Delisting, Gone, Reporting
<1>2. DeskTyped /\ LoadedFirst /\ Delisting /\ [DeskNext]_deskVars => Delisting'
  <2> SUFFICES ASSUME DeskTyped, LoadedFirst, Delisting, [DeskNext]_deskVars
               PROVE  Delisting'
    OBVIOUS
  <2>0. calls \subseteq Calls /\ positions \in Seq(Position)
    BY DEF DeskTyped, CallsOK, BookOK
  <2>1. /\ told \subseteq Gone
        /\ \A b \in calls : /\ Reporting(b) => b.on \in Gone
                            /\ Served(b) => IsClosed(b.on)
    BY DEF Gone, Delisting
  \* The requests go on, in the same stages.
  <2>2. ASSUME UNCHANGED <<list, told, positions>>,
               \A a \in calls' : \/ ~Served(a)
                                 \/ \E b \in calls : a.op = b.op /\ a.on = b.on /\ a.stage = b.stage
        PROVE  Delisting'
    <3>1. \A a \in calls' : /\ Reporting(a) => a.on \in Gone
                            /\ Served(a) => IsClosed(a.on)
      BY <2>1, <2>2 DEF Served, Reporting
    <3> QED BY <2>1, <2>2, <3>1, ListLeftAlone DEF IsClosed
  <2>3. ASSUME UNCHANGED <<list, told, positions>>, calls' \subseteq calls
        PROVE  Delisting'
    BY <2>2, <2>3
  <2>4. CASE OpenPreview
    <3>1. PICK r : r = Request("preview", specs + 1, specs + 1)
      OBVIOUS
    <3>2. ~Served(r) /\ calls' = Forgotten({"preview"}) \cup {r}
      BY <2>4, <3>1 DEF OpenPreview, Request, Served
    <3> QED BY <2>0, <2>2, <2>4, <3>2, ForgottenServed DEF OpenPreview, dialog, book
  <2>5. ASSUME ClosedModal PROVE Delisting'
    BY <2>0, <2>2, <2>5, ForgottenServed DEF ClosedModal, dialog, book
  <2>6. CASE CancelPreview
    BY <2>5, <2>6 DEF CancelPreview
  <2>7. CASE TimedClose
    BY <2>3, <2>5, <2>7 DEF TimedClose, dialog, book
  <2>8. CASE Execute
    <3>1. PICK r : r = Request("execute", preview, specs)
      OBVIOUS
    <3>2. ~Served(r) /\ calls' = calls \cup {r}
      BY <2>8, <3>1 DEF Execute, Request, Served
    <3> QED BY <2>2, <2>8, <3>2 DEF Execute, dialog, book
  <2>9. ASSUME NEW c \in calls, DraftSaved(c) PROVE Delisting'
    <3>1. PICK e : e = [c EXCEPT !.stage = "ok", !.on = Len(drafts) + 1]
      OBVIOUS
    <3>2. c \in Calls /\ c.op = "preview"
      BY <2>0, <2>9 DEF DraftSaved
    <3>3. e.op = "preview" /\ ~Served(e)
      BY <3>1, <3>2 DEF Calls, Served
    <3>4. calls' = (calls \ {c}) \cup {e} \/ calls' = Staged(c, "lost")
      BY <2>9, <3>1 DEF DraftSaved
    <3>5. \A a \in calls' : ~Served(a) \/ a \in calls
      BY <2>0, <3>2, <3>3, <3>4, StagedServed DEF Served
    <3> QED BY <2>2, <2>9, <3>5 DEF DraftSaved, dialog
  <2>10. ASSUME NEW c \in calls, PositionOpened(c) PROVE Delisting'
    <3>1. c.op = "execute"
      BY <2>10 DEF PositionOpened
    <3>2. \A a \in calls' : ~Served(a) \/ a \in calls
      BY <2>0, <2>10, <3>1, StagedServed DEF PositionOpened, Served
    <3>3. PICK p : positions' = Append(positions, p)
      BY <2>10 DEF PositionOpened
    <3>4. \A q : IsClosed(q) => IsClosed(q)'
      BY <2>0, <3>3 DEF IsClosed
    <3>5. UNCHANGED <<list, told>>
      BY <2>10 DEF PositionOpened, dialog
    <3>6. \A a \in calls' : /\ Reporting(a) => a.on \in Gone
                            /\ Served(a) => IsClosed(a.on)'
      BY <2>1, <3>2, <3>4 DEF Served, Reporting
    <3> QED BY <2>1, <3>4, <3>5, <3>6, ListLeftAlone
  <2>11. ASSUME NEW c \in calls, PositionClosed(c) PROVE Delisting'
    <3>1. \A a \in calls' : a \in calls \/ (a.op = c.op /\ a.on = c.on /\ a.stage \in {"ok", "lost"})
      BY <2>0, <2>11, StagedServed DEF PositionClosed
    <3>2. c.on \in DOMAIN positions /\ positions[c.on] \in Position
      BY <2>0, <2>11 DEF PositionClosed, DeskTyped, CallsOK, Refers
    <3>3. \A q : IsClosed(q) \/ q = c.on => IsClosed(q)'
      BY <2>0, <2>11, <3>2 DEF PositionClosed, IsClosed, Position
    <3>4. UNCHANGED <<list, told>>
      BY <2>11 DEF PositionClosed, dialog
    <3>5. \A a \in calls' : /\ Reporting(a) => a.on \in Gone
                            /\ Served(a) => IsClosed(a.on)'
      BY <2>1, <3>1, <3>3 DEF Served, Reporting
    <3> QED BY <2>1, <3>3, <3>4, <3>5, ListLeftAlone
  <2>12. ASSUME NEW c \in calls, Refuses(c) \/ AlreadyClosed(c) PROVE Delisting'
    <3>1. \A a \in calls' : ~Served(a) \/ a \in calls
      BY <2>0, <2>12, StagedServed DEF Refuses, AlreadyClosed, Served
    <3> QED BY <2>2, <2>12, <3>1 DEF Refuses, AlreadyClosed, dialog, book
  <2>13. ASSUME NEW c \in calls, PreviewAnswers(c) \/ ExecuteEnds(c) PROVE Delisting'
    BY <2>3, <2>13 DEF PreviewAnswers, ExecuteEnds, dialog, book
  <2>14. ASSUME NEW c \in calls, CloseEnds(c) PROVE Delisting'
    <3>1. calls' \subseteq calls /\ UNCHANGED <<list, positions>>
      BY <2>14 DEF CloseEnds, book
    <3>2. told' \subseteq Gone
      <4>1. CASE c.stage = "done"
        BY <2>1, <2>14, <4>1 DEF CloseEnds, Reporting
      <4>2. CASE c.stage # "done"
        BY <2>1, <2>14, <4>2 DEF CloseEnds
      <4> QED BY <4>1, <4>2
    <3>3. \A a \in calls' : /\ Reporting(a) => a.on \in Gone
                            /\ Served(a) => IsClosed(a.on)'
      BY <2>1, <3>1 DEF IsClosed
    <3> QED BY <3>1, <3>2, <3>3, ListLeftAlone DEF IsClosed
  <2>15. ASSUME NEW c \in calls, Invalidate(c) PROVE Delisting'
    <3>1. PICK e : e \in {[c EXCEPT !.stage = "refetching"], [c EXCEPT !.stage = "done"]}
                    /\ (calls' = Woken(calls \ {c}) \cup {e} \/ calls' = (calls \ {c}) \cup {e})
                    /\ ((here /\ ~loaded) \/ ~here => calls' = (calls \ {c}) \cup {e})
      BY <2>15 DEF Invalidate, Staged
    <3>2. e.op = c.op /\ e.on = c.on /\ c.stage = "ok" /\ UNCHANGED <<told, positions, here>>
      BY <2>0, <2>15, <3>1 DEF Invalidate, Calls, book, dialog
    <3>3. \A a \in calls' : Served(a) => IsClosed(a.on)
      <4> SUFFICES ASSUME NEW a \in calls', Served(a) PROVE IsClosed(a.on)
        OBVIOUS
      <4>1. CASE a = e
        BY <2>1, <3>2, <4>1 DEF Served
      <4>2. CASE a \in Woken(calls \ {c})
        <5>1. calls \ {c} \subseteq Calls
          BY <2>0
        <5>2. PICK b \in calls \ {c} : a.op = b.op /\ a.on = b.on
                /\ (a.stage = b.stage \/ (b.stage = "refetching" /\ a.stage = "done"))
          BY <4>2, <5>1, WokenServed
        <5> QED BY <2>1, <5>2 DEF Served
      <4>3. CASE a \in calls \ {c}
        BY <2>1, <4>3
      <4> QED BY <3>1, <4>1, <4>2, <4>3
    <3>4. /\ \A p \in told' : IsClosed(p)'
          /\ \A a \in calls' : Served(a) => IsClosed(a.on)'
      BY <3>2, <3>3 DEF Delisting, IsClosed
    <3>5. (\A a \in calls : Served(a) => IsClosed(a.on))'
      BY <3>4 DEF Served
    <3>6. CASE here /\ loaded
      <4>1. fetching' = TRUE /\ fetched' = NoChoice
        BY <2>15, <3>6 DEF Invalidate, Refetched
      <4> QED BY <3>4, <3>5, <4>1 DEF Delisting
    <3>7. CASE here /\ ~loaded
      <4>1. fetching' = TRUE /\ UNCHANGED <<fetched, missed>>
        BY <2>15, <3>7 DEF Invalidate, Refetched
      <4>2. c.op # "close"
        BY <3>7 DEF LoadedFirst
      <4>3. Gone' \subseteq Gone
        BY <3>1, <3>2, <3>7, <4>2 DEF Gone, Reporting
      <4>4. fetching /\ fetched # NoChoice => fetched' \cap (Gone' \ missed') = {}
        BY <4>1, <4>3 DEF Delisting
      <4>5. fetched' # NoChoice => fetching
        BY <4>1 DEF Delisting
      <4> QED BY <3>4, <3>5, <4>1, <4>4, <4>5 DEF Delisting
    <3>8. CASE ~here
      <4>1. /\ marked' = TRUE /\ UNCHANGED <<fetching, fetched>>
            /\ missed' = missed \cup
                 {p \in {c.on} : c.op = "close" /\ fetched # NoChoice /\ p \in fetched}
        BY <2>15, <3>8 DEF Invalidate
      <4>2. Gone' \subseteq Gone \cup {p \in {c.on} : c.op = "close"}
        BY <3>1, <3>2, <3>8 DEF Gone, Reporting
      <4>3. fetching' /\ fetched' # NoChoice => fetched' \cap (Gone' \ missed') = {}
        BY <4>1, <4>2 DEF Delisting
      <4>4. ~fetching' => fetched' = NoChoice
        BY <4>1 DEF Delisting
      <4> QED BY <3>2, <3>4, <3>5, <3>8, <4>1, <4>3, <4>4 DEF Delisting
    <3>9. here \in BOOLEAN /\ loaded \in BOOLEAN
      BY DEF DeskTyped, ListOK
    <3> QED BY <3>6, <3>7, <3>8, <3>9
  <2>16. CASE Poll
    BY <2>16 DEF Poll, Delisting, IsClosed, Served, dialog, book
  <2>17. CASE ServerLists
    <3>1. \A p \in Gone : IsClosed(p)
      BY DEF Gone, Delisting, Served, Reporting
    <3>2. Gone' = Gone /\ \A p : IsClosed(p)' <=> IsClosed(p)
      BY <2>17 DEF ServerLists, Gone, IsClosed, Reporting, dialog, book
    <3>3. fetched' \cap Gone = {}
      BY <2>17, <3>1 DEF ServerLists, IsClosed
    <3>4. /\ (\A p \in told : IsClosed(p))'
          /\ (\A a \in calls : Served(a) => IsClosed(a.on))'
      BY <2>17, <3>2 DEF ServerLists, Delisting, dialog, Served
    <3> QED BY <2>17, <3>2, <3>3, <3>4 DEF ServerLists, Delisting
  <2>18. CASE FetchEnds
    <3>1. calls' = Woken(calls) /\ UNCHANGED <<told, positions>>
      BY <2>18 DEF FetchEnds, dialog, book
    <3>2. \A a \in calls' : \E b \in calls : a.op = b.op /\ a.on = b.on
            /\ (a.stage = b.stage \/ (b.stage = "refetching" /\ a.stage = "done"))
      BY <2>0, <3>1, WokenServed
    <3>3. \A a \in calls' : /\ Reporting(a) => a.on \in Gone
                            /\ Served(a) => IsClosed(a.on)
      BY <2>1, <3>2 DEF Served, Reporting
    <3>4. Gone' \subseteq Gone
      BY <2>1, <3>1, <3>3 DEF Gone, Reporting
    <3>5. /\ (\A p \in told : IsClosed(p))'
          /\ (\A a \in calls : Served(a) => IsClosed(a.on))'
      BY <3>1, <3>3 DEF Delisting, IsClosed, Served
    <3>6. /\ fetching' = FALSE /\ fetched' = NoChoice
          /\ listingOk' => ~marked' /\ listing' \cap (Gone \ missed') = {}
      BY <2>18 DEF FetchEnds, Delisting
    <3> QED BY <3>4, <3>5, <3>6 DEF Delisting
  <2>19. ASSUME NEW p \in listing, OpenClose(p) PROVE Delisting'
    BY <2>3, <2>19 DEF OpenClose, book
  <2>20. CASE CancelClose
    BY <2>0, <2>2, <2>20, ForgottenServed DEF CancelClose, book
  <2>21. CASE ConfirmClose
    <3>1. PICK r : r = Request("close", closing, 0)
      OBVIOUS
    <3>2. ~Served(r) /\ calls' = calls \cup {r}
      BY <2>21, <3>1 DEF ConfirmClose, Request, Served
    <3> QED BY <2>2, <2>21, <3>2 DEF ConfirmClose, book
  <2>22. CASE UNCHANGED deskVars
    BY <2>3, <2>22 DEF deskVars, dialog, book
  <2>23. CASE LeavePaper
    <3>1. \A a \in calls' : \E b \in calls : a.op = b.op /\ a.on = b.on /\ a.stage = b.stage
      BY <2>0, <2>23, LeftServed
    <3>2. /\ UNCHANGED <<listing, fetching, fetched, listingOk, marked, missed, told, positions>>
          /\ here' = FALSE
      BY <2>23 DEF LeavePaper, book
    <3>3. Gone' \subseteq Gone
      BY <3>1, <3>2 DEF Gone, Reporting
    <3>4. \A a \in calls' : Served(a) => IsClosed(a.on)
      BY <2>1, <3>1 DEF Served
    <3>5. /\ (\A p \in told : IsClosed(p))'
          /\ (\A a \in calls : Served(a) => IsClosed(a.on))'
      BY <3>2, <3>4 DEF Delisting, Served, IsClosed
    <3> QED BY <3>2, <3>3, <3>5 DEF Delisting
  <2>24. CASE EnterPaper
    <3>1. UNCHANGED <<listing, fetched, listingOk, marked, missed, told, positions, calls>>
      BY <2>24 DEF EnterPaper, dialog, book
    <3>2. Gone' = Gone
      BY <3>1 DEF Gone
    <3>3. /\ (\A p \in told : IsClosed(p))'
          /\ (\A a \in calls : Served(a) => IsClosed(a.on))'
      BY <3>1 DEF Delisting, Served, IsClosed
    <3>4. fetching' = TRUE \/ (fetching' = fetching /\ ~marked)
      BY <2>24 DEF EnterPaper
    <3>5. fetched' # NoChoice => fetching
      BY <3>1 DEF Delisting
    <3>6. fetching' /\ fetched' # NoChoice => fetched' \cap (Gone' \ missed') = {}
      BY <3>1, <3>2, <3>5 DEF Delisting
    <3>7. ~fetching' => ~fetching /\ ~marked
      BY <3>4
    <3> QED BY <3>1, <3>2, <3>3, <3>5, <3>6, <3>7 DEF Delisting
  <2> QED BY <2>4, <2>6, <2>7, <2>8, <2>9, <2>10, <2>11, <2>12, <2>13, <2>14, <2>15,
             <2>16, <2>17, <2>18, <2>19, <2>20, <2>21, <2>22, <2>23, <2>24
          DEF DeskNext, Previewing, Closing, Listing, Answering
<1>3. Delisting => ClosedIsDelisted
  BY DEF Delisting, ClosedIsDelisted, Gone
<1> QED BY <1>1, <1>2, <1>3, DeskTypeCorrect, ListedBeforeClosed, PTL DEF DeskSpec

-----------------------------------------------------------------------------
(* The footer of the builder *)

(* The footer's arithmetic is done on at least one priced leg. *)
PricedLegs(opt) ==
  /\ IsFiniteSet(DOMAIN opt) /\ DOMAIN opt # {}
  /\ \A i \in DOMAIN opt : opt[i].strike \in Nat \ {0} /\ opt[i].qty \in Int /\ opt[i].mark \in Int

LEMMA MaxInt ==
  ASSUME NEW S, IsFiniteSet(S), S \subseteq Int, S # {}
  PROVE  Max(S) \in S /\ \A y \in S : y <= Max(S)
BY Extremes DEF Max

LEMMA MinInt ==
  ASSUME NEW S, IsFiniteSet(S), S \subseteq Int, S # {}
  PROVE  Min(S) \in S /\ \A y \in S : Min(S) <= y
BY Extremes DEF Min

LEMMA GridShape ==
  ASSUME NEW opt, PricedLegs(opt)
  PROVE  LET top == 4 * Max(StrikesOf(opt)) IN
         /\ IsFiniteSet(StrikeGrid(opt)) /\ StrikeGrid(opt) \subseteq 0 .. top
         /\ 0 \in StrikeGrid(opt) /\ top \in StrikeGrid(opt)
         /\ top \in Nat \ {0} /\ Max(StrikeGrid(opt)) = top
         /\ \A i \in DOMAIN opt : 2 * opt[i].strike \in StrikeGrid(opt)
<1> DEFINE K == StrikesOf(opt)
           m == Max(K)
           G == StrikeGrid(opt)
           strikes == [i \in DOMAIN opt |-> opt[i].strike]
           twice == [k \in K |-> 2 * k]
           middle == [k \in K |-> k + NextStrike(opt, k)]
<1>1. IsFiniteSet(K)
  <2>1. IsFiniteSet({strikes[i] : i \in DOMAIN opt})
    <3> HIDE DEF strikes
    <3> QED BY ImageFinite DEF PricedLegs
  <2>2. {strikes[i] : i \in DOMAIN opt} = K
    BY DEF StrikesOf
  <2> QED BY <2>1, <2>2
<1>2. K \subseteq Nat \ {0} /\ K # {}
  BY DEF StrikesOf, PricedLegs
<1>3. m \in K /\ \A k \in K : k <= m
  <2>1. K \subseteq Int
    BY <1>2
  <2> HIDE DEF K
  <2> QED BY <1>1, <1>2, <2>1, MaxInt
<1>4. ASSUME NEW k \in K \ {m}
      PROVE  NextStrike(opt, k) \in K
  <2> DEFINE J == {j \in K : j > k}
  <2>1. IsFiniteSet(J) /\ J \subseteq Int /\ m \in J
    BY <1>1, <1>2, <1>3, FS_Subset
  <2>2. Min(J) \in J
    <3> HIDE DEF J
    <3> QED BY <2>1, MinInt
  <2> QED BY <2>2 DEF NextStrike
<1>5. Midpoints(opt) = {middle[k] : k \in K \ {m}}
  BY DEF Midpoints
<1>6. Midpoints(opt) \subseteq 0 .. 4 * m
  <2>1. ASSUME NEW k \in K \ {m} PROVE k + NextStrike(opt, k) \in 0 .. 4 * m
    <3>1. NextStrike(opt, k) \in K
      BY <1>4
    <3>2. PICK j \in K : j = NextStrike(opt, k)
      BY <3>1
    <3>3. j \in Nat /\ k \in Nat /\ m \in Nat /\ j <= m /\ k <= m
      BY <1>2, <1>3
    <3> QED BY <3>2, <3>3
  <2> QED BY <2>1 DEF Midpoints
<1>7. IsFiniteSet(Midpoints(opt))
  <2>1. IsFiniteSet(K \ {m})
    BY <1>1, FS_Subset
  <2>2. IsFiniteSet({middle[k] : k \in K \ {m}})
    <3> HIDE DEF middle, K, m
    <3> QED BY <2>1, ImageFinite
  <2> QED BY <1>5, <2>2
<1>8. IsFiniteSet({2 * k : k \in K})
  <2>1. IsFiniteSet({twice[k] : k \in K})
    <3> HIDE DEF twice, K
    <3> QED BY <1>1, ImageFinite
  <2>2. {twice[k] : k \in K} = {2 * k : k \in K}
    OBVIOUS
  <2> QED BY <2>1, <2>2
<1>9. {2 * k : k \in K} \subseteq 0 .. 4 * m
  <2>1. \A k \in K : k \in Nat /\ m \in Nat /\ k <= m
    BY <1>2, <1>3
  <2> HIDE DEF K, m
  <2> QED BY <2>1
<1>10. m \in Nat \ {0}
  BY <1>2, <1>3
<1>11. G = {0, 4 * m} \cup {2 * k : k \in K} \cup Midpoints(opt)
  BY DEF StrikeGrid
<1>12. IsFiniteSet({0, 4 * m})
  <2>1. PICK z : z = 4 * m
    OBVIOUS
  <2>2. IsFiniteSet({0}) /\ {0, z} = {0} \cup {z}
    BY FS_Singleton
  <2>3. IsFiniteSet({0, z})
    BY <2>2, FS_AddElement
  <2> QED BY <2>1, <2>3
<1>13. IsFiniteSet(G)
  <2> DEFINE A == {0, 4 * m}
             B == {2 * k : k \in K}
  <2>1. IsFiniteSet(A \cup B)
    <3> HIDE DEF A, B
    <3> QED BY <1>8, <1>12, FS_Union DEF A, B
  <2>2. G = (A \cup B) \cup Midpoints(opt)
    BY <1>11
  <2> HIDE DEF G, A, B
  <2> QED BY <1>7, <2>1, <2>2, FS_Union
<1>14. G \subseteq 0 .. 4 * m /\ 0 \in G /\ 4 * m \in G
  <2> HIDE DEF G, K, m
  <2> QED BY <1>6, <1>9, <1>10, <1>11
<1>15. Max(G) = 4 * m
  <2>1. G \subseteq Int /\ G # {}
    BY <1>14
  <2>2. Max(G) \in G /\ \A y \in G : y <= Max(G)
    <3> HIDE DEF G
    <3> QED BY <1>13, <2>1, MaxInt
  <2>3. \A y \in G : y \in Int /\ y <= 4 * m
    <3> HIDE DEF G, m
    <3> QED BY <1>10, <1>14
  <2>4. PICK x : x = Max(G)
    OBVIOUS
  <2>5. x \in G /\ \A y \in G : y <= x
    BY <2>2, <2>4
  <2>6. x <= 4 * m /\ 4 * m <= x /\ x \in Int /\ 4 * m \in Int
    <3> HIDE DEF G, m
    <3> QED BY <1>10, <1>14, <2>3, <2>5
  <2>7. x = 4 * m
    <3> HIDE DEF m
    <3> QED BY <2>6
  <2> QED BY <2>4, <2>7
<1>16. \A i \in DOMAIN opt : 2 * opt[i].strike \in G
  BY <1>11 DEF StrikesOf
<1> QED
  <2> HIDE DEF G, m, K
  <2>1. 4 * m \in Nat \ {0}
    BY <1>10
  <2>2. m = Max(StrikesOf(opt)) /\ G = StrikeGrid(opt)
    BY DEF m, G, K
  <2> QED BY <1>13, <1>14, <1>15, <1>16, <2>1, <2>2

(* A leg's payoff is a line where no strike is. *)
LEMMA LegChord ==
  ASSUME NEW leg, leg.strike \in Nat, leg.qty \in Int,
         NEW g \in Int, NEW h \in Int, NEW num \in Int, NEW den \in Int,
         den > 0, g * den <= num, num <= h * den, g <= h,
         2 * leg.strike <= g \/ h <= 2 * leg.strike
  PROVE  LET sq == SignedQty(leg.side, leg.qty) IN
         /\ sq * LegPayoff(leg, g, 1) \in Int /\ sq * LegPayoff(leg, h, 1) \in Int
         /\ sq * LegPayoff(leg, num, den) \in Int
         /\ (h - g) * (sq * LegPayoff(leg, num, den))
            = (h * den - num) * (sq * LegPayoff(leg, g, 1))
              + (num - g * den) * (sq * LegPayoff(leg, h, 1))
<1> DEFINE sq == SignedQty(leg.side, leg.qty)
           k == 2 * leg.strike
           L(n, d) == LegPayoff(leg, n, d)
<1>1. sq \in Int /\ k \in Int
  BY DEF SignedQty
<1>2. \A n, d \in Int : L(n, d) = AtLeastZero(IF leg.right = "C" THEN n - k * d ELSE k * d - n)
  BY DEF LegPayoff
<1>0. k <= g \/ h <= k
  OBVIOUS
<1> HIDE DEF k, sq
<1>3. /\ k <= g => k * den <= g * den
      /\ h <= k => h * den <= k * den
  BY <1>1
<1>4. PICK kd, gd, hd \in Int : kd = k * den /\ gd = g * den /\ hd = h * den
  BY <1>1
<1>5. L(num, den) = (IF leg.right = "C" THEN (IF k <= g THEN num - kd ELSE 0)
                     ELSE IF h <= k THEN kd - num ELSE 0)
  <2>1. L(num, den) = AtLeastZero(IF leg.right = "C" THEN num - kd ELSE kd - num)
    BY <1>1, <1>2, <1>4
  <2>2. /\ k <= g => kd <= num
        /\ h <= k => num <= kd
        /\ kd \in Int
    BY <1>1, <1>3, <1>4
  <2> HIDE DEF L
  <2> QED BY <1>0, <1>1, <2>1, <2>2 DEF AtLeastZero
<1>6. L(g, 1) = (IF leg.right = "C" THEN (IF k <= g THEN g - k ELSE 0)
                 ELSE IF h <= k THEN k - g ELSE 0)
  <2>1. L(g, 1) = AtLeastZero(IF leg.right = "C" THEN g - k * 1 ELSE k * 1 - g)
    BY <1>1, <1>2
  <2> HIDE DEF L
  <2> QED BY <1>0, <1>1, <2>1 DEF AtLeastZero
<1>7. L(h, 1) = (IF leg.right = "C" THEN (IF k <= g THEN h - k ELSE 0)
                 ELSE IF h <= k THEN k - h ELSE 0)
  <2>1. L(h, 1) = AtLeastZero(IF leg.right = "C" THEN h - k * 1 ELSE k * 1 - h)
    BY <1>1, <1>2
  <2> HIDE DEF L
  <2> QED BY <1>0, <1>1, <2>1 DEF AtLeastZero
<1> HIDE DEF L
<1>8. L(num, den) \in Int /\ L(g, 1) \in Int /\ L(h, 1) \in Int
  BY <1>1, <1>4, <1>5, <1>6, <1>7
<1>9. (h - g) * L(num, den) = (h * den - num) * L(g, 1) + (num - g * den) * L(h, 1)
  <2>1. (h - g) * (num - k * den) = (h * den - num) * (g - k) + (num - g * den) * (h - k)
    BY <1>1
  <2>2. (h - g) * (k * den - num) = (h * den - num) * (k - g) + (num - g * den) * (k - h)
    BY <1>1
  <2>3. h * den - num \in Int /\ num - g * den \in Int /\ h - g \in Int
    BY <1>4
  <2>4. CASE leg.right = "C" /\ k <= g
    BY <1>4, <1>5, <1>6, <1>7, <2>1, <2>4
  <2>5. CASE leg.right # "C" /\ h <= k
    BY <1>4, <1>5, <1>6, <1>7, <2>2, <2>5
  <2>6. CASE ~(leg.right = "C" /\ k <= g) /\ ~(leg.right # "C" /\ h <= k)
    <3>1. L(num, den) = 0 /\ L(g, 1) = 0 /\ L(h, 1) = 0
      BY <1>5, <1>6, <1>7, <2>6
    <3> QED BY <2>3, <3>1
  <2> QED BY <2>4, <2>5, <2>6
<1>10. PICK a, b, p, q, r \in Int : /\ a = h * den - num /\ b = num - g * den
                                    /\ p = L(num, den) /\ q = L(g, 1) /\ r = L(h, 1)
  BY <1>4, <1>8
<1>11. (h - g) * (sq * p) = a * (sq * q) + b * (sq * r)
  <2>1. (h - g) * p = a * q + b * r
    BY <1>9, <1>10
  <2>2. sq * ((h - g) * p) = sq * (a * q + b * r)
    BY <2>1
  <2>3. sq * ((h - g) * p) = (h - g) * (sq * p) /\ sq * (a * q + b * r) = a * (sq * q) + b * (sq * r)
    BY <1>1
  <2> QED BY <2>2, <2>3
<1> QED BY <1>1, <1>8, <1>10, <1>11 DEF sq, L

(* What a leg contributes to the payoff at num/den, times den. *)
Terms(opt, num, den) ==
  [i \in DOMAIN opt |-> SignedQty(opt[i].side, opt[i].qty) * LegPayoff(opt[i], num, den)]

LEMMA PayoffIsSum ==
  ASSUME NEW opt, PricedLegs(opt), NEW num \in Int, NEW den \in Int
  PROVE  /\ NetEntryCredit(opt) \in Int
         /\ PayoffAtFraction(opt, num, den)
            = den * NetEntryCredit(opt) + SumFunctionOnSet(Terms(opt, num, den), DOMAIN opt)
         /\ PayoffAtFraction(opt, num, den) \in Int
<1> DEFINE premium == [i \in DOMAIN opt |-> -2 * SignedQty(opt[i].side, opt[i].qty) * opt[i].mark]
           term == Terms(opt, num, den)
<1>1. ASSUME NEW i \in DOMAIN opt
      PROVE  SignedQty(opt[i].side, opt[i].qty) \in Int /\ LegPayoff(opt[i], num, den) \in Int
  BY DEF PricedLegs, SignedQty, LegPayoff, AtLeastZero
<1>2. NetEntryCredit(opt) = SumFunctionOnSet(premium, DOMAIN opt)
  BY DEF NetEntryCredit, SumFunction
<1>3. SumFunctionOnSet(premium, DOMAIN opt) \in Int
  <2>1. \A i \in DOMAIN opt : premium[i] \in Int
    BY <1>1 DEF PricedLegs
  <2> HIDE DEF premium
  <2> QED BY <2>1, SumType DEF PricedLegs
<1>4. SumFunctionOnSet(term, DOMAIN opt) \in Int
  <2>1. \A i \in DOMAIN opt : term[i] \in Int
    BY <1>1 DEF Terms
  <2> HIDE DEF term
  <2> QED BY <2>1, SumType DEF PricedLegs
<1>5. DOMAIN term = DOMAIN opt
  BY DEF Terms
<1>6. PayoffAtFraction(opt, num, den) = den * NetEntryCredit(opt) + SumFunctionOnSet(term, DOMAIN opt)
  BY <1>5 DEF PayoffAtFraction, SumFunction, Terms
<1> QED
  <2>1. PICK c : c = NetEntryCredit(opt)
    OBVIOUS
  <2>2. PICK v : v = SumFunctionOnSet(term, DOMAIN opt)
    OBVIOUS
  <2>3. c \in Int /\ v \in Int
    BY <1>2, <1>3, <1>4, <2>1, <2>2
  <2> QED BY <1>6, <2>1, <2>2, <2>3

(* Between two neighbours of the grid the payoff is a line.                *)
Neighbours(opt, g, h) ==
  /\ g \in StrikeGrid(opt) /\ h \in StrikeGrid(opt) /\ g <= h
  /\ \A x \in StrikeGrid(opt) : x <= g \/ h <= x

LEMMA ChordBound ==
  ASSUME NEW opt, PricedLegs(opt), NEW g, NEW h, Neighbours(opt, g, h),
         NEW num \in Int, NEW den \in Int, den > 0, g * den <= num, num <= h * den
  PROVE  /\ g \in Int /\ h \in Int /\ PayoffAt(opt, g) \in Int /\ PayoffAt(opt, h) \in Int
         /\ (h - g) * PayoffAtFraction(opt, num, den)
            = (h * den - num) * PayoffAt(opt, g) + (num - g * den) * PayoffAt(opt, h)
<1>1. g \in Int /\ h \in Int /\ g <= h
  BY GridShape DEF Neighbours
<1> DEFINE D == DOMAIN opt
           tg == Terms(opt, g, 1)
           th == Terms(opt, h, 1)
           t == Terms(opt, num, den)
           a == h - g
           b == h * den - num
           c == num - g * den
<1>2. a \in Int /\ b \in Int /\ c \in Int
  BY <1>1
<1>3. ASSUME NEW i \in D
      PROVE  tg[i] \in Int /\ th[i] \in Int /\ t[i] \in Int /\ a * t[i] = b * tg[i] + c * th[i]
  <2>1. opt[i].strike \in Nat /\ opt[i].qty \in Int
    BY DEF PricedLegs
  <2>2. 2 * opt[i].strike \in StrikeGrid(opt)
    BY GridShape
  <2>3. 2 * opt[i].strike <= g \/ h <= 2 * opt[i].strike
    BY <2>2 DEF Neighbours
  <2>4. LET sq == SignedQty(opt[i].side, opt[i].qty) IN
        /\ sq * LegPayoff(opt[i], g, 1) \in Int /\ sq * LegPayoff(opt[i], h, 1) \in Int
        /\ sq * LegPayoff(opt[i], num, den) \in Int
        /\ (h - g) * (sq * LegPayoff(opt[i], num, den))
            = (h * den - num) * (sq * LegPayoff(opt[i], g, 1))
              + (num - g * den) * (sq * LegPayoff(opt[i], h, 1))
    BY <1>1, <2>1, <2>3, LegChord
  <2> QED BY <2>4 DEF Terms
<1>4. IsFiniteSet(D)
  BY DEF PricedLegs
<1>5. a * SumFunctionOnSet(t, D) = b * SumFunctionOnSet(tg, D) + c * SumFunctionOnSet(th, D)
  <2>1. \A i \in D : tg[i] \in Int /\ th[i] \in Int /\ t[i] \in Int /\ a * t[i] = b * tg[i] + c * th[i]
    BY <1>3
  <2> HIDE DEF D, tg, th, t, a, b, c
  <2> QED BY <1>2, <1>4, <2>1, SumLinear
<1>6. \A n, d \in Int : SumFunctionOnSet(Terms(opt, n, d), D) \in Int
  <2> SUFFICES ASSUME NEW n \in Int, NEW d \in Int PROVE SumFunctionOnSet(Terms(opt, n, d), D) \in Int
    OBVIOUS
  <2>1. \A i \in D : Terms(opt, n, d)[i] \in Int
    BY DEF Terms, PricedLegs, SignedQty, LegPayoff, AtLeastZero
  <2> HIDE DEF D
  <2> QED BY <1>4, <2>1, SumType
<1>7. PICK C, A, B, M : /\ C = NetEntryCredit(opt) /\ A = SumFunctionOnSet(tg, D)
                        /\ B = SumFunctionOnSet(th, D) /\ M = SumFunctionOnSet(t, D)
  OBVIOUS
<1>8. C \in Int /\ A \in Int /\ B \in Int /\ M \in Int
  BY <1>1, <1>6, <1>7, PayoffIsSum
<1>9. /\ PayoffAtFraction(opt, num, den) = den * C + M
      /\ PayoffAt(opt, g) = 1 * C + A /\ PayoffAt(opt, h) = 1 * C + B
  BY <1>1, <1>7, PayoffIsSum DEF PayoffAt
<1>10. (h - g) * M = (h * den - num) * A + (num - g * den) * B
  BY <1>5, <1>7
<1>11. (h - g) * (den * C + M)
       = (h - g) * (den * C) + ((h * den - num) * A + (num - g * den) * B)
  <2>1. (h - g) * (den * C + M) = (h - g) * (den * C) + (h - g) * M
    BY <1>1, <1>8
  <2> QED BY <1>10, <2>1
<1>12. (h - g) * (den * C) + ((h * den - num) * A + (num - g * den) * B)
       = (h * den - num) * (C + A) + (num - g * den) * (C + B)
  BY <1>1, <1>8
<1> QED BY <1>1, <1>8, <1>9, <1>11, <1>12

(* Every spot of the range lies between two neighbours, and so do any two  *)
(* spots a unit apart.                                                     *)
LEMMA Enclosed ==
  ASSUME NEW opt, PricedLegs(opt), NEW s \in 0 .. 4 * Max(StrikesOf(opt)),
         NEW t \in 0 .. 4 * Max(StrikesOf(opt)), s <= t, t <= s + 1
  PROVE  \E g, h \in StrikeGrid(opt) : Neighbours(opt, g, h) /\ g <= s /\ t <= h
<1> DEFINE G == StrikeGrid(opt)
           top == 4 * Max(StrikesOf(opt))
           L == {x \in G : x <= s}
           R == {x \in G : t <= x}
<1>1. IsFiniteSet(G) /\ G \subseteq 0 .. top /\ 0 \in G /\ top \in G /\ top \in Nat
  BY GridShape
<1> HIDE DEF G, top
<1>a. s \in 0 .. top /\ t \in 0 .. top
  BY DEF top
<1>2. L \subseteq Int /\ R \subseteq Int /\ 0 \in L /\ top \in R
  <2>1. 0 <= s /\ t <= top
    BY <1>1, <1>a
  <2>2. G \subseteq Int /\ top \in Int
    BY <1>1
  <2> QED BY <1>1, <2>1, <2>2
<1>3. IsFiniteSet(L) /\ IsFiniteSet(R)
  BY <1>1, FS_Subset
<1>4. PICK g \in L : \A x \in L : x <= g
  <2> HIDE DEF L
  <2> QED BY <1>2, <1>3, Extremes
<1>5. PICK h \in R : \A x \in R : h <= x
  <2> HIDE DEF R
  <2> QED BY <1>2, <1>3, Extremes
<1>6. \A x \in G : x \in L \/ x \in R
  BY <1>1, <1>a
<1>7. g <= h
  BY <1>2, <1>4, <1>5
<1> QED
  <2>1. \A x \in G : x <= g \/ h <= x
    BY <1>4, <1>5, <1>6
  <2>2. g \in G /\ h \in G /\ g <= s /\ t <= h
    BY <1>4, <1>5
  <2> QED BY <1>7, <2>1, <2>2 DEF Neighbours, G

LEMMA Between ==
  ASSUME NEW a \in Nat, NEW b \in Nat, a + b > 0, NEW p \in Int, NEW q \in Int, NEW v \in Int,
         NEW lo \in Int, NEW hi \in Int, lo <= p, p <= hi, lo <= q, q <= hi,
         (a + b) * v = a * p + b * q
  PROVE  lo <= v /\ v <= hi
<1>1. /\ a * lo <= a * p /\ a * p <= a * hi /\ b * lo <= b * q /\ b * q <= b * hi
  OBVIOUS
<1>2. (a + b) * lo <= (a + b) * v /\ (a + b) * v <= (a + b) * hi
  BY <1>1
<1>3. ASSUME NEW x \in Int, NEW y \in Int, x < y PROVE (a + b) * x < (a + b) * y
  <2>1. (a + b) * (y - x) > 0
    BY <1>3
  <2> QED BY <2>1
<1> QED BY <1>2, <1>3

LEMMA ExtremesHold ==
  ASSUME NEW opt, PricedLegs(opt), NEW s \in 0 .. 4 * Max(StrikesOf(opt))
  PROVE  PayoffAt(opt, s) \in MaxLoss(opt) .. MaxProfit(opt)
<1> DEFINE G == StrikeGrid(opt)
           P == [x \in G |-> PayoffAt(opt, x)]
           lo == MaxLoss(opt)
           hi == MaxProfit(opt)
<1>1. IsFiniteSet(G) /\ 0 \in G /\ G \subseteq Int /\ s \in Int
  BY GridShape
<1>2. \A x \in Int : PayoffAt(opt, x) \in Int
  BY PayoffIsSum DEF PayoffAt
<1>3. /\ lo \in Int /\ hi \in Int
      /\ \A x \in G : lo <= PayoffAt(opt, x) /\ PayoffAt(opt, x) <= hi
  <2> DEFINE V == GridPayoffs(opt)
  <2>1. V = {P[x] : x \in G}
    BY DEF GridPayoffs
  <2>2. IsFiniteSet(V)
    <3>1. IsFiniteSet({P[x] : x \in G})
      <4> HIDE DEF P, G
      <4> QED BY <1>1, ImageFinite
    <3> QED BY <2>1, <3>1
  <2>3. V \subseteq Int /\ V # {}
    BY <1>1, <1>2 DEF GridPayoffs
  <2>4. /\ Max(V) \in V /\ \A y \in V : y <= Max(V)
        /\ Min(V) \in V /\ \A y \in V : Min(V) <= y
    <3> HIDE DEF V
    <3> QED BY <2>2, <2>3, MaxInt, MinInt
  <2>5. \A x \in G : PayoffAt(opt, x) \in V
    BY DEF GridPayoffs
  <2>6. lo = Min(V) /\ hi = Max(V)
    BY DEF MaxLoss, MaxProfit
  <2> HIDE DEF V, G, lo, hi
  <2> QED BY <2>3, <2>4, <2>5, <2>6
<1>4. PICK g, h \in G : Neighbours(opt, g, h) /\ g <= s /\ s <= h
  <2>1. \E g, h \in StrikeGrid(opt) : Neighbours(opt, g, h) /\ g <= s /\ s <= h
    BY Enclosed
  <2> QED BY <2>1
<1>5. g \in Int /\ h \in Int
  BY <1>1
<1>6. (h - g) * PayoffAt(opt, s) = (h * 1 - s) * PayoffAt(opt, g) + (s - g * 1) * PayoffAt(opt, h)
  BY <1>1, <1>4, <1>5, ChordBound DEF PayoffAt
<1>7. lo <= PayoffAt(opt, g) /\ PayoffAt(opt, g) <= hi /\ lo <= PayoffAt(opt, h) /\ PayoffAt(opt, h) <= hi
  BY <1>3, <1>4
<1>8. PICK p, q, v : p = PayoffAt(opt, g) /\ q = PayoffAt(opt, h) /\ v = PayoffAt(opt, s)
  OBVIOUS
<1>9. p \in Int /\ q \in Int /\ v \in Int
  BY <1>1, <1>2, <1>5, <1>8
<1> HIDE DEF lo, hi, G
<1>10. lo <= v /\ v <= hi
  <2>1. CASE g = h
    BY <1>1, <1>4, <1>5, <1>7, <1>8, <2>1
  <2>2. CASE g # h
    <3>1. h - s \in Nat /\ s - g \in Nat /\ (h - s) + (s - g) = h - g /\ h - g > 0
      BY <1>1, <1>4, <1>5, <2>2
    <3>2. ((h - s) + (s - g)) * v = (h - s) * p + (s - g) * q
      BY <1>1, <1>5, <1>6, <1>8, <1>9, <3>1
    <3> QED BY <1>3, <1>7, <1>8, <1>9, <3>1, <3>2, Between
  <2> QED BY <2>1, <2>2
<1> QED BY <1>3, <1>8, <1>9, <1>10 DEF lo, hi

(* A crossing is a zero of the payoff, at a fraction with a positive       *)
(* denominator.                                                            *)
Zero(opt, b) ==
  b \in Int \X Int /\ b[2] > 0 /\ PayoffAtFraction(opt, b[1], b[2]) = 0

LEMMA CrossingIsZero ==
  ASSUME NEW opt, PricedLegs(opt), NEW g, NEW h, Neighbours(opt, g, h), g < h,
         NEW b \in Crossing(opt, g, h)
  PROVE  Zero(opt, b)
<1>1. g \in Int /\ h \in Int /\ h - g > 0
  BY GridShape DEF Neighbours
<1>2. PICK p, q : p = PayoffAt(opt, g) /\ q = PayoffAt(opt, h)
  OBVIOUS
<1>3. p \in Int /\ q \in Int
  BY <1>1, <1>2, PayoffIsSum DEF PayoffAt
<1>4. CASE p = 0
  <2>1. b = <<g, 1>>
    BY <1>2, <1>4 DEF Crossing
  <2> QED BY <1>1, <1>2, <1>4, <2>1 DEF Zero, PayoffAt
<1>5. CASE p # 0
  <2> DEFINE span == q - p
             num == g * span - (h - g) * p
  <2>1. /\ Opposite(p, q)
        /\ b = (IF span > 0 THEN <<num, span>> ELSE <<-num, -span>>)
    <3>1. b \in (IF Opposite(p, q) THEN {IF span > 0 THEN <<num, span>> ELSE <<-num, -span>>} ELSE {})
      BY <1>2, <1>5 DEF Crossing
    <3> HIDE DEF span, num
    <3> QED BY <3>1
  <2>2. PICK n, d : n = b[1] /\ d = b[2]
    OBVIOUS
  <2>3. num \in Int /\ span \in Int
    BY <1>1, <1>3
  <2>4. /\ n \in Int /\ d \in Int /\ d > 0 /\ b = <<n, d>>
        /\ \/ p < 0 /\ q > 0 /\ d = q - p /\ n = g * (q - p) - (h - g) * p
           \/ p > 0 /\ q < 0 /\ d = p - q /\ n = -(g * (q - p) - (h - g) * p)
    <3>1. CASE p < 0 /\ q > 0
      <4>1. span > 0
        BY <1>3, <3>1
      <4>2. b = <<num, span>>
        BY <2>1, <4>1
      <4> QED BY <1>3, <2>2, <2>3, <3>1, <4>1, <4>2
    <3>2. CASE p > 0 /\ q < 0
      <4>1. span < 0 /\ ~(span > 0)
        BY <1>3, <3>2
      <4>2. b = <<-num, -span>>
        BY <2>1, <4>1
      <4>3. -num \in Int /\ -span \in Int /\ -span > 0 /\ -span = p - q
        BY <1>3, <2>3, <4>1
      <4>4. n = -num /\ d = -span
        BY <2>2, <4>2
      <4> QED BY <2>2, <3>2, <4>2, <4>3, <4>4
    <3> QED BY <2>1, <3>1, <3>2 DEF Opposite
  <2>5. /\ n - g * d = (h - g) * (IF p > 0 THEN p ELSE -p)
        /\ h * d - n = (h - g) * (IF q > 0 THEN q ELSE -q)
    <3>1. CASE p < 0 /\ q > 0 /\ d = q - p /\ n = g * (q - p) - (h - g) * p
      <4>1. g * (q - p) - (h - g) * p - g * (q - p) = (h - g) * (-p)
        BY <1>1, <1>3
      <4>2. h * (q - p) - (g * (q - p) - (h - g) * p) = (h - g) * q
        BY <1>1, <1>3
      <4> QED BY <1>3, <3>1, <4>1, <4>2
    <3>2. CASE p > 0 /\ q < 0 /\ d = p - q /\ n = -(g * (q - p) - (h - g) * p)
      <4>1. -(g * (q - p) - (h - g) * p) - g * (p - q) = (h - g) * p
        BY <1>1, <1>3
      <4>2. h * (p - q) - -(g * (q - p) - (h - g) * p) = (h - g) * (-q)
        BY <1>1, <1>3
      <4> QED BY <1>3, <3>2, <4>1, <4>2
    <3> QED BY <2>4, <3>1, <3>2
  <2>6. PICK a, e \in Int : /\ a = (IF p > 0 THEN p ELSE -p) /\ a >= 0
                            /\ e = (IF q > 0 THEN q ELSE -q) /\ e >= 0 /\ e * p + a * q = 0
    <3>1. CASE p < 0 /\ q > 0
      BY <1>3, <3>1
    <3>2. CASE p > 0 /\ q < 0
      BY <1>3, <3>2
    <3> QED BY <2>4, <3>1, <3>2
  <2>7. g * d <= n /\ n <= h * d
    <3>1. (h - g) * a >= 0 /\ (h - g) * e >= 0
      BY <1>1, <2>6
    <3>2. g * d \in Int /\ h * d \in Int
      BY <1>1, <2>4
    <3>3. n - g * d >= 0 /\ h * d - n >= 0
      BY <2>5, <2>6, <3>1
    <3> QED BY <2>4, <3>2, <3>3
  <2>8. PICK z : z = PayoffAtFraction(opt, n, d)
    OBVIOUS
  <2>9. z \in Int
    BY <2>4, <2>8, PayoffIsSum
  <2>10. (h - g) * z = (h * d - n) * p + (n - g * d) * q
    BY <1>2, <2>4, <2>7, <2>8, ChordBound
  <2>11. (h - g) * z = ((h - g) * e) * p + ((h - g) * a) * q
    BY <2>5, <2>6, <2>10
  <2>12. ((h - g) * e) * p + ((h - g) * a) * q = (h - g) * (e * p + a * q)
    BY <1>1, <1>3, <2>6
  <2>13. (h - g) * z = 0
    BY <1>1, <2>6, <2>11, <2>12
  <2>14. z = 0
    BY <1>1, <2>9, <2>13
  <2> QED BY <2>4, <2>8, <2>14 DEF Zero
<1> QED BY <1>4, <1>5

(* If the payoff changes its sign within a unit, the line it is a part of  *)
(* crosses zero there, or ends at zero there.  A falling line first.       *)
LEMMA FallsThroughZero ==
  ASSUME NEW g \in Int, NEW h \in Int, NEW a \in Int, g <= a, a + 1 <= h,
         NEW p \in Int, NEW q \in Int, NEW u \in Int, NEW v \in Int, u > 0, v <= 0,
         (h - g) * u = (h - a) * p + (a - g) * q,
         (h - g) * v = (h - (a + 1)) * p + ((a + 1) - g) * q
  PROVE  /\ p > 0 /\ q <= 0 /\ (q = 0 => h = a + 1)
         /\ a * (p - q) <= g * (p - q) + (h - g) * p
         /\ g * (p - q) + (h - g) * p <= (a + 1) * (p - q)
<1> DEFINE w == h - g
           d == p - q
<1>1. w \in Int /\ w > 0 /\ d \in Int
  OBVIOUS
<1>2. w * (u - v) = d
  <2>1. w * (u - v) = w * u - w * v
    BY <1>1
  <2>2. ((h - a) * p + (a - g) * q) - ((h - (a + 1)) * p + ((a + 1) - g) * q) = p - q
    OBVIOUS
  <2> QED BY <2>1, <2>2
<1>3. w * u = w * p - (a - g) * d /\ w * v = w * q + (h - (a + 1)) * d
  <2>1. (h - a) * p + (a - g) * q = (h - g) * p - (a - g) * (p - q)
    OBVIOUS
  <2>2. (h - (a + 1)) * p + ((a + 1) - g) * q = (h - g) * q + (h - (a + 1)) * (p - q)
    OBVIOUS
  <2> QED BY <2>1, <2>2
<1>4. w * v = w * p - ((a + 1) - g) * d
  <2>1. (h - (a + 1)) * p + ((a + 1) - g) * q = (h - g) * p - ((a + 1) - g) * (p - q)
    OBVIOUS
  <2> QED BY <2>1
<1>5. PICK wu, wv, wp, wq, x, y, z \in Int :
        /\ wu = w * u /\ wv = w * v /\ wp = w * p /\ wq = w * q
        /\ x = (a - g) * d /\ y = (h - (a + 1)) * d /\ z = ((a + 1) - g) * d
  BY <1>1
<1>6. wu > 0 /\ wv <= 0
  BY <1>1, <1>5
<1>7. d > 0
  <2>1. w * (u - v) > 0
    BY <1>1
  <2> QED BY <1>2, <2>1
<1>8. x >= 0 /\ y >= 0
  <2>1. a - g >= 0 /\ h - (a + 1) >= 0 /\ a - g \in Int /\ h - (a + 1) \in Int
    OBVIOUS
  <2> QED BY <1>1, <1>5, <1>7, <2>1
<1>9. wu = wp - x /\ wv = wq + y /\ wv = wp - z
  BY <1>3, <1>4, <1>5
<1>10. wp > 0 /\ wq <= 0
  BY <1>5, <1>6, <1>8, <1>9
<1>11. p > 0 /\ q <= 0
  BY <1>1, <1>5, <1>10
<1>12. q = 0 => h = a + 1
  <2>1. SUFFICES ASSUME q = 0 PROVE h = a + 1
    OBVIOUS
  <2>2. wq = 0
    BY <1>1, <1>5, <2>1
  <2>3. y = 0
    BY <1>5, <1>6, <1>8, <1>9, <2>2
  <2>4. (h - (a + 1)) * d = 0
    BY <1>5, <2>3
  <2>5. PICK k \in Int : k = h - (a + 1)
    OBVIOUS
  <2>6. k * d = 0
    BY <2>4, <2>5
  <2>7. k = 0
    BY <1>1, <1>7, <2>6
  <2> QED BY <2>5, <2>7
<1>13. a * d = g * d + x /\ (a + 1) * d = g * d + z
  <2>1. a * d = g * d + (a - g) * d /\ (a + 1) * d = g * d + ((a + 1) - g) * d
    BY <1>1
  <2> QED BY <1>5, <2>1
<1>14. x <= wp /\ wp <= z
  BY <1>5, <1>6, <1>9
<1>15. PICK gd \in Int : gd = g * d
  BY <1>1
<1>16. a * d <= g * d + w * p /\ g * d + w * p <= (a + 1) * d
  BY <1>5, <1>13, <1>14, <1>15
<1> QED BY <1>11, <1>12, <1>16

(* breakevens scans the grid from left to right: what is reported up to s, *)
(* from what is reported up to the point before.                           *)
Before(opt, s) == Max({r \in StrikeGrid(opt) : r < s})

Reports(f, opt, s) ==
  IF s = 0 THEN {}
  ELSE f[Before(opt, s)]
       \cup {b \in Crossing(opt, Before(opt, s), s) : \A a \in f[Before(opt, s)] : ~Near(a, b)}

LEMMA BeforeShape ==
  ASSUME NEW opt, PricedLegs(opt), NEW s \in StrikeGrid(opt), s # 0
  PROVE  /\ Before(opt, s) \in StrikeGrid(opt) /\ Before(opt, s) < s
         /\ Neighbours(opt, Before(opt, s), s)
<1> DEFINE G == StrikeGrid(opt)
           B == {r \in G : r < s}
<1>1. IsFiniteSet(G) /\ 0 \in G /\ \A x \in G : x \in Nat
  BY GridShape
<1> HIDE DEF G
<1>2. IsFiniteSet(B) /\ B \subseteq Int /\ 0 \in B
  BY <1>1, FS_Subset DEF G
<1>3. Max(B) \in B /\ \A y \in B : y <= Max(B)
  <2> HIDE DEF B
  <2> QED BY <1>2, MaxInt
<1>4. PICK m : m = Before(opt, s)
  OBVIOUS
<1>5. m \in B /\ \A y \in B : y <= m
  BY <1>3, <1>4 DEF Before, G
<1>6. \A x \in G : x <= m \/ s <= x
  BY <1>1, <1>5 DEF G
<1>7. m \in G /\ m < s /\ m <= s
  BY <1>1, <1>5 DEF G
<1> QED BY <1>4, <1>6, <1>7 DEF Neighbours, G

LEMMA ReportsExist ==
  ASSUME NEW opt, PricedLegs(opt)
  PROVE  \E f : f = [s \in StrikeGrid(opt) |-> Reports(f, opt, s)]
<1> DEFINE G == StrikeGrid(opt)
           Fits(f, n) == /\ f = [s \in G |-> f[s]]
                         /\ \A s \in G : s <= n => f[s] = Reports(f, opt, s)
           S == {n \in Nat : \E f : Fits(f, n)}
<1>1. \A x \in G : x \in Nat /\ x <= 4 * Max(StrikesOf(opt))
  BY GridShape
<1>2. 0 \in S
  <2> DEFINE f == [s \in G |-> {}]
  <2>1. \A s \in G : s <= 0 => f[s] = Reports(f, opt, s)
    BY <1>1 DEF Reports
  <2>2. f = [s \in G |-> f[s]]
    OBVIOUS
  <2> HIDE DEF f
  <2> QED BY <2>1, <2>2
<1>3. ASSUME NEW n \in Nat, n \in S
      PROVE  n + 1 \in S
  <2>1. PICK f : Fits(f, n)
    BY <1>3
  <2> DEFINE g == [s \in G |-> IF s = n + 1 THEN Reports(f, opt, s) ELSE f[s]]
  <2>2. ASSUME NEW s \in G, s <= n + 1
        PROVE  g[s] = Reports(g, opt, s)
    <3>1. CASE s = 0
      <4>1. f[s] = Reports(f, opt, s) /\ g[s] = f[s]
        BY <1>1, <2>1, <3>1
      <4>2. Reports(f, opt, s) = Reports(g, opt, s)
        BY <3>1 DEF Reports
      <4> QED BY <4>1, <4>2
    <3>2. CASE s # 0
      <4>1. /\ Before(opt, s) \in G /\ Before(opt, s) \in Nat /\ s \in Nat
            /\ Before(opt, s) < s
        BY <1>1, <3>2, BeforeShape
      <4>2. g[Before(opt, s)] = f[Before(opt, s)]
        <5>1. Before(opt, s) # n + 1
          BY <2>2, <4>1
        <5> QED BY <4>1, <5>1
      <4>3. Reports(g, opt, s) = Reports(f, opt, s)
        <5> HIDE DEF g
        <5> QED BY <4>2 DEF Reports
      <4>4. g[s] = Reports(f, opt, s)
        <5>1. CASE s = n + 1
          BY <5>1
        <5>2. CASE s # n + 1
          <6>1. s <= n
            BY <2>2, <4>1, <5>2
          <6> QED BY <2>1, <5>2, <6>1
        <5> QED BY <5>1, <5>2
      <4> QED BY <4>3, <4>4
    <3> QED BY <3>1, <3>2
  <2>3. g = [s \in G |-> g[s]]
    OBVIOUS
  <2> HIDE DEF g
  <2>4. Fits(g, n + 1)
    BY <2>2, <2>3
  <2> HIDE DEF Fits
  <2> QED BY <2>4
<1>4. Nat \subseteq S
  <2> HIDE DEF S
  <2> QED BY <1>2, <1>3, NatInductionSet
<1>5. 4 * Max(StrikesOf(opt)) \in S
  BY <1>4, GridShape
<1>6. PICK f : Fits(f, 4 * Max(StrikesOf(opt)))
  BY <1>5
<1>7. \A s \in G : f[s] = Reports(f, opt, s)
  BY <1>1, <1>6
<1>8. f = [s \in G |-> Reports(f, opt, s)]
  BY <1>6, <1>7
<1> QED BY <1>8

LEMMA BreakevensAreReports ==
  ASSUME NEW opt, PricedLegs(opt)
  PROVE  \E f : /\ \A s \in StrikeGrid(opt) : f[s] = Reports(f, opt, s)
                /\ Breakevens(opt) = f[4 * Max(StrikesOf(opt))]
<1> DEFINE f == CHOOSE upTo : upTo = [s \in StrikeGrid(opt) |->
                  IF s = 0 THEN {}
                  ELSE upTo[Max({r \in StrikeGrid(opt) : r < s})]
                       \cup {b \in Crossing(opt, Max({r \in StrikeGrid(opt) : r < s}), s) :
                               \A a \in upTo[Max({r \in StrikeGrid(opt) : r < s})] : ~Near(a, b)}]
<1>1. Breakevens(opt) = f[Max(StrikeGrid(opt))]
  BY DEF Breakevens
<1>2. f = [s \in StrikeGrid(opt) |-> Reports(f, opt, s)]
  BY ReportsExist, Zenon DEF Reports, Before
<1> HIDE DEF f
<1>3. \A s \in StrikeGrid(opt) : f[s] = Reports(f, opt, s)
  BY <1>2
<1> QED BY <1>1, <1>3, GridShape

(* What is reported is never taken back, and all of it is zeros.           *)
LEMMA ReportsGrow ==
  ASSUME NEW opt, PricedLegs(opt), NEW f,
         \A s \in StrikeGrid(opt) : f[s] = Reports(f, opt, s)
  PROVE  \A s, t \in StrikeGrid(opt) : s <= t =>
            /\ f[s] \subseteq f[t]
            /\ \A b \in f[t] : Zero(opt, b)
<1> DEFINE G == StrikeGrid(opt)
           S == {n \in Nat : \A s, t \in G : s <= t /\ t <= n =>
                    f[s] \subseteq f[t] /\ \A b \in f[t] : Zero(opt, b)}
<1>1. \A x \in G : x \in Nat /\ x <= 4 * Max(StrikesOf(opt))
  BY GridShape
<1>2. 0 \in S
  <2>1. \A t \in G : t <= 0 => t = 0 /\ f[t] = {}
    <3>1. Reports(f, opt, 0) = {}
      BY DEF Reports
    <3>2. \A t \in G : t <= 0 => t = 0
      BY <1>1
    <3> QED BY <3>1, <3>2
  <2>2. \A s, t \in G : s <= t /\ t <= 0 => s = t /\ f[t] = {}
    BY <1>1, <2>1
  <2> QED BY <2>2
<1>3. ASSUME NEW n \in Nat, n \in S
      PROVE  n + 1 \in S
  <2> SUFFICES ASSUME NEW s \in G, NEW t \in G, s <= t, t <= n + 1
               PROVE  f[s] \subseteq f[t] /\ \A b \in f[t] : Zero(opt, b)
    OBVIOUS
  <2>1. CASE t <= n
    BY <1>3, <2>1
  <2>2. CASE t = n + 1
    <3>1. /\ Before(opt, t) \in G /\ Before(opt, t) < t
          /\ Neighbours(opt, Before(opt, t), t)
      BY <2>2, BeforeShape
    <3>2. PICK r \in G : r = Before(opt, t)
      BY <3>1
    <3>3. r <= n /\ r \in Nat /\ r < t
      BY <1>1, <2>2, <3>1, <3>2
    <3>4. f[t] = f[r] \cup {b \in Crossing(opt, r, t) : \A a \in f[r] : ~Near(a, b)}
      <4>1. f[t] = Reports(f, opt, t) /\ t # 0
        BY <2>2
      <4> QED BY <3>2, <4>1, Zenon DEF Reports
    <3>5. \A b \in f[r] : Zero(opt, b)
      BY <1>1, <1>3, <3>3
    <3>6. \A b \in Crossing(opt, r, t) : Zero(opt, b)
      BY <3>1, <3>2, <3>3, CrossingIsZero
    <3>7. f[s] \subseteq f[t]
      <4>1. CASE s = t
        BY <4>1
      <4>2. CASE s # t
        <5>1. s <= r
          BY <1>1, <3>1, <3>2, <3>3, <4>2 DEF Neighbours
        <5>2. f[s] \subseteq f[r]
          BY <1>3, <3>3, <5>1
        <5> QED BY <3>4, <5>2
      <4> QED BY <4>1, <4>2
    <3> QED BY <3>4, <3>5, <3>6, <3>7
  <2> QED BY <1>1, <2>1, <2>2
<1>4. Nat \subseteq S
  <2> HIDE DEF S
  <2> QED BY <1>2, <1>3, NatInductionSet
<1> QED BY <1>1, <1>4

LEMMA CrossesHere ==
  ASSUME NEW opt, PricedLegs(opt), NEW g, NEW h, Neighbours(opt, g, h),
         NEW a \in Int, g <= a, a + 1 <= h,
         \/ PayoffAt(opt, a) > 0 /\ PayoffAt(opt, a + 1) <= 0
         \/ PayoffAt(opt, a) < 0 /\ PayoffAt(opt, a + 1) >= 0
  PROVE  \/ PayoffAt(opt, h) = 0 /\ h = a + 1
         \/ \E b \in Crossing(opt, g, h) :
               b[2] \in Int /\ b[2] > 0 /\ b[1] \in Int
               /\ a * b[2] <= b[1] /\ b[1] <= (a + 1) * b[2]
<1>1. g \in Int /\ h \in Int
  BY GridShape DEF Neighbours
<1>2. PICK p, q, u, v : /\ p = PayoffAt(opt, g) /\ q = PayoffAt(opt, h)
                        /\ u = PayoffAt(opt, a) /\ v = PayoffAt(opt, a + 1)
  OBVIOUS
<1>3. p \in Int /\ q \in Int /\ u \in Int /\ v \in Int
  BY <1>1, <1>2, PayoffIsSum DEF PayoffAt
<1>4. (h - g) * u = (h - a) * p + (a - g) * q
  <2>1. g * 1 <= a /\ a <= h * 1
    BY <1>1
  <2>2. (h - g) * PayoffAtFraction(opt, a, 1)
        = (h * 1 - a) * PayoffAt(opt, g) + (a - g * 1) * PayoffAt(opt, h)
    BY <2>1, ChordBound
  <2>3. h * 1 = h /\ g * 1 = g
    BY <1>1
  <2> QED BY <1>2, <2>2, <2>3 DEF PayoffAt
<1>5. (h - g) * v = (h - (a + 1)) * p + ((a + 1) - g) * q
  <2>1. g * 1 <= a + 1 /\ a + 1 <= h * 1
    BY <1>1
  <2>2. (h - g) * PayoffAtFraction(opt, a + 1, 1)
        = (h * 1 - (a + 1)) * PayoffAt(opt, g) + ((a + 1) - g * 1) * PayoffAt(opt, h)
    BY <2>1, ChordBound
  <2>3. h * 1 = h /\ g * 1 = g
    BY <1>1
  <2> QED BY <1>2, <2>2, <2>3 DEF PayoffAt
<1> DEFINE span == q - p
           num == g * span - (h - g) * p
<1>6. p # 0 => Crossing(opt, g, h) = (IF Opposite(p, q) THEN {IF span > 0 THEN <<num, span>> ELSE <<-num, -span>>}
                                      ELSE {})
  BY <1>2 DEF Crossing
<1>7. num \in Int /\ span \in Int
  BY <1>1, <1>3
<1>8. CASE u > 0 /\ v <= 0
  <2>1. /\ p > 0 /\ q <= 0 /\ (q = 0 => h = a + 1)
        /\ a * (p - q) <= g * (p - q) + (h - g) * p
        /\ g * (p - q) + (h - g) * p <= (a + 1) * (p - q)
    BY <1>1, <1>3, <1>4, <1>5, <1>8, FallsThroughZero
  <2>2. CASE q < 0
    <3>1. -num = g * (p - q) + (h - g) * p /\ -span = p - q /\ ~(span > 0)
      BY <1>1, <1>3, <2>1, <2>2
    <3>2. <<-num, -span>> \in Crossing(opt, g, h)
      <4> HIDE DEF num, span
      <4> QED BY <1>3, <1>6, <2>1, <2>2, <3>1 DEF Opposite
    <3>3. -num \in Int /\ -span \in Int /\ -span > 0
      BY <1>3, <1>7, <2>1, <2>2
    <3>4. a * (-span) <= -num /\ -num <= (a + 1) * (-span)
      <4> HIDE DEF num, span
      <4> QED BY <2>1, <3>1
    <3> HIDE DEF num, span
    <3> QED BY <3>2, <3>3, <3>4
  <2> QED BY <1>2, <1>3, <2>1, <2>2
<1>9. CASE u < 0 /\ v >= 0
  <2> DEFINE r == -p
             s == -q
  <2>1. /\ r \in Int /\ s \in Int /\ -u \in Int /\ -v \in Int /\ -u > 0 /\ -v <= 0
        /\ (h - g) * (-u) = (h - a) * r + (a - g) * s
        /\ (h - g) * (-v) = (h - (a + 1)) * r + ((a + 1) - g) * s
    <3>1. (h - g) * (-u) = -((h - g) * u) /\ (h - g) * (-v) = -((h - g) * v)
      BY <1>1, <1>3
    <3>2. (h - a) * r + (a - g) * s = -((h - a) * p + (a - g) * q)
      BY <1>1, <1>3
    <3>3. (h - (a + 1)) * r + ((a + 1) - g) * s = -((h - (a + 1)) * p + ((a + 1) - g) * q)
      BY <1>1, <1>3
    <3> QED BY <1>3, <1>4, <1>5, <1>9, <3>1, <3>2, <3>3
  <2>2. /\ r > 0 /\ s <= 0 /\ (s = 0 => h = a + 1)
        /\ a * (r - s) <= g * (r - s) + (h - g) * r
        /\ g * (r - s) + (h - g) * r <= (a + 1) * (r - s)
    <3> HIDE DEF r, s
    <3> QED BY <1>1, <2>1, FallsThroughZero
  <2>3. p < 0 /\ q >= 0 /\ (q = 0 => h = a + 1)
    BY <1>3, <2>2
  <2>4. CASE q > 0
    <3>1. num = g * (r - s) + (h - g) * r /\ span = r - s /\ span > 0
      BY <1>1, <1>3, <2>3, <2>4
    <3>2. <<num, span>> \in Crossing(opt, g, h)
      <4> HIDE DEF num, span
      <4> QED BY <1>3, <1>6, <2>3, <2>4, <3>1 DEF Opposite
    <3>3. a * span <= num /\ num <= (a + 1) * span
      <4> HIDE DEF num, span
      <4> QED BY <2>2, <3>1
    <3> HIDE DEF num, span
    <3> QED BY <1>7, <3>1, <3>2, <3>3
  <2> QED BY <1>2, <1>3, <2>3, <2>4
<1> QED BY <1>2, <1>8, <1>9

LEMMA NeighbourIsBefore ==
  ASSUME NEW opt, PricedLegs(opt), NEW g, NEW h, Neighbours(opt, g, h), g < h
  PROVE  h # 0 /\ Before(opt, h) = g
<1>1. h \in StrikeGrid(opt) /\ g \in StrikeGrid(opt) /\ \A x \in StrikeGrid(opt) : x \in Nat
  BY GridShape DEF Neighbours
<1>2. h # 0
  BY <1>1
<1>3. PICK m : m = Before(opt, h)
  OBVIOUS
<1>4. /\ m \in StrikeGrid(opt) /\ m < h
      /\ \A x \in StrikeGrid(opt) : x <= m \/ h <= x
  BY <1>1, <1>2, <1>3, BeforeShape DEF Neighbours
<1>5. m <= g /\ g <= m
  BY <1>1, <1>4 DEF Neighbours
<1> QED BY <1>1, <1>2, <1>3, <1>4, <1>5

(* Where the payoff changes its sign there is a crossing.                  *)
LEMMA CrossingBetween ==
  ASSUME NEW opt, PricedLegs(opt), NEW s \in 0 .. 4 * Max(StrikesOf(opt)),
         NEW t \in 0 .. 4 * Max(StrikesOf(opt)), s < t,
         Opposite(PayoffAt(opt, s), PayoffAt(opt, t))
  PROVE  \E x \in StrikeGrid(opt) : x # 0 /\ \E b \in Crossing(opt, Before(opt, x), x) :
           s * b[2] <= b[1] /\ b[1] <= t * b[2]
<1> DEFINE top == 4 * Max(StrikesOf(opt))
           P(y) == PayoffAt(opt, y)
           T == {y \in s .. t : IF P(s) > 0 THEN P(y) <= 0 ELSE P(y) >= 0}
<1>1. top \in Nat /\ s \in Nat /\ t \in Nat /\ t <= top
  BY GridShape
<1>2. \A y \in Int : P(y) \in Int
  BY PayoffIsSum DEF PayoffAt
<1> HIDE DEF top, P
<1>3. Opposite(P(s), P(t)) /\ P(s) \in Int /\ P(t) \in Int
  BY <1>1, <1>2 DEF P
<1>4. T \subseteq Nat /\ t \in T
  BY <1>1, <1>3 DEF Opposite
<1>5. PICK y \in T : \A z \in T : y <= z
  <2> HIDE DEF T
  <2> QED BY <1>4, Least
<1>6. y \in Nat /\ s < y /\ y <= t
  <2>1. y # s
    BY <1>1, <1>3, <1>5 DEF Opposite
  <2> QED BY <1>1, <1>4, <1>5, <2>1
<1>7. PICK a \in Nat : a + 1 = y /\ s <= a /\ a < t
  <2>1. y - 1 \in Nat /\ (y - 1) + 1 = y /\ s <= y - 1 /\ y - 1 < t
    BY <1>1, <1>6
  <2> QED BY <2>1
<1>8. a \notin T /\ a \in s .. t
  <2>1. ~(y <= a)
    BY <1>7
  <2> QED BY <1>1, <1>5, <1>7, <2>1
<1>9. P(a) \in Int /\ P(y) \in Int
  BY <1>2, <1>6, <1>7
<1>10. \/ P(a) > 0 /\ P(y) <= 0 /\ P(t) < 0
       \/ P(a) < 0 /\ P(y) >= 0 /\ P(t) > 0
  BY <1>3, <1>5, <1>8, <1>9 DEF Opposite
<1>11. PICK g, h \in StrikeGrid(opt) : Neighbours(opt, g, h) /\ g <= a /\ y <= h
  <2>1. a \in 0 .. top /\ y \in 0 .. top /\ a <= y /\ y <= a + 1
    BY <1>1, <1>6, <1>7
  <2> QED BY <2>1, Enclosed DEF top
<1>12. g \in Int /\ h \in Int /\ g < h
  BY <1>7, <1>11, GridShape
<1>13. \/ P(h) = 0 /\ h = y
       \/ \E b \in Crossing(opt, g, h) :
             b[2] \in Int /\ b[2] > 0 /\ b[1] \in Int
             /\ a * b[2] <= b[1] /\ b[1] <= y * b[2]
  <2>1. a + 1 <= h /\ a \in Int
    BY <1>7, <1>11
  <2>2. \/ PayoffAt(opt, a) > 0 /\ PayoffAt(opt, a + 1) <= 0
        \/ PayoffAt(opt, a) < 0 /\ PayoffAt(opt, a + 1) >= 0
    BY <1>7, <1>10 DEF P
  <2>3. \/ PayoffAt(opt, h) = 0 /\ h = a + 1
        \/ \E b \in Crossing(opt, g, h) :
              b[2] \in Int /\ b[2] > 0 /\ b[1] \in Int
              /\ a * b[2] <= b[1] /\ b[1] <= (a + 1) * b[2]
    BY <1>11, <2>1, <2>2, CrossesHere
  <2> QED BY <1>7, <2>3 DEF P
<1>14. CASE P(h) = 0 /\ h = y
  <2>1. y # t /\ y < t
    BY <1>1, <1>6, <1>10, <1>14
  <2>2. PICK j, k \in StrikeGrid(opt) : Neighbours(opt, j, k) /\ j <= y /\ y + 1 <= k
    <3>1. y \in 0 .. top /\ y + 1 \in 0 .. top /\ y <= y + 1 /\ y + 1 <= y + 1
      BY <1>1, <1>6, <2>1
    <3> QED BY <3>1, Enclosed DEF top
  <2>3. j \in Int /\ k \in Int /\ (h <= j \/ k <= h)
    BY <2>2, GridShape DEF Neighbours
  <2>4. j = y /\ j < k
    BY <1>6, <1>14, <2>2, <2>3
  <2>5. k # 0 /\ Before(opt, k) = j
    BY <2>2, <2>4, NeighbourIsBefore
  <2>6. <<j, 1>> \in Crossing(opt, j, k)
    BY <1>14, <2>4 DEF Crossing, P
  <2>7. s * 1 <= j /\ j <= t * 1
    BY <1>1, <1>6, <2>4
  <2>8. s * <<j, 1>>[2] <= <<j, 1>>[1] /\ <<j, 1>>[1] <= t * <<j, 1>>[2]
    BY <2>7
  <2> QED BY <2>2, <2>5, <2>6, <2>8
<1>15. ASSUME NEW b \in Crossing(opt, g, h), b[2] \in Int, b[2] > 0, b[1] \in Int,
              a * b[2] <= b[1], b[1] <= y * b[2]
       PROVE  \E x \in StrikeGrid(opt) : x # 0 /\ \E c \in Crossing(opt, Before(opt, x), x) :
                s * c[2] <= c[1] /\ c[1] <= t * c[2]
  <2>1. h # 0 /\ Before(opt, h) = g
    BY <1>11, <1>12, NeighbourIsBefore
  <2>2. PICK d \in Int : d = b[2] /\ d > 0
    BY <1>15
  <2>3. s * d <= a * d /\ y * d <= t * d
    BY <1>1, <1>6, <1>7, <2>2
  <2>4. s * d \in Int /\ a * d \in Int /\ y * d \in Int /\ t * d \in Int
    BY <1>1, <1>6, <1>7, <2>2
  <2>5. s * d <= b[1] /\ b[1] <= t * d
    BY <1>15, <2>2, <2>3, <2>4
  <2> QED BY <1>11, <2>1, <2>2, <2>5
<1> QED BY <1>13, <1>14, <1>15

(* A zero that is dropped is near one that was reported.                   *)
LEMMA NearBy ==
  ASSUME NEW a \in Int \X Int, NEW b \in Int \X Int, a[2] > 0, b[2] > 0, Near(a, b),
         NEW s \in Int, NEW t \in Int, s * b[2] <= b[1], b[1] <= t * b[2]
  PROVE  (s - 1) * a[2] <= a[1] /\ a[1] <= (t + 1) * a[2]
<1>1. PICK m, n, x, y \in Int : m = a[1] /\ n = a[2] /\ x = b[1] /\ y = b[2]
  OBVIOUS
<1>2. PICK my, xn, ny \in Int : my = m * y /\ xn = x * n /\ ny = n * y
  BY <1>1
<1>3. my - xn < ny /\ xn - my < ny
  BY <1>1, <1>2 DEF Near
<1>4. s * y <= x /\ x <= t * y /\ y > 0 /\ n > 0
  BY <1>1
<1>5. (s * y) * n <= x * n /\ x * n <= (t * y) * n
  <2>1. PICK sy, ty \in Int : sy = s * y /\ ty = t * y
    BY <1>1
  <2>2. sy * n <= x * n /\ x * n <= ty * n
    BY <1>1, <1>4, <2>1
  <2> QED BY <2>1, <2>2
<1>6. /\ (s * y) * n = ((s - 1) * n) * y + n * y
      /\ (t * y) * n = ((t + 1) * n) * y - n * y
  BY <1>1
<1>7. ((s - 1) * n) * y < m * y /\ m * y < ((t + 1) * n) * y
  <2>1. PICK p, q \in Int : p = ((s - 1) * n) * y /\ q = ((t + 1) * n) * y
    BY <1>1
  <2> QED BY <1>2, <1>3, <1>5, <1>6, <2>1
<1>8. PICK l, r \in Int : l = (s - 1) * n /\ r = (t + 1) * n
  BY <1>1
<1>9. l * y < m * y /\ m * y < r * y
  BY <1>7, <1>8
<1>10. \A i, j \in Int : i > j => i * y >= j * y
  BY <1>1, <1>4
<1>11. l <= m /\ m <= r
  <2>1. l * y \in Int /\ m * y \in Int /\ r * y \in Int
    BY <1>1, <1>8
  <2> QED BY <1>1, <1>8, <1>9, <1>10, <2>1
<1> QED BY <1>1, <1>8, <1>11

LEMMA BreakevensHold ==
  ASSUME NEW opt, PricedLegs(opt)
  PROVE  /\ \A b \in Breakevens(opt) : PayoffAtFraction(opt, b[1], b[2]) = 0
         /\ \A s, t \in 0 .. 4 * Max(StrikesOf(opt)) :
              s < t /\ Opposite(PayoffAt(opt, s), PayoffAt(opt, t)) =>
                \E b \in Breakevens(opt) : (s - 1) * b[2] <= b[1] /\ b[1] <= (t + 1) * b[2]
<1>1. PICK f : /\ \A s \in StrikeGrid(opt) : f[s] = Reports(f, opt, s)
               /\ Breakevens(opt) = f[4 * Max(StrikesOf(opt))]
  BY BreakevensAreReports
<1> DEFINE top == 4 * Max(StrikesOf(opt))
<1>2. top \in StrikeGrid(opt) /\ \A s \in StrikeGrid(opt) : s <= top
  BY GridShape
<1>3. \A s \in StrikeGrid(opt) : f[s] \subseteq f[top] /\ \A b \in f[s] : Zero(opt, b)
  <2>1. \A s, t \in StrikeGrid(opt) : s <= t => f[s] \subseteq f[t] /\ \A b \in f[t] : Zero(opt, b)
    BY <1>1, ReportsGrow
  <2>2. \A s \in StrikeGrid(opt) : s <= s
    BY GridShape
  <2> QED BY <1>2, <2>1, <2>2
<1>4. \A b \in Breakevens(opt) : Zero(opt, b)
  BY <1>1, <1>2, <1>3
<1>5. ASSUME NEW s \in 0 .. top, NEW t \in 0 .. top, s < t,
             Opposite(PayoffAt(opt, s), PayoffAt(opt, t))
      PROVE  \E b \in Breakevens(opt) : (s - 1) * b[2] <= b[1] /\ b[1] <= (t + 1) * b[2]
  <2>1. PICK x \in StrikeGrid(opt) : x # 0 /\ \E b \in Crossing(opt, Before(opt, x), x) :
           s * b[2] <= b[1] /\ b[1] <= t * b[2]
    BY <1>5, CrossingBetween
  <2>2. PICK b \in Crossing(opt, Before(opt, x), x) : s * b[2] <= b[1] /\ b[1] <= t * b[2]
    BY <2>1
  <2>3. /\ Before(opt, x) \in StrikeGrid(opt) /\ Before(opt, x) < x
        /\ Neighbours(opt, Before(opt, x), x)
    BY <2>1, BeforeShape
  <2>4. Zero(opt, b)
    BY <2>3, CrossingIsZero
  <2>5. s \in Int /\ t \in Int
    BY <1>5
  <2>6. b \in f[x] \/ \E a \in f[Before(opt, x)] : Near(a, b)
    <3>1. f[x] = Reports(f, opt, x)
      BY <1>1
    <3> QED BY <2>1, <3>1, Zenon DEF Reports
  <2>7. CASE b \in f[x]
    <3>1. PICK m, d \in Int : m = b[1] /\ d = b[2] /\ d > 0
      BY <2>4 DEF Zero
    <3>2. (s - 1) * d <= s * d /\ t * d <= (t + 1) * d
      BY <2>5, <3>1
    <3>3. (s - 1) * d \in Int /\ s * d \in Int /\ t * d \in Int /\ (t + 1) * d \in Int
      BY <2>5, <3>1
    <3>4. (s - 1) * d <= m /\ m <= (t + 1) * d
      BY <2>2, <3>1, <3>2, <3>3
    <3>5. b \in Breakevens(opt)
      BY <1>1, <1>3, <2>7
    <3> QED BY <3>1, <3>4, <3>5
  <2>8. ASSUME NEW a \in f[Before(opt, x)], Near(a, b)
        PROVE  \E c \in Breakevens(opt) : (s - 1) * c[2] <= c[1] /\ c[1] <= (t + 1) * c[2]
    <3>1. Zero(opt, a) /\ a \in Breakevens(opt)
      BY <1>1, <1>3, <2>3
    <3>2. (s - 1) * a[2] <= a[1] /\ a[1] <= (t + 1) * a[2]
      BY <2>2, <2>4, <2>5, <2>8, <3>1, NearBy DEF Zero
    <3> QED BY <3>1, <3>2
  <2> QED BY <2>6, <2>7, <2>8
<1> QED BY <1>4, <1>5 DEF Zero

LegRow == [side : Sides, qty : DOMAIN QtyOf, expiry : Codes, strike : Nat \cup {Nothing}, right : Rights]

(* The legs have quantities that were typed and strikes that were offered. *)
RowsAreTyped == legs \in Seq(LegRow) /\ chosen \in Codes \cup {Nothing} /\ chains \subseteq Codes

LEMMA DefaultIsACode ==
  ASSUME RowsAreTyped
  PROVE  /\ EffectiveDefault \in Codes
         /\ Rows \subseteq DOMAIN Marks[EffectiveDefault]
         /\ \A r \in Rows : r[1] \in Rights /\ r[2] \in Nat \ {0}
<1>1. EffectiveDefault \in Codes
  BY ChainsTyped DEF RowsAreTyped, EffectiveDefault, Codes
<1>2. Rows \subseteq DOMAIN Marks[EffectiveDefault]
  BY DEF Rows
<1>3. DOMAIN Marks[EffectiveDefault] \subseteq Rights \X (Nat \ {0})
  BY <1>1, ChainsTyped DEF Codes
<1> QED BY <1>1, <1>2, <1>3

LEMMA RowsStayTyped ==
  ASSUME RowsAreTyped, [BuilderNext]_builderVars
  PROVE  RowsAreTyped'
<1> USE DEF RowsAreTyped
<1>1. ASSUME NEW e \in Codes, ChooseExpiry(e)
      PROVE  RowsAreTyped'
  BY <1>1 DEF ChooseExpiry, Codes
<1>2. CASE ChainArrives
  BY <1>2, DefaultIsACode DEF ChainArrives, Codes, LegRow
<1>3. CASE AddLeg
  <2>1. NewLeg \in LegRow
    BY DefaultIsACode, BuilderBounds, QuantitiesTyped DEF NewLeg, LegRow
  <2> QED BY <1>3, <2>1 DEF AddLeg, Codes
<1>4. ASSUME NEW i \in DOMAIN legs, RemoveLeg(i)
      PROVE  RowsAreTyped'
  <2>1. RemoveAt(legs, i) \in Seq(LegRow)
    BY DEF RemoveAt
  <2> QED BY <1>4, <2>1 DEF RemoveLeg, Codes
<1>5. ASSUME NEW i \in DOMAIN legs, PatchLeg(i)
      PROVE  RowsAreTyped'
  <2>1. legs[i] \in LegRow
    OBVIOUS
  <2>2. PICK new \in LegRow : legs' = [legs EXCEPT ![i] = new]
    <3>1. ASSUME NEW s \in Sides, legs' = [legs EXCEPT ![i].side = s]
          PROVE  \E new \in LegRow : legs' = [legs EXCEPT ![i] = new]
      <4>1. [legs[i] EXCEPT !.side = s] \in LegRow
        BY <2>1 DEF LegRow
      <4> QED BY <3>1, <4>1
    <3>2. ASSUME NEW q \in DOMAIN QtyOf, legs' = [legs EXCEPT ![i].qty = q]
          PROVE  \E new \in LegRow : legs' = [legs EXCEPT ![i] = new]
      <4>1. [legs[i] EXCEPT !.qty = q] \in LegRow
        BY <2>1 DEF LegRow
      <4> QED BY <3>2, <4>1
    <3>3. ASSUME NEW k \in {r[2] : r \in Rows} \cup {Nothing}, legs' = [legs EXCEPT ![i].strike = k]
          PROVE  \E new \in LegRow : legs' = [legs EXCEPT ![i] = new]
      <4>1. k \in Nat \cup {Nothing}
        BY DefaultIsACode
      <4>2. [legs[i] EXCEPT !.strike = k] \in LegRow
        BY <2>1, <4>1 DEF LegRow
      <4> QED BY <3>3, <4>2
    <3>4. ASSUME NEW r \in Rights, legs' = [legs EXCEPT ![i].right = r]
          PROVE  \E new \in LegRow : legs' = [legs EXCEPT ![i] = new]
      <4>1. [legs[i] EXCEPT !.right = r] \in LegRow
        BY <2>1 DEF LegRow
      <4> QED BY <3>4, <4>1
    <3> QED BY <1>5, <3>1, <3>2, <3>3, <3>4 DEF PatchLeg
  <2>3. legs' \in Seq(LegRow)
    BY <2>2
  <2> QED BY <1>5, <2>3 DEF PatchLeg, Codes
<1>6. CASE PreviewSpec \/ ModalCloses \/ UNCHANGED builderVars
  BY <1>6 DEF PreviewSpec, ModalCloses, builderVars, Codes, LegRow
<1> QED BY <1>1, <1>2, <1>3, <1>4, <1>5, <1>6 DEF BuilderNext

(* The footer works on what PricedLegs says.                               *)
LEMMA FooterIsPriced ==
  ASSUME RowsAreTyped, OptionLegs(MathLegs) # <<>>
  PROVE  PricedLegs(OptionLegs(MathLegs))
<1> DEFINE C == {j \in DOMAIN legs : Complete(legs[j])}
           D == {i \in C : MathLegs[i].mark # NoMark}
           opt == OptionLegs(MathLegs)
<1>1. DOMAIN MathLegs = C
  BY DEF MathLegs
<1>2. opt = [i \in D |-> MathLegs[i]]
  BY <1>1 DEF OptionLegs, Restrict
<1>3. IsFiniteSet(DOMAIN legs)
  <2>1. DOMAIN legs = 1 .. Len(legs) /\ Len(legs) \in Nat
    BY DEF RowsAreTyped
  <2> QED BY <2>1, FS_Interval
<1>4. IsFiniteSet(D)
  BY <1>3, FS_Subset
<1>5. ASSUME NEW i \in D
      PROVE  MathLegs[i].strike \in Nat \ {0} /\ MathLegs[i].qty \in Int /\ MathLegs[i].mark \in Int
  <2>1. i \in DOMAIN legs /\ Complete(legs[i]) /\ legs[i] \in LegRow
    BY DEF RowsAreTyped
  <2>2. /\ MathLegs[i].strike = legs[i].strike /\ MathLegs[i].qty = Quantity(legs[i])
        /\ MathLegs[i].mark = Marks[EffectiveDefault][RowFor(legs[i])]
    BY <2>1 DEF MathLegs
  <2>3. RowFor(legs[i]) \in Rows /\ Quantity(legs[i]) # NoQty
    BY <2>1 DEF Complete
  <2>4. legs[i].strike \in Nat \ {0}
    BY <2>3, DefaultIsACode DEF RowFor
  <2>5. Quantity(legs[i]) \in Int
    BY <2>1, <2>3, QuantitiesTyped DEF Quantity, LegRow
  <2>6. Marks[EffectiveDefault][RowFor(legs[i])] \in Int \cup {NoMark}
    BY <2>3, DefaultIsACode, ChainsTyped DEF Codes
  <2> QED BY <2>2, <2>4, <2>5, <2>6
<1>6. D # {}
  <2>1. SUFFICES ASSUME D = {} PROVE opt = <<>>
    OBVIOUS
  <2> QED BY <1>2, <2>1
<1>7. DOMAIN opt = D /\ \A i \in D : opt[i] = MathLegs[i]
  BY <1>2
<1> QED BY <1>4, <1>5, <1>6, <1>7 DEF PricedLegs

LEMMA FooterIsRight ==
  ASSUME RowsAreTyped
  PROVE  ExtremesBoundPayoff /\ BreakevensExact
<1> DEFINE opt == OptionLegs(MathLegs)
<1>1. CASE opt = <<>>
  BY <1>1 DEF ExtremesBoundPayoff, BreakevensExact
<1>2. CASE opt # <<>>
  <2>1. PricedLegs(opt)
    BY <1>2, FooterIsPriced
  <2>2. \A s \in 0 .. 4 * Max(StrikesOf(opt)) : PayoffAt(opt, s) \in MaxLoss(opt) .. MaxProfit(opt)
    <3> HIDE DEF opt
    <3> QED BY <2>1, ExtremesHold
  <2>3. /\ \A b \in Breakevens(opt) : PayoffAtFraction(opt, b[1], b[2]) = 0
        /\ \A s, t \in 0 .. 4 * Max(StrikesOf(opt)) :
             s < t /\ Opposite(PayoffAt(opt, s), PayoffAt(opt, t)) =>
               \E b \in Breakevens(opt) : (s - 1) * b[2] <= b[1] /\ b[1] <= (t + 1) * b[2]
    <3> HIDE DEF opt
    <3> QED BY <2>1, BreakevensHold
  <2>4. ExtremesBoundPayoff
    BY <2>2 DEF ExtremesBoundPayoff
  <2>5. BreakevensExact
    BY <2>3 DEF BreakevensExact
  <2> QED BY <2>4, <2>5
<1> QED BY <1>1, <1>2

(* Whatever is typed and whichever chains have arrived, no spot up to      *)
(* twice the highest strike has a payoff outside the maximum profit and    *)
(* loss of the footer (strategy-math.ts:147-190).                          *)
THEOREM FooterBoundsPayoff == BuilderSpec => []ExtremesBoundPayoff
<1>1. BuilderInit => RowsAreTyped
  BY DEF BuilderInit, RowsAreTyped, LegRow
<1>2. RowsAreTyped /\ [BuilderNext]_builderVars => RowsAreTyped'
  BY RowsStayTyped
<1>3. RowsAreTyped => ExtremesBoundPayoff
  BY FooterIsRight
<1> QED BY <1>1, <1>2, <1>3, PTL DEF BuilderSpec

(* The breakevens of the footer are zeros of the payoff, and none is       *)
(* missing where the payoff changes its sign (strategy-math.ts:192-229).   *)
THEOREM FooterFindsBreakevens == BuilderSpec => []BreakevensExact
<1>1. BuilderInit => RowsAreTyped
  BY DEF BuilderInit, RowsAreTyped, LegRow
<1>2. RowsAreTyped /\ [BuilderNext]_builderVars => RowsAreTyped'
  BY RowsStayTyped
<1>3. RowsAreTyped => BreakevensExact
  BY FooterIsRight
<1> QED BY <1>1, <1>2, <1>3, PTL DEF BuilderSpec
=============================================================================
