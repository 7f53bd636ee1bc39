------------------------------- MODULE Shell -------------------------------
(***************************************************************************)
(* The page around the pages (pages/Section1Paper.tsx): its three tabs,    *)
(* the keyboard shortcuts (hooks/useKeyboardShortcuts.ts), the help        *)
(* (components/ShortcutHelp.tsx), the expiry selector                      *)
(* (components/ExpirySelector.tsx) and the tabs of a detail panel          *)
(* (components/DetailTabs.tsx).                                            *)
(***************************************************************************)
EXTENDS Naturals, Sequences

CONSTANTS
  ChordWindow,  \* 1000 ms in the code
  MaxNow,       \* bound on the clock
  Keys,         \* the keys pressed
  Listings,     \* what the expiries query may answer: lists, nearest first
  Panels,       \* the tabs of a detail panel; the code gives the first one
  FirstPanel,
  Unset         \* null

ASSUME ShellBounds == ChordWindow \in Nat /\ MaxNow \in Nat \ {0}
ASSUME PanelsTyped == FirstPanel \in Panels

VARIABLES
  tab,
  pendingG,      \* when `g` was last pressed, 0 for none
  now,
  helpOpen,
  focus,         \* where the focus is: only the expiry selector takes typing
  focusing,      \* the animation frame that moves the focus is pending
  expiries, expiry,
  active, panels, \* of the detail panel: the tab shown, the tabs mounted
  last           \* history: the last key heeded and its time; by key or click

shellVars == <<tab, pendingG, now, helpOpen, focus, focusing, expiries, expiry,
               active, panels, last>>

Tabs == {"chain", "trade", "live"}
TabOf == [p |-> "trade", l |-> "live", o |-> "chain"]

ShellTypeOK ==
  /\ tab \in Tabs
  /\ pendingG \in 0..now /\ now \in 1..MaxNow
  /\ {helpOpen, focusing} \subseteq BOOLEAN
  /\ focus \in {"page", "expiry"}
  /\ expiries \in Listings \cup {<<>>}
  /\ active \in panels /\ panels \subseteq Panels

ShellInit ==
  /\ tab = "chain" /\ pendingG = 0 /\ now = 1 /\ helpOpen = FALSE
  /\ focus = "page" /\ focusing = FALSE
  /\ expiries = <<>> /\ expiry = Unset
  /\ active = FirstPanel /\ panels = {FirstPanel}
  /\ last = [key |-> "none", at |-> 0, by |-> "none"]

(* setTab: the page of another tab is mounted anew, its panels with it. *)
SetTab(t) ==
  /\ tab' = t
  /\ IF t = tab THEN UNCHANGED <<active, panels>>
                ELSE active' = FirstPanel /\ panels' = {FirstPanel}

StayOnTab == UNCHANGED <<tab, active, panels>>

ClickTab(t) ==
  /\ SetTab(t)
  /\ focus' = "page"
  /\ last' = [last EXCEPT !.by = "click"]
  /\ UNCHANGED <<pendingG, now, helpOpen, focusing, expiries, expiry>>

-----------------------------------------------------------------------------
ChordActive == pendingG # 0 /\ now - pendingG <= ChordWindow

(* A letter that completes the chord. *)
Chord(k) ==
  /\ ChordActive /\ k \in DOMAIN TabOf
  /\ SetTab(TabOf[k])
  /\ pendingG' = 0
  /\ UNCHANGED <<helpOpen, focusing>>

\* Mutant of PendingAfter: another key does not cancel the chord.
PendingStays(k) == IF k = "g" THEN now
                   ELSE IF k \in {"/", "?"} THEN pendingG ELSE 0

(* What a key that completes no chord leaves of one: "/" and "?" return    *)
(* before the last line of the handler.                                    *)
PendingAfter(k) == IF k = "g" THEN now
                   ELSE IF k \in {"/", "?"} /\ ~ChordActive THEN pendingG ELSE 0

SingleKey(k) ==
  /\ ~(ChordActive /\ k \in DOMAIN TabOf)
  /\ pendingG' = PendingAfter(k)
  /\ IF k = "/" THEN SetTab("chain") ELSE StayOnTab
  /\ focusing' = (focusing \/ k = "/")
  /\ helpOpen' = CASE k = "?" -> ~helpOpen
                   [] k = "Escape" -> FALSE
                   [] OTHER -> helpOpen

(* onKeyDown of a key without modifiers outside the fields, and the help's *)
(* own listener.                                                           *)
KeyDown(k) ==
  /\ focus = "page"
  /\ Chord(k) \/ SingleKey(k)
  /\ last' = [key |-> k, at |-> now, by |-> "key"]
  /\ UNCHANGED <<now, focus, expiries, expiry>>

(* A key with a modifier or in a field: only the help's listener runs. *)
IgnoredKey(k) ==
  /\ helpOpen' = (helpOpen /\ k # "Escape")
  /\ UNCHANGED <<tab, pendingG, now, focus, focusing, expiries, expiry, active, panels, last>>

CloseHelp ==
  /\ helpOpen
  /\ helpOpen' = FALSE
  /\ UNCHANGED <<tab, pendingG, now, focus, focusing, expiries, expiry, active, panels, last>>

(* requestAnimationFrame of onSearch; a disabled selector takes no focus. *)
FocusMoves ==
  /\ focusing
  /\ focusing' = FALSE
  /\ focus' = IF expiries = <<>> THEN focus ELSE "expiry"
  /\ UNCHANGED <<tab, pendingG, now, helpOpen, expiries, expiry, active, panels, last>>

TimeGoesOn ==
  /\ now < MaxNow
  /\ now' = now + 1
  /\ UNCHANGED <<tab, pendingG, helpOpen, focus, focusing, expiries, expiry, active,
                 panels, last>>

-----------------------------------------------------------------------------
(* The query answers, also again later; the nearest expiry is the default  *)
(* until there is one.                                                     *)
ExpiriesArrive ==
  /\ \E answer \in Listings :
       /\ answer # expiries
       /\ expiries' = answer
       /\ expiry' = IF expiry = Unset /\ answer # <<>> THEN answer[1] ELSE expiry
  /\ UNCHANGED <<tab, pendingG, now, helpOpen, focus, focusing, active, panels, last>>

PickExpiry(i) ==
  /\ expiries[i] # expiry
  /\ expiry' = expiries[i] /\ focus' = "expiry"
  /\ UNCHANGED <<tab, pendingG, now, helpOpen, focusing, expiries, active, panels, last>>

(* select: a panel is mounted when it is first chosen, and stays mounted. *)
SelectPanel(p) ==
  /\ tab # "chain" /\ p # active
  /\ active' = p /\ panels' = panels \cup {p}
  /\ focus' = "page"
  /\ UNCHANGED <<tab, pendingG, now, helpOpen, focusing, expiries, expiry, last>>

ShellNext ==
  \/ \E t \in Tabs : ClickTab(t)
  \/ \E k \in Keys : KeyDown(k) \/ IgnoredKey(k)
  \/ CloseHelp \/ FocusMoves \/ TimeGoesOn
  \/ ExpiriesArrive \/ (\E i \in DOMAIN expiries : PickExpiry(i))
  \/ \E p \in Panels : SelectPanel(p)

ShellSpec == ShellInit /\ [][ShellNext]_shellVars

-----------------------------------------------------------------------------
(* The page is left, with everything a form on it held, only on purpose:   *)
(* by a click, by "/", or by a letter directly after a `g` and within the  *)
(* window, whatever other keys, ignored keys, clicks and delays there are. *)
(* useKeyboardShortcuts.ts:16, 27-34, 47-86.                               *)
LeavesOnlyOnPurpose ==
  [][tab' # tab =>
       \/ last'.by = "click" \/ last'.key = "/"
       \/ /\ last'.key \in DOMAIN TabOf /\ tab' = TabOf[last'.key]
          /\ last.key = "g"
          /\ last'.at - last.at <= ChordWindow]_shellVars

=============================================================================
