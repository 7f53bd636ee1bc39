----------------------------- MODULE LiveGroups -----------------------------
(***************************************************************************)
(* Tagging live positions into strategies: the form of the live page       *)
(* (components/live/StrategyGrouper.tsx) and the server's transaction      *)
(* (backend/app/services/live/strategy_grouper.py).                        *)
(***************************************************************************)
EXTENDS Naturals, Sequences, FiniteSets

CONSTANTS
  Symbols,
  MaxCreates,    \* bound on the requests sent
  MaxGroupFaults \* bound on the refused and lost ones

ASSUME GroupBounds == MaxCreates \in Nat /\ MaxGroupFaults \in Nat

VARIABLES
  shownPositions, \* symbols of the positions on the page
  picked,         \* selected
  named,          \* a name has been typed
  creating,       \* busy
  creates,        \* requests whose caller still awaits something
  created,        \* how many were sent
  groups,         \* server: the strategies, each the set of its symbols
  groupFaults

groupVars == <<shownPositions, picked, named, creating, creates, created, groups,
               groupFaults>>

Creates == [id : Nat, symbols : SUBSET Symbols, stage : {"sent", "ok", "failed"},
            mounted : BOOLEAN]

GroupsTypeOK ==
  /\ shownPositions \subseteq Symbols /\ picked \subseteq Symbols
  /\ named \in BOOLEAN /\ creating \in BOOLEAN
  /\ creates \subseteq Creates
  /\ created \in 0..MaxCreates
  /\ groups \in Seq(SUBSET Symbols)
  /\ groupFaults \in 0..MaxGroupFaults

GroupsInit ==
  /\ shownPositions = Symbols /\ picked = {} /\ named = FALSE /\ creating = FALSE
  /\ creates = {} /\ created = 0 /\ groups = <<>> /\ groupFaults = 0

-----------------------------------------------------------------------------
(* A position is opened or closed; what is picked stays picked. *)
PositionsChange(s) ==
  /\ shownPositions' = IF s \in shownPositions THEN shownPositions \ {s}
                                               ELSE shownPositions \cup {s}
  /\ UNCHANGED <<picked, named, creating, creates, created, groups, groupFaults>>

(* toggle: the box of a position on the page. *)
TogglePicked(s) ==
  /\ s \in shownPositions
  /\ picked' = IF s \in picked THEN picked \ {s} ELSE picked \cup {s}
  /\ UNCHANGED <<shownPositions, named, creating, creates, created, groups, groupFaults>>

TypeName ==
  /\ named' = ~named
  /\ UNCHANGED <<shownPositions, picked, creating, creates, created, groups, groupFaults>>

CanCreate == named /\ picked # {} /\ ~creating

OnCreate ==
  /\ CanCreate /\ created < MaxCreates
  /\ created' = created + 1
  /\ creating' = TRUE
  /\ creates' = creates \cup
       {[id |-> created + 1, symbols |-> picked, stage |-> "sent", mounted |-> TRUE]}
  /\ UNCHANGED <<shownPositions, picked, named, groups, groupFaults>>

(* The form leaves the page and comes back empty. *)
Remount ==
  /\ picked' = {} /\ named' = FALSE /\ creating' = FALSE
  /\ creates' = {[c EXCEPT !.mounted = FALSE] : c \in creates}
  /\ UNCHANGED <<shownPositions, created, groups, groupFaults>>

Answered(c, stage) == (creates \ {c}) \cup {[c EXCEPT !.stage = stage]}

\* Mutant of Untagged: only the very same symbols are refused.
NotTheSame(symbols) == \A i \in DOMAIN groups : groups[i] # symbols

(* The unique constraint on the symbol. *)
Untagged(symbols) == \A i \in DOMAIN groups : groups[i] \cap symbols = {}

(* One transaction; the answer may be lost. *)
StrategyCreated(c) ==
  /\ c.stage = "sent" /\ Untagged(c.symbols)
  /\ groups' = Append(groups, c.symbols)
  /\ \/ creates' = Answered(c, "ok") /\ UNCHANGED groupFaults
     \/ /\ groupFaults < MaxGroupFaults /\ groupFaults' = groupFaults + 1
        /\ creates' = Answered(c, "failed")
  /\ UNCHANGED <<shownPositions, picked, named, creating, created>>

(* 409. *)
AlreadyTagged(c) ==
  /\ c.stage = "sent" /\ ~Untagged(c.symbols)
  /\ creates' = Answered(c, "failed")
  /\ UNCHANGED <<shownPositions, picked, named, creating, created, groups, groupFaults>>

NotCreated(c) ==
  /\ c.stage = "sent" /\ groupFaults < MaxGroupFaults
  /\ groupFaults' = groupFaults + 1
  /\ creates' = Answered(c, "failed")
  /\ UNCHANGED <<shownPositions, picked, named, creating, created, groups>>

(* The rest of onCreate: a failure keeps what was picked and the name. *)
CreateEnds(c) ==
  /\ c.stage \in {"ok", "failed"}
  /\ creates' = creates \ {c}
  /\ IF c.mounted
       THEN /\ creating' = FALSE
            /\ IF c.stage = "ok" THEN picked' = {} /\ named' = FALSE
                                 ELSE UNCHANGED <<picked, named>>
       ELSE UNCHANGED <<picked, named, creating>>
  /\ UNCHANGED <<shownPositions, created, groups, groupFaults>>

GroupsNext ==
  \/ \E s \in Symbols : PositionsChange(s) \/ TogglePicked(s)
  \/ TypeName \/ OnCreate \/ Remount
  \/ \E c \in creates : \/ StrategyCreated(c) \/ AlreadyTagged(c) \/ NotCreated(c)
                        \/ CreateEnds(c)

GroupsSpec == GroupsInit /\ [][GroupsNext]_groupVars

-----------------------------------------------------------------------------
(* A symbol is in at most one strategy, whatever is picked again after a   *)
(* lost answer or sent twice by a form that was mounted anew: two          *)
(* stop-losses never close the same position.                              *)
(* StrategyGrouper.tsx:17-18, strategy_grouper.py:19-31.                   *)
SymbolInOneStrategy ==
  \A i, j \in DOMAIN groups : i # j => groups[i] \cap groups[j] = {}

=============================================================================
