----------------------------- MODULE RestorePlan -----------------------------
(***************************************************************************)
(* What a restore decides: internal/filter, BuildPlan and the startup      *)
(* command of internal/restore.  A manifest is a sequence of sessions      *)
(*     [name, attached, windows]       attached = 0: never attached        *)
(* of windows [index, panes, deco, layout] of panes [cmd, kids, relaunch,  *)
(* text], where text is the content its scrollback hash stands for and ""  *)
(* is what the code's empty string is.                                     *)
(***************************************************************************)
EXTENDS Integers, Sequences, SequencesExt

CONSTANTS
  IdleShells,   \* filter.defaultIdleShells
  AllowList     \* cfg.CommandAllowList

\* A filter is [age, idleShells, idleWindows, skipRunning]; age 0 is no limit.
SkipReason(f, s, running, now) ==
  IF f.skipRunning /\ s.name \in running THEN "running"
  ELSE IF f.age > 0 /\ now - s.attached > f.age THEN "stale" ELSE ""

SkipPane(f, p) == f.idleShells /\ p.cmd \in IdleShells /\ p.kids = 0

SkipWindow(f, w) == f.idleWindows /\ \A i \in DOMAIN w.panes : SkipPane(f, w.panes[i])

KeptPanes(f, w) ==
  FlattenSeq([i \in DOMAIN w.panes |-> IF SkipPane(f, w.panes[i]) THEN <<>> ELSE <<w.panes[i]>>])

-----------------------------------------------------------------------------
\* A pane's own override wins over the list of commands.
Target(p) ==
  CASE p.relaunch # ""                           -> p.relaunch
    [] p.relaunch = "" /\ p.cmd \in AllowList    -> p.cmd
    [] OTHER                                     -> ""

\* Replay the scrollback, then run the target, and end in a shell.
Startup(p) == [replay |-> p.text, target |-> Target(p)]

WindowActions(f, s, w, first) ==
  LET at   == <<s.name, w.index>>
      kept == KeptPanes(f, w)
  IN  <<[op |-> "window", at |-> at, run |-> Startup(kept[1]), newSession |-> first]>>
      \o (IF w.deco = "" THEN <<>> ELSE <<[op |-> "option", at |-> at, value |-> w.deco]>>)
      \o [i \in 1 .. Len(kept) - 1 |->
            [op |-> "split", at |-> at, run |-> Startup(kept[i + 1])]]
      \o <<[op |-> "layout", at |-> at, layout |-> w.layout]>>

\* A window none of whose panes is kept is not planned, whatever SkipWindow says.
PlannedWindows(f, s) ==
  FlattenSeq([i \in DOMAIN s.windows |->
    IF SkipWindow(f, s.windows[i]) \/ KeptPanes(f, s.windows[i]) = <<>> THEN <<>>
    ELSE <<s.windows[i]>>])

SessionActions(f, s) ==
  LET ws == PlannedWindows(f, s)
  IN  FlattenSeq([i \in DOMAIN ws |-> WindowActions(f, s, ws[i], i = 1)])

BuildPlan(m, f, running, now) ==
  FlattenSeq([i \in DOMAIN m |->
    IF SkipReason(f, m[i], running, now) = "" THEN SessionActions(f, m[i]) ELSE <<>>])
=============================================================================
