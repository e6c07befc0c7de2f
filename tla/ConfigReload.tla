--------------------------- MODULE ConfigReload ----------------------------
(***************************************************************************)
(* Hot reload of the routing configuration (internal/routing/routing.go):  *)
(* CreateFromConfig loads routes.yaml and starts the monitor, a goroutine  *)
(* that selects over the watcher's events, SIGHUP, the cooldown timer and  *)
(* the process context, and re-reads the file. Editors and operators are   *)
(* the environment.                                                        *)
(*                                                                         *)
(* An operator whose name starts with Mutant is no part of the             *)
(* specification: it is a plausible bug in the definition that follows it, *)
(* kept to show that a property notices it.                                *)
(***************************************************************************)
EXTENDS Naturals, Sequences

CONSTANTS
  MaxEdits,        (* bound: changes made to the file                      *)
  MaxHups,         (* bound: SIGHUPs sent                                  *)
  QueueLimit       (* events the watcher holds before it loses some        *)

ASSUME BoundsAssumption ==
  MaxEdits \in Nat /\ MaxHups \in Nat /\ QueueLimit \in Nat \ {0}

(* What ParseConfig and Validate make of the file: a broken one does not   *)
(* parse, an invalid one does not validate.                                *)
Verdicts == {"valid", "invalid", "broken", "absent"}

(* A state of the file: whole is FALSE while a save in place is under way. *)
Contents == [version : 0 .. MaxEdits, whole : BOOLEAN, verdict : Verdicts]

Nothing == [version |-> 0, whole |-> TRUE, verdict |-> "absent"]

VARIABLES
  disk,       (* the file as it is                                         *)
  mpc,        (* where CreateFromConfig and, after it, the monitor are     *)
  loaded,     (* the content ParseConfig has read                          *)
  index,      (* atomicIndex: the content the routing index was built from *)
  events,     (* watcher events for the directory, not handled yet         *)
  sigCh,      (* the signal channel, of capacity 1, is full                *)
  onCoolDown, (* a reload was made less than reloadCooldown ago            *)
  timer,      (* configCooldown: off, running, or fired and not received   *)
  pending,    (* pendingReload: a reload is due when the cooldown ends     *)
  outcome,    (* what the last reload, or the last removal, was counted as *)
  hups,       (* SIGHUPs sent                                              *)
  owed,       (* history: the file was not read since the last SIGHUP      *)
  missed,     (* history: nor since a change that left no event for it     *)
  ctxDone     (* the process context is cancelled                          *)

vars == <<disk, mpc, loaded, index, events, sigCh, onCoolDown, timer, pending,
          outcome, hups, owed, missed, ctxDone>>

environment == <<disk, hups, ctxDone>>
cooldown    == <<onCoolDown, timer, pending>>
config      == <<loaded, index, outcome>>

Booting  == mpc \in {"bootRead", "bootApply", "watch"}
Watching == mpc \in {"subscribe", "select", "read", "apply"}

Init ==
  /\ disk \in {c \in Contents : c.version = 0 /\ c.whole}
  /\ mpc        = "bootRead"
  /\ loaded     = Nothing
  /\ index      = Nothing
  /\ events     = <<>>
  /\ sigCh      = FALSE
  /\ onCoolDown = FALSE
  /\ timer      = "off"
  /\ pending    = FALSE
  /\ outcome    = "ok"
  /\ hups       = 0
  /\ owed       = FALSE
  /\ missed     = FALSE
  /\ ctxDone    = FALSE

-----------------------------------------------------------------------------
(* The environment.                                                        *)

(* inotify may merge an event with the last one still unread if it is the  *)
(* same. Before the directory is watched and when the queue is full there  *)
(* is no event; of the overflow the monitor only logs that it happened.    *)
Room == Watching /\ Len(events) < QueueLimit

Announce(event) ==
  \/ Room /\ events' = Append(events, event)
  \/ Watching /\ events # <<>> /\ events[Len(events)] = event /\ UNCHANGED events

Lose == ~Room /\ UNCHANGED events

Write(content) ==
  /\ disk.version < MaxEdits
  /\ disk' = [content EXCEPT !.version = disk.version + 1]
  /\ UNCHANGED <<mpc, config, sigCh, cooldown, hups, owed, ctxDone>>

Edit(content, event) ==
  /\ Write(content)
  /\ \/ Announce(event) /\ UNCHANGED missed
     \/ Lose /\ missed' = TRUE

(* A save in place: truncated and written in pieces, then complete.        *)
StartSave ==
  /\ disk.whole
  /\ \E v \in Verdicts \ {"absent"} :
       Edit([version |-> 0, whole |-> FALSE, verdict |-> v], "changed")

EndSave ==
  /\ ~disk.whole
  /\ \E v \in Verdicts \ {"absent"} :
       Edit([version |-> 0, whole |-> TRUE, verdict |-> v], "changed")

(* A new file is renamed over the old one, in one step.                    *)
Replace ==
  /\ disk.whole
  /\ \E v \in Verdicts \ {"absent"} :
       Edit([version |-> 0, whole |-> TRUE, verdict |-> v], "changed")

(* The file is deleted or renamed away.                                    *)
Delete ==
  /\ disk.whole /\ disk.verdict # "absent"
  /\ Edit([version |-> 0, whole |-> TRUE, verdict |-> "absent"], "gone")

(* The file is a symbolic link and another link on the way to the content  *)
(* is changed, as a mounted ConfigMap is updated: the event, if there is   *)
(* one, names another file (isTargetPath).                                 *)
Retarget ==
  /\ disk.whole
  /\ \E v \in Verdicts \ {"absent"} : Write([version |-> 0, whole |-> TRUE, verdict |-> v])
  /\ Announce("other") \/ Lose
  /\ missed' = TRUE

(* Something happens to another file of the directory.                     *)
OtherFile ==
  /\ Announce("other")
  /\ UNCHANGED <<environment, mpc, config, sigCh, cooldown, owed, missed>>

(* SIGHUP: before signal.Notify it ends the process; after it, a full      *)
(* channel drops it.                                                       *)
Sighup ==
  /\ hups < MaxHups /\ mpc \notin {"dead", "exited"}
  /\ hups' = hups + 1
  /\ IF mpc \in {"select", "read", "apply"}
     THEN mpc' = mpc /\ sigCh' = TRUE /\ owed' = TRUE
     ELSE mpc' = "dead" /\ UNCHANGED <<sigCh, owed>>
  /\ UNCHANGED <<disk, config, events, cooldown, missed, ctxDone>>

(* SIGINT or SIGTERM.                                                      *)
Shutdown ==
  /\ mpc \notin {"exited", "dead"} /\ ~ctxDone
  /\ ctxDone' = TRUE
  /\ UNCHANGED <<disk, mpc, config, events, sigCh, cooldown, hups, owed, missed>>

TimerFires ==
  /\ timer = "running"
  /\ timer' = "fired"
  /\ UNCHANGED <<environment, mpc, config, events, sigCh, onCoolDown, pending, owed, missed>>

-----------------------------------------------------------------------------
(* CreateFromConfig.                                                       *)

BootRead ==
  /\ mpc = "bootRead"
  /\ loaded' = disk
  /\ missed' = FALSE
  /\ mpc'    = "bootApply"
  /\ UNCHANGED <<environment, index, outcome, events, sigCh, cooldown, owed>>

(* main panics without a valid configuration.                              *)
BootApply ==
  /\ mpc = "bootApply"
  /\ IF loaded.verdict = "valid"
     THEN index' = loaded /\ mpc' = "watch"
     ELSE index' = index /\ mpc' = "dead"
  /\ UNCHANGED <<environment, loaded, outcome, events, sigCh, cooldown, owed, missed>>

(* watcher.Add, then the monitor goroutine is started.                     *)
Watch ==
  /\ mpc = "watch"
  /\ mpc' = "subscribe"
  /\ UNCHANGED <<environment, config, events, sigCh, cooldown, owed, missed>>

(* The monitor calls signal.Notify and enters its loop.                    *)
Subscribe ==
  /\ mpc = "subscribe"
  /\ mpc' = "select"
  /\ UNCHANGED <<environment, config, events, sigCh, cooldown, owed, missed>>

-----------------------------------------------------------------------------
(* The monitor.                                                            *)

(* reload: now, or when the cooldown is over.                              *)
MutantReloadDrops ==
  /\ mpc' = IF onCoolDown THEN "select" ELSE "read"
  /\ UNCHANGED cooldown

MutantReloadNow == mpc' = "read" /\ UNCHANGED cooldown

Reload ==
  /\ mpc'     = IF onCoolDown THEN "select" ELSE "read"
  /\ pending' = (pending \/ onCoolDown)
  /\ UNCHANGED <<onCoolDown, timer>>

HandleSighup ==
  /\ mpc = "select" /\ sigCh
  /\ sigCh' = FALSE
  /\ Reload
  /\ UNCHANGED <<environment, config, events, owed, missed>>

(* A Write or Create event.                                                *)
HandleChanged ==
  /\ mpc = "select" /\ events # <<>> /\ Head(events) = "changed"
  /\ events' = Tail(events)
  /\ Reload
  /\ UNCHANGED <<environment, config, sigCh, owed, missed>>

(* A Remove or Rename event: the file is gone, ...                         *)
HandleRemoved ==
  /\ mpc = "select" /\ events # <<>> /\ Head(events) = "gone"
  /\ disk.verdict = "absent"
  /\ events'  = Tail(events)
  /\ outcome' = "remove"
  /\ UNCHANGED <<environment, mpc, loaded, index, sigCh, cooldown, owed, missed>>

(* ... or already back.                                                    *)
HandleReplaced ==
  /\ mpc = "select" /\ events # <<>> /\ Head(events) = "gone"
  /\ disk.verdict # "absent"
  /\ events' = Tail(events)
  /\ Reload
  /\ UNCHANGED <<environment, config, sigCh, owed, missed>>

(* Any other event: it is of another file, or only of an attribute.        *)
HandleOther ==
  /\ mpc = "select" /\ events # <<>> /\ Head(events) = "other"
  /\ events' = Tail(events)
  /\ UNCHANGED <<environment, mpc, config, sigCh, cooldown, owed, missed>>

MutantHandleCooldown ==
  /\ mpc = "select" /\ timer = "fired"
  /\ timer'      = "off"
  /\ onCoolDown' = FALSE
  /\ pending'    = FALSE
  /\ UNCHANGED <<environment, mpc, config, events, sigCh, owed, missed>>

(* The cooldown is over: a reload that had to wait is made.                *)
HandleCooldown ==
  /\ mpc = "select" /\ timer = "fired"
  /\ timer'      = "off"
  /\ onCoolDown' = FALSE
  /\ pending'    = FALSE
  /\ mpc'        = IF pending THEN "read" ELSE "select"
  /\ UNCHANGED <<environment, config, events, sigCh, owed, missed>>

(* reloadConfig, first half: ParseConfig reads the file.                   *)
ReadConfig ==
  /\ mpc = "read"
  /\ loaded' = disk
  /\ owed'   = FALSE
  /\ missed' = FALSE
  /\ mpc'    = "apply"
  /\ UNCHANGED <<environment, index, outcome, events, sigCh, cooldown>>

Reason(verdict) ==
  CASE verdict = "valid" -> "ok" [] verdict = "invalid" -> "validate" [] OTHER -> "parse"

MutantApplyUnvalidated ==
  /\ mpc = "apply"
  /\ index'      = IF loaded.verdict \in {"valid", "invalid"} THEN loaded ELSE index
  /\ outcome'    = Reason(loaded.verdict)
  /\ onCoolDown' = TRUE
  /\ timer'      = "running"
  /\ mpc'        = "select"
  /\ UNCHANGED <<environment, loaded, events, sigCh, pending, owed, missed>>

MutantApplyNoReset ==
  /\ mpc = "apply"
  /\ index'      = IF loaded.verdict = "valid" THEN loaded ELSE index
  /\ outcome'    = Reason(loaded.verdict)
  /\ onCoolDown' = TRUE
  /\ mpc'        = "select"
  /\ UNCHANGED <<environment, loaded, events, sigCh, timer, pending, owed, missed>>

MutantApplyReason ==
  /\ mpc = "apply"
  /\ index'      = IF loaded.verdict = "valid" THEN loaded ELSE index
  /\ outcome'    = loaded.verdict
  /\ onCoolDown' = TRUE
  /\ timer'      = "running"
  /\ mpc'        = "select"
  /\ UNCHANGED <<environment, loaded, events, sigCh, pending, owed, missed>>

(* reloadConfig, second half: a configuration that parses and validates is *)
(* swapped in, any other is counted; either way the cooldown begins.       *)
ApplyConfig ==
  /\ mpc = "apply"
  /\ index'      = IF loaded.verdict = "valid" THEN loaded ELSE index
  /\ outcome'    = Reason(loaded.verdict)
  /\ onCoolDown' = TRUE
  /\ timer'      = "running"
  /\ mpc'        = "select"
  /\ UNCHANGED <<environment, loaded, events, sigCh, pending, owed, missed>>

(* ctx.Done: the monitor closes the watcher and returns.                   *)
Exit ==
  /\ mpc = "select" /\ ctxDone
  /\ mpc' = "exited"
  /\ UNCHANGED <<environment, config, events, sigCh, cooldown, owed, missed>>

-----------------------------------------------------------------------------
Environment ==
  \/ StartSave \/ EndSave \/ Replace \/ Delete \/ Retarget \/ OtherFile
  \/ Sighup \/ Shutdown

Boot == BootRead \/ BootApply \/ Watch \/ Subscribe

Monitor ==
  \/ HandleSighup \/ HandleChanged \/ HandleRemoved \/ HandleReplaced
  \/ HandleOther \/ HandleCooldown \/ ReadConfig \/ ApplyConfig \/ Exit

Next == Environment \/ TimerFires \/ Boot \/ Monitor

Spec == Init /\ [][Next]_vars

(* The process runs and its timer fires. Editors promise nothing: a save   *)
(* may stay half done. The random choice of select does not put off the    *)
(* cooldown's end for ever, whatever else happens in the directory;        *)
(* signals and events of the file are finitely many.                       *)
FairSpec ==
  Spec /\ WF_vars(TimerFires) /\ WF_vars(Boot) /\ WF_vars(Monitor) /\ WF_vars(HandleCooldown)

-----------------------------------------------------------------------------
(* Properties.                                                             *)

(* Every variable of the monitor keeps its type.                           *)
TypeOK ==
  /\ disk       \in Contents
  /\ mpc        \in {"bootRead", "bootApply", "watch", "subscribe", "select", "read", "apply",
                     "exited", "dead"}
  /\ loaded     \in Contents
  /\ index      \in Contents
  /\ events     \in Seq({"changed", "gone", "other"})
  /\ sigCh      \in BOOLEAN
  /\ onCoolDown \in BOOLEAN
  /\ timer      \in {"off", "running", "fired"}
  /\ pending    \in BOOLEAN
  /\ outcome    \in {"ok", "parse", "validate", "remove"}
  /\ hups       \in 0 .. MaxHups
  /\ owed       \in BOOLEAN
  /\ missed     \in BOOLEAN
  /\ ctxDone    \in BOOLEAN

(* From the moment it serves, the proxy serves a configuration that was    *)
(* read from the file and validated, whatever happens to the file          *)
(* (README.md:8, ADR-0010).                                                *)
LastGood == mpc \notin {"bootRead", "bootApply", "dead"} => index.verdict = "valid"

(* A reload put off during the cooldown is not lost: the timer that ends   *)
(* the cooldown is running or has fired (routing.go:534).                  *)
PendingHasTimer == pending => onCoolDown /\ timer # "off"

(* A SIGHUP leads to a read of the file made after it, although the        *)
(* channel holds only one and drops the others.                            *)
SighupNotLost == owed /\ mpc \in {"select", "read", "apply"} => sigCh \/ pending \/ mpc = "read"

(* When the monitor has nothing left to do, the proxy runs what is in the  *)
(* file or has counted why it does not (ADR-0010). A divergence is silent  *)
(* only while no event could tell of it and no later event or signal has   *)
(* led to a read: an overflow, for one, is harmless as long as the queue   *)
(* it filled holds an event of the file (routing.go:514, 536, 592, 608).   *)
NoSilentDivergence ==
  mpc = "select" /\ events = <<>> /\ ~pending =>
    index = disk \/ outcome # "ok" \/ missed

(* The file is read at most once per cooldown, whatever the number of      *)
(* events and signals.                                                     *)
OneReadPerCooldown == [][mpc' = "read" /\ mpc # "read" => timer # "running"]_vars

(* Once the editors are done, a valid file becomes the running             *)
(* configuration, unless its last change was missed or the process ends.   *)
Converges ==
  <>[](disk.verdict = "valid" /\ mpc \notin {"exited", "dead"} => index = disk \/ missed)

-----------------------------------------------------------------------------
(* What the documentation says and the code does not do; each is checked   *)
(* by a run that finds it violated.                                        *)

(* Debouncing keeps the proxy from parsing a partially written file        *)
(* (ADR-0009:12-14): no reload swaps one in. The first event of a save     *)
(* reloads at once, and a truncated file can be valid.                     *)
NoTornReload == [][mpc = "apply" /\ index' # index => index'.whole]_vars
=============================================================================
