------------------------ MODULE ConfigReloadProofs -------------------------
(***************************************************************************)
(* Proofs about ConfigReload, for any number of edits and signals: the     *)
(* proxy always serves a validated configuration, no reload or SIGHUP is   *)
(* lost to the cooldown, the file is read at most once per cooldown, and   *)
(* the running configuration differs silently from it only as long as the  *)
(* last change was missed.                                                 *)
(***************************************************************************)
EXTENDS ConfigReload, TLAPS

(* The flag and the timer agree, no reload begins during a cooldown, and   *)
(* no SIGHUP is received before the monitor listens for one.               *)
CooldownAgrees ==
  /\ onCoolDown <=> timer # "off"
  /\ pending => onCoolDown
  /\ mpc \notin {"select", "exited", "dead"} => ~onCoolDown
  /\ Booting \/ mpc = "subscribe" => ~owed

SafeInv == TypeOK /\ CooldownAgrees /\ LastGood /\ SighupNotLost

(* Some event still unread is of the file.                                 *)
Told == \E i \in 1 .. Len(events) : events[i] # "other"

(* A file that differs from what was read is announced by an event, or a   *)
(* reload is due, or the change was missed.                                *)
Tracked ==
  /\ mpc = "bootApply" => loaded = disk \/ missed
  /\ mpc = "watch" => index = disk \/ missed
  /\ outcome = "ok" /\ mpc \in {"subscribe", "select"} =>
       index = disk \/ Told \/ pending \/ missed
  /\ mpc = "apply" => loaded = disk \/ Told \/ missed

-----------------------------------------------------------------------------
LEMMA InitSafe == Init => SafeInv
<1> SUFFICES ASSUME Init PROVE SafeInv
  OBVIOUS
<1>1. Nothing \in Contents
  BY BoundsAssumption DEF Nothing, Contents, Verdicts
<1>2. disk \in Contents /\ hups \in 0 .. MaxHups
  BY BoundsAssumption DEF Init
<1>3. events \in Seq({"changed", "gone", "other"}) /\ loaded \in Contents /\ index \in Contents
  BY <1>1 DEF Init
<1>4. sigCh \in BOOLEAN /\ onCoolDown \in BOOLEAN /\ pending \in BOOLEAN /\ owed \in BOOLEAN
      /\ ctxDone \in BOOLEAN
  BY DEF Init
<1>5. TypeOK
  BY <1>2, <1>3, <1>4 DEF Init, TypeOK
<1> QED
  BY <1>5 DEF Init, SafeInv, CooldownAgrees, Booting, LastGood, SighupNotLost

(* Whatever is announced, the queue holds events.                          *)
LEMMA QueueType ==
  ASSUME TypeOK, NEW event \in {"changed", "gone", "other"}, Announce(event) \/ Lose
  PROVE  events' \in Seq({"changed", "gone", "other"})
BY DEF Announce, Lose, TypeOK

(* A change of the file leaves all but the file, the queue and missed.     *)
LEMMA WriteSafe ==
  ASSUME SafeInv, NEW content \in Contents, Write(content), missed' \in BOOLEAN,
         events' \in Seq({"changed", "gone", "other"})
  PROVE  SafeInv'
<1>1. disk' \in Contents
  <2>1. disk.version + 1 \in 0 .. MaxEdits
    BY BoundsAssumption DEF SafeInv, TypeOK, Contents, Write
  <2> QED
    BY <2>1 DEF Write, Contents
<1>2. TypeOK'
  BY <1>1 DEF Write, SafeInv, TypeOK, config, cooldown
<1> QED
  BY <1>2 DEF Write, config, cooldown, SafeInv, CooldownAgrees, Booting, LastGood, SighupNotLost

LEMMA EditContents ==
  ASSUME TypeOK
  PROVE  \A v \in Verdicts : \A b \in BOOLEAN :
           [version |-> 0, whole |-> b, verdict |-> v] \in Contents
BY BoundsAssumption DEF Contents

(* An edit touches nothing the monitor owns but its queue of events.       *)
LEMMA EnvironmentStep == SafeInv /\ Environment => SafeInv'
<1> SUFFICES ASSUME SafeInv, Environment PROVE SafeInv'
  OBVIOUS
<1> USE DEF SafeInv
<1>1. ASSUME NEW content \in Contents, NEW event \in {"changed", "gone"}, Edit(content, event)
      PROVE  SafeInv'
  <2>1. events' \in Seq({"changed", "gone", "other"})
    BY <1>1, QueueType DEF Edit
  <2>2. missed' \in BOOLEAN
    BY <1>1 DEF Edit, TypeOK
  <2> QED
    BY <1>1, <2>1, <2>2, WriteSafe DEF Edit
<1>2. CASE StartSave
  <2>1. PICK v \in Verdicts \ {"absent"} :
          Edit([version |-> 0, whole |-> FALSE, verdict |-> v], "changed")
    BY <1>2 DEF StartSave
  <2> QED
    BY <1>1, <2>1, EditContents
<1>3. CASE EndSave
  <2>1. PICK v \in Verdicts \ {"absent"} :
          Edit([version |-> 0, whole |-> TRUE, verdict |-> v], "changed")
    BY <1>3 DEF EndSave
  <2> QED
    BY <1>1, <2>1, EditContents
<1>4. CASE Replace
  <2>1. PICK v \in Verdicts \ {"absent"} :
          Edit([version |-> 0, whole |-> TRUE, verdict |-> v], "changed")
    BY <1>4 DEF Replace
  <2> QED
    BY <1>1, <2>1, EditContents
<1>5. CASE Delete
  BY <1>1, <1>5, EditContents DEF Delete, Verdicts
<1>6. CASE Sighup
  <2>1. TypeOK'
    <3>1. hups' \in 0 .. MaxHups
      BY <1>6, BoundsAssumption DEF Sighup, TypeOK
    <3>2. mpc' \in {mpc, "dead"} /\ sigCh' \in BOOLEAN /\ owed' \in BOOLEAN
      BY <1>6 DEF Sighup, TypeOK
    <3> QED
      BY <1>6, <3>1, <3>2 DEF Sighup, TypeOK, config, cooldown
  <2>2. CooldownAgrees' /\ LastGood' /\ SighupNotLost'
    BY <1>6 DEF Sighup, config, cooldown, CooldownAgrees, Booting, LastGood, SighupNotLost
  <2> QED
    BY <2>1, <2>2
<1>7. CASE Shutdown
  BY <1>7 DEF Shutdown, TypeOK, config, cooldown, CooldownAgrees, Booting, LastGood, SighupNotLost
<1>8. CASE Retarget
  <2>1. PICK v \in Verdicts \ {"absent"} : Write([version |-> 0, whole |-> TRUE, verdict |-> v])
    BY <1>8 DEF Retarget
  <2>2. events' \in Seq({"changed", "gone", "other"})
    BY <1>8, QueueType DEF Retarget
  <2> QED
    BY <1>8, <2>1, <2>2, WriteSafe, EditContents DEF Retarget
<1>9. CASE OtherFile
  <2>1. events' \in Seq({"changed", "gone", "other"})
    BY <1>9, QueueType DEF OtherFile
  <2>2. TypeOK'
    BY <1>9, <2>1 DEF OtherFile, environment, config, cooldown, TypeOK
  <2> QED
    BY <1>9, <2>2 DEF OtherFile, environment, config, cooldown, CooldownAgrees, Booting,
                      LastGood, SighupNotLost
<1> QED
  BY <1>2, <1>3, <1>4, <1>5, <1>6, <1>7, <1>8, <1>9 DEF Environment

(* Taking an event off the queue.                                          *)
LEMMA EventType ==
  ASSUME TypeOK, events # <<>>
  PROVE  Tail(events) \in Seq({"changed", "gone", "other"})
BY DEF TypeOK

LEMMA MonitorStep == SafeInv /\ (TimerFires \/ Boot \/ Monitor) => SafeInv'
<1> SUFFICES ASSUME SafeInv, TimerFires \/ Boot \/ Monitor PROVE SafeInv'
  OBVIOUS
<1> USE DEF SafeInv, environment, config, cooldown
<1>1. CASE TimerFires
  <2>1. TypeOK'
    BY <1>1 DEF TimerFires, TypeOK
  <2>2. onCoolDown' = onCoolDown /\ timer # "off" /\ timer' # "off"
    BY <1>1 DEF TimerFires
  <2>3. CooldownAgrees'
    BY <1>1, <2>2 DEF TimerFires, CooldownAgrees, Booting
  <2> QED
    BY <1>1, <2>1, <2>3 DEF TimerFires, LastGood, SighupNotLost
<1>2. CASE BootRead
  <2>1. TypeOK'
    BY <1>2 DEF BootRead, TypeOK
  <2> QED
    BY <1>2, <2>1 DEF BootRead, CooldownAgrees, Booting, LastGood, SighupNotLost
<1>3. CASE BootApply
  <2>1. TypeOK'
    BY <1>3 DEF BootApply, TypeOK
  <2> QED
    BY <1>3, <2>1 DEF BootApply, CooldownAgrees, Booting, LastGood, SighupNotLost
<1>4. CASE Watch
  <2>1. TypeOK'
    BY <1>4 DEF Watch, TypeOK
  <2> QED
    BY <1>4, <2>1 DEF Watch, CooldownAgrees, Booting, LastGood, SighupNotLost
<1>5. CASE Subscribe
  <2>1. TypeOK'
    BY <1>5 DEF Subscribe, TypeOK
  <2> QED
    BY <1>5, <2>1 DEF Subscribe, CooldownAgrees, Booting, LastGood, SighupNotLost
<1>6. CASE HandleSighup
  BY <1>6 DEF HandleSighup, Reload, TypeOK, CooldownAgrees, Booting, LastGood, SighupNotLost
<1>7. CASE HandleChanged \/ HandleReplaced
  <2>1. /\ mpc = "select" /\ events' \in Seq({"changed", "gone", "other"}) /\ Reload
        /\ UNCHANGED <<environment, config, sigCh, owed, missed>>
    BY <1>7, EventType DEF HandleChanged, HandleReplaced
  <2>2. TypeOK'
    BY <2>1 DEF Reload, TypeOK
  <2> QED
    BY <2>1, <2>2 DEF Reload, TypeOK, CooldownAgrees, Booting, LastGood, SighupNotLost
<1>8. CASE HandleRemoved
  BY <1>8, EventType DEF HandleRemoved, TypeOK, CooldownAgrees, Booting, LastGood, SighupNotLost
<1>9. CASE HandleCooldown
  BY <1>9 DEF HandleCooldown, TypeOK, CooldownAgrees, Booting, LastGood, SighupNotLost
<1>10. CASE ReadConfig
  BY <1>10 DEF ReadConfig, TypeOK, CooldownAgrees, Booting, LastGood, SighupNotLost
<1>11. CASE ApplyConfig
  BY <1>11 DEF ApplyConfig, Reason, TypeOK, CooldownAgrees, Booting, LastGood, SighupNotLost
<1>12. CASE Exit
  <2>1. TypeOK'
    BY <1>12 DEF Exit, TypeOK
  <2> QED
    BY <1>12, <2>1 DEF Exit, CooldownAgrees, Booting, LastGood, SighupNotLost
<1>13. CASE HandleOther
  <2>1. TypeOK'
    BY <1>13, EventType DEF HandleOther, TypeOK
  <2> QED
    BY <1>13, <2>1 DEF HandleOther, CooldownAgrees, Booting, LastGood, SighupNotLost
<1> QED
  BY <1>1, <1>2, <1>3, <1>4, <1>5, <1>6, <1>7, <1>8, <1>9, <1>10, <1>11, <1>12, <1>13
  DEF Boot, Monitor

LEMMA SafeStep == SafeInv /\ [Next]_vars => SafeInv'
<1>1. SafeInv /\ UNCHANGED vars => SafeInv'
  BY DEF vars, SafeInv, TypeOK, CooldownAgrees, Booting, LastGood, SighupNotLost
<1> QED
  BY <1>1, EnvironmentStep, MonitorStep DEF Next

LEMMA Safety == Spec => []SafeInv
BY InitSafe, SafeStep, PTL DEF Spec

-----------------------------------------------------------------------------
(* Every variable of the reload monitor keeps its type.                    *)
THEOREM TypeCorrect == Spec => []TypeOK
<1>1. SafeInv => TypeOK
  BY DEF SafeInv
<1> QED
  BY <1>1, Safety, PTL

(* The configuration served was read from the file and validated, whatever *)
(* editors do to the file and whatever reloads fail.                       *)
THEOREM LastGoodHolds == Spec => []LastGood
<1>1. SafeInv => LastGood
  BY DEF SafeInv
<1> QED
  BY <1>1, Safety, PTL

(* A reload put off by the cooldown has a timer that will make it.         *)
THEOREM PendingHasTimerHolds == Spec => []PendingHasTimer
<1>1. SafeInv => PendingHasTimer
  BY DEF SafeInv, CooldownAgrees, PendingHasTimer
<1> QED
  BY <1>1, Safety, PTL

(* Every SIGHUP the monitor could receive leads to a later read of the     *)
(* file, although signals are dropped when the channel is full.            *)
THEOREM SighupNotLostHolds == Spec => []SighupNotLost
<1>1. SafeInv => SighupNotLost
  BY DEF SafeInv
<1> QED
  BY <1>1, Safety, PTL

(* Neither events nor signals make the monitor read the file twice within  *)
(* one cooldown.                                                           *)
THEOREM OneReadPerCooldownHolds == Spec => OneReadPerCooldown
<1>1. SafeInv /\ [Next]_vars => [mpc' = "read" /\ mpc # "read" => timer # "running"]_vars
  <2> SUFFICES ASSUME SafeInv, Next, mpc' = "read", mpc # "read" PROVE timer # "running"
    OBVIOUS
  <2>1. CASE Environment \/ TimerFires
    BY <2>1 DEF Environment, StartSave, EndSave, Replace, Delete, Retarget, OtherFile, Edit,
                Write, environment, Sighup, Shutdown, TimerFires
  <2>2. CASE Boot
    BY <2>2 DEF Boot, BootRead, BootApply, Watch, Subscribe
  <2>3. CASE Monitor
    <3>1. timer = "fired" \/ ~onCoolDown
      BY <2>3 DEF Monitor, HandleSighup, HandleChanged, HandleRemoved, HandleReplaced,
                  HandleOther, HandleCooldown, ReadConfig, ApplyConfig, Exit, Reload
    <3> QED
      BY <3>1 DEF SafeInv, CooldownAgrees
  <2> QED
    BY <2>1, <2>2, <2>3 DEF Next
<1> QED
  BY <1>1, Safety, PTL DEF Spec, OneReadPerCooldown

-----------------------------------------------------------------------------
(* An edit leaves an event of the file in the queue, or is missed.         *)
LEMMA EditTold ==
  ASSUME TypeOK, NEW content, NEW event \in {"changed", "gone"}, Edit(content, event)
  PROVE  Told' \/ missed'
<1>1. CASE Room /\ events' = Append(events, event)
  <2>1. Len(events') = Len(events) + 1 /\ events'[Len(events')] = event
    BY <1>1 DEF TypeOK
  <2>2. Len(events') \in 1 .. Len(events')
    BY <1>1, <2>1 DEF TypeOK
  <2> QED
    BY <2>1, <2>2 DEF Told
<1>2. CASE events # <<>> /\ events[Len(events)] = event /\ UNCHANGED events
  <2>1. Len(events) \in 1 .. Len(events)
    BY <1>2 DEF TypeOK
  <2> QED
    BY <1>2, <2>1 DEF Told
<1>3. CASE missed'
  BY <1>3
<1> QED
  BY <1>1, <1>2, <1>3 DEF Edit, Announce

(* What is in the queue stays there when something is announced ...        *)
LEMMA AnnounceTold ==
  ASSUME TypeOK, NEW event, Announce(event) \/ Lose, Told
  PROVE  Told'
<1>1. PICK i \in 1 .. Len(events) : events[i] # "other"
  BY DEF Told
<1>2. i \in 1 .. Len(events') /\ events'[i] = events[i]
  BY <1>1 DEF Announce, Lose, TypeOK
<1> QED
  BY <1>1, <1>2 DEF Told

(* ... and when an event of another file is taken off it.                  *)
LEMMA TailTold ==
  ASSUME TypeOK, events # <<>>, Head(events) = "other", events' = Tail(events), Told
  PROVE  Told'
<1>1. PICK i \in 1 .. Len(events) : events[i] # "other"
  BY DEF Told
<1>2. i - 1 \in 1 .. Len(events') /\ events'[i - 1] = events[i]
  BY <1>1 DEF TypeOK
<1> QED
  BY <1>1, <1>2 DEF Told

LEMMA TrackedStep ==
  ASSUME SafeInv, Tracked, [Next]_vars
  PROVE  Tracked'
<1> USE DEF environment, config, cooldown
<1>0. TypeOK
  BY DEF SafeInv
<1>1. CASE StartSave \/ EndSave \/ Replace \/ Delete
  <2>1. Told' \/ missed'
    BY <1>0, <1>1, EditTold DEF StartSave, EndSave, Replace, Delete
  <2>2. mpc' = mpc /\ pending' = pending /\ outcome' = outcome
    BY <1>1 DEF StartSave, EndSave, Replace, Delete, Edit, Write
  <2>3. Booting => missed'
    BY <1>1 DEF StartSave, EndSave, Replace, Delete, Edit, Announce, Room, Watching, Booting
  <2> QED
    BY <2>1, <2>2, <2>3 DEF Tracked, Booting
<1>2. CASE Retarget
  BY <1>2 DEF Retarget, Write, Tracked
<1>3. CASE OtherFile
  BY <1>0, <1>3, AnnounceTold DEF OtherFile, Tracked
<1>4. CASE Sighup \/ Shutdown \/ TimerFires
  BY <1>4 DEF Sighup, Shutdown, TimerFires, Tracked, Told
<1>5. CASE Boot
  BY <1>5 DEF Boot, BootRead, BootApply, Watch, Subscribe, Tracked, Told
<1>6. CASE HandleSighup \/ HandleChanged \/ HandleReplaced
  BY <1>0, <1>6 DEF HandleSighup, HandleChanged, HandleReplaced, Reload, Tracked, TypeOK, Told
<1>7. CASE HandleOther
  BY <1>0, <1>7, TailTold DEF HandleOther, Tracked
<1>8. CASE HandleRemoved \/ HandleCooldown \/ Exit
  BY <1>8 DEF HandleRemoved, HandleCooldown, Exit, Tracked, Told
<1>9. CASE ReadConfig
  BY <1>9 DEF ReadConfig, Tracked
<1>10. CASE ApplyConfig
  BY <1>10 DEF ApplyConfig, Reason, Tracked, Told
<1>11. CASE UNCHANGED vars
  BY <1>11 DEF vars, Tracked, Told
<1> QED
  BY <1>1, <1>2, <1>3, <1>4, <1>5, <1>6, <1>7, <1>8, <1>9, <1>10, <1>11
  DEF Next, Environment, Monitor

(* Unless the last change was missed, a monitor with nothing left to do    *)
(* runs what is in the file, or has counted why it does not.               *)
THEOREM NoSilentDivergenceHolds == Spec => []NoSilentDivergence
<1>1. Init => Tracked
  BY DEF Init, Tracked
<1>2. SafeInv /\ Tracked /\ [Next]_vars => Tracked'
  BY TrackedStep
<1>3. Tracked => NoSilentDivergence
  BY DEF Tracked, Told, NoSilentDivergence
<1> QED
  BY <1>1, <1>2, <1>3, Safety, PTL DEF Spec
=============================================================================
