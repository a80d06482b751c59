------------------------------ MODULE DevicePM ------------------------------
(***************************************************************************)
(* The device core of power management (drivers/base/power/main.c): the    *)
(* list of devices, and the four walks over it that a suspend makes.       *)
(*                                                                         *)
(* A walk holds dpm_list_mtx except while it calls a driver.  Meanwhile    *)
(* work queues and kernel threads, which suspend does not freeze, register *)
(* and unregister devices; they keep the driver's side of the contract: a  *)
(* device has no parent that is asleep or about to be (device_pm_add warns *)
(* of the others), and is unregistered after its children.                 *)
(***************************************************************************)
EXTENDS SequencesExt

CONSTANTS
  Device,
  Movable,   \* devices that device_move gives to another parent (rfcomm ttys)
  NoDevice

ASSUME DeviceAssumption == Movable \subseteq Device /\ NoDevice \notin Device

VARIABLES
  dpm_list,   \* dpm_list
  list,       \* the local list of the walk
  status,     \* dev->power.status
  parent,     \* dev->parent
  pc,         \* where the suspend is
  dev,        \* the device whose driver is being called
  error,      \* the error that ended a walk
  transition_started,
  asleep,     \* the devices whose driver was told to suspend, and not yet to resume
  late        \* history: a device was registered under one that dpm_complete was done with

tree_vars == <<status, parent, asleep>>
walk_vars == <<pc, dev, error, transition_started>>
device_vars == <<dpm_list, list, tree_vars, walk_vars, late>>

Status == <<"INVALID", "ON", "PREPARING", "RESUMING", "SUSPENDING", "OFF", "OFF_IRQ">>

\* The order of enum dpm_state.
Rank(s) == CHOOSE i \in 1 .. Len(Status) : Status[i] = s

Calls == {"preparing", "suspending", "resuming", "completing"}
Walks == {"prepare", "suspend", "resume", "complete"}

Listed == ToSet(dpm_list) \cup ToSet(list)
Children(d) == {c \in Listed : parent[c] = d}

DeviceTypeOK ==
  /\ status \in [Device -> ToSet(Status)]
  /\ parent \in [Device -> Device \cup {NoDevice}]
  /\ pc \in Calls \cup Walks \cup {"idle", "suspended", "noirq", "woken"}
  /\ dev \in Device \cup {NoDevice} /\ (dev # NoDevice <=> pc \in Calls)
  /\ error \in BOOLEAN /\ transition_started \in BOOLEAN /\ late \in BOOLEAN
  /\ asleep \subseteq Device
  /\ dpm_list \in Seq(Device) /\ list \in Seq(Device)
  /\ IsInjective(dpm_list) /\ IsInjective(list) /\ ToSet(dpm_list) \cap ToSet(list) = {}
  /\ \A d \in Listed : parent[d] \in Listed \cup {NoDevice}

\* dpm_list_mtx is free.
Unlocked == pc \in Calls \cup {"idle", "suspended", "woken"}

-----------------------------------------------------------------------------
(* Registering, unregistering and moving devices.                          *)

device_pm_add(d, p) ==
  /\ Unlocked /\ d \notin Listed \cup {dev}
  /\ IF p = NoDevice THEN ~transition_started
     ELSE p \in Listed /\ Rank(status[p]) < Rank("SUSPENDING")
  /\ dpm_list' = Append(dpm_list, d)
  /\ status' = [status EXCEPT ![d] = "ON"]
  /\ parent' = [parent EXCEPT ![d] = p]
  /\ late' = (late \/ (pc = "completing" /\ p \in ToSet(list) \cup {dev}))
  /\ UNCHANGED <<list, asleep, walk_vars>>

device_pm_remove(d) ==
  /\ Unlocked /\ d \in Listed /\ Children(d) = {}
  /\ dpm_list' = RemoveFirst(dpm_list, d) /\ list' = RemoveFirst(list, d)
  /\ status' = [status EXCEPT ![d] = "INVALID"]
  /\ parent' = [parent EXCEPT ![d] = NoDevice]
  /\ asleep' = asleep \ {d}
  /\ UNCHANGED <<walk_vars, late>>

\* Mutant: the device stays where it is in the list.
MoveWithoutOrder(d, p) ==
  /\ pc = "idle" /\ d \in Movable \cap Listed /\ Children(d) = {} /\ p \in Listed \ {d}
  /\ parent' = [parent EXCEPT ![d] = p]
  /\ UNCHANGED <<dpm_list, list, status, asleep, walk_vars, late>>

\* device_move with DPM_ORDER_DEV_AFTER_PARENT, by a user process, which does not
\* run during a suspend.
device_pm_move_after(d, p) ==
  /\ pc = "idle" /\ d \in Movable \cap Listed /\ Children(d) = {} /\ p \in Listed \ {d}
  /\ LET others == RemoveFirst(dpm_list, d) IN
       \E i \in 1 .. Len(others) :
         others[i] = p /\ dpm_list' = InsertAt(others, i + 1, d)
  /\ parent' = [parent EXCEPT ![d] = p]
  /\ UNCHANGED <<list, status, asleep, walk_vars, late>>

\* device_move with DPM_ORDER_DEV_LAST and no parent, also by the work queue of
\* Bluetooth when a connection ends.
device_pm_move_last(d) ==
  /\ Unlocked /\ d \in Movable \cap Listed /\ Children(d) = {} /\ parent[d] # NoDevice
  /\ dpm_list' = Append(RemoveFirst(dpm_list, d), d) /\ list' = RemoveFirst(list, d)
  /\ parent' = [parent EXCEPT ![d] = NoDevice]
  /\ UNCHANGED <<status, asleep, walk_vars, late>>

-----------------------------------------------------------------------------
(* The walks.  Each takes devices from one end of dpm_list to the local    *)
(* list and puts this back in the end.                                     *)

\* The device goes to the local list, unless it was unregistered meanwhile.
MoveTo(d, new_list) ==
  /\ dpm_list' = RemoveFirst(dpm_list, d)
  /\ list' = IF d \in Listed THEN new_list ELSE list

MoveToTail(d) == MoveTo(d, Append(list, d))
MoveToHead(d) == MoveTo(d, <<d>> \o list)

SpliceFront == dpm_list' = list \o dpm_list /\ list' = <<>>
SpliceBack == dpm_list' = dpm_list \o list /\ list' = <<>>

SetStatus(d, s) ==
  status' = IF d \in Listed THEN [status EXCEPT ![d] = s] ELSE status

Calling(d, call) == dev' = d /\ pc' = call
Called(walk) == dev' = NoDevice /\ pc' = walk

dpm_suspend_start ==
  /\ pc = "idle" /\ pc' = "prepare" /\ error' = FALSE /\ transition_started' = TRUE
  /\ UNCHANGED <<dpm_list, list, tree_vars, dev, late>>

PrepareNext ==
  /\ pc = "prepare" /\ dpm_list # <<>> /\ ~error
  /\ Calling(Head(dpm_list), "preparing") /\ SetStatus(Head(dpm_list), "PREPARING")
  /\ UNCHANGED <<dpm_list, list, parent, asleep, error, transition_started, late>>

device_prepare ==
  /\ pc = "preparing" /\ Called("prepare")
  /\ \/ SetStatus(dev, "SUSPENDING") /\ MoveToTail(dev) /\ UNCHANGED error
     \/ \* -EAGAIN: try again
        SetStatus(dev, "ON") /\ UNCHANGED <<dpm_list, list, error>>
     \/ SetStatus(dev, "ON") /\ error' = TRUE /\ UNCHANGED <<dpm_list, list>>
  /\ UNCHANGED <<parent, asleep, transition_started, late>>

PrepareEnds ==
  /\ pc = "prepare" /\ (dpm_list = <<>> \/ error)
  /\ SpliceFront
  /\ pc' = IF error THEN "resume" ELSE "suspend"
  /\ UNCHANGED <<tree_vars, dev, error, transition_started, late>>

SuspendNext ==
  /\ pc = "suspend" /\ dpm_list # <<>> /\ ~error
  /\ Calling(Last(dpm_list), "suspending")
  /\ UNCHANGED <<dpm_list, list, tree_vars, error, transition_started, late>>

\* Mutant: the error of a driver is overlooked.
ErrorOverlooked ==
  /\ pc = "suspending" /\ Called("suspend")
  /\ SetStatus(dev, "OFF") /\ MoveToHead(dev)
  /\ asleep' \in {asleep, asleep \cup ({dev} \cap Listed)}
  /\ UNCHANGED <<parent, error, transition_started, late>>

device_suspend ==
  /\ pc = "suspending" /\ Called("suspend")
  /\ \/ /\ SetStatus(dev, "OFF") /\ MoveToHead(dev)
        /\ asleep' = asleep \cup ({dev} \cap Listed) /\ UNCHANGED error
     \/ error' = TRUE /\ UNCHANGED <<dpm_list, list, status, asleep>>
  /\ UNCHANGED <<parent, transition_started, late>>

\* Mutant: the devices that are asleep are put in front of the others.
SpliceWrongEnd ==
  /\ pc = "suspend" /\ (dpm_list = <<>> \/ error)
  /\ SpliceFront
  /\ pc' = IF error THEN "resume" ELSE "suspended"
  /\ UNCHANGED <<tree_vars, dev, error, transition_started, late>>

\* Mutant: after an error nothing is resumed.
SuspendGivesUp ==
  /\ pc = "suspend" /\ (dpm_list = <<>> \/ error)
  /\ SpliceBack
  /\ pc' = IF error THEN "idle" ELSE "suspended"
  /\ UNCHANGED <<tree_vars, dev, error, transition_started, late>>

SuspendEnds ==
  /\ pc = "suspend" /\ (dpm_list = <<>> \/ error)
  /\ SpliceBack
  /\ pc' = IF error THEN "resume" ELSE "suspended"
  /\ UNCHANGED <<tree_vars, dev, error, transition_started, late>>

\* The mutex is held all the time.  After an error dpm_resume_noirq undoes it.
dpm_suspend_noirq ==
  /\ pc = "suspended"
  /\ \/ /\ status' = [d \in Device |-> IF d \in Listed THEN "OFF_IRQ" ELSE status[d]]
        /\ pc' = "noirq" /\ UNCHANGED transition_started
     \/ pc' = "woken" /\ transition_started' = FALSE /\ UNCHANGED status
  /\ UNCHANGED <<dpm_list, list, parent, asleep, dev, error, late>>

dpm_resume_noirq ==
  /\ pc = "noirq" /\ pc' = "woken" /\ transition_started' = FALSE
  /\ status' = [d \in Device |-> IF Rank(status[d]) > Rank("OFF") THEN "OFF" ELSE status[d]]
  /\ UNCHANGED <<dpm_list, list, parent, asleep, dev, error, late>>

\* The platform was not ready to suspend, or the system has woken up.
dpm_resume_end ==
  /\ pc \in {"suspended", "woken"} /\ pc' = "resume"
  /\ UNCHANGED <<dpm_list, list, tree_vars, dev, error, transition_started, late>>

ResumeNext ==
  /\ pc = "resume" /\ dpm_list # <<>> /\ Rank(status[Head(dpm_list)]) >= Rank("OFF")
  /\ Calling(Head(dpm_list), "resuming") /\ SetStatus(Head(dpm_list), "RESUMING")
  /\ asleep' = asleep \ {Head(dpm_list)}
  /\ UNCHANGED <<dpm_list, list, parent, error, transition_started, late>>

\* A device that was not suspended.
ResumeSkips ==
  /\ pc = "resume" /\ dpm_list # <<>> /\ Rank(status[Head(dpm_list)]) < Rank("OFF")
  /\ status' = [status EXCEPT ![Head(dpm_list)] = IF @ = "SUSPENDING" THEN "RESUMING" ELSE @]
  /\ MoveToTail(Head(dpm_list))
  /\ UNCHANGED <<parent, asleep, walk_vars, late>>

\* An error of the driver is reported and otherwise ignored.
device_resume ==
  /\ pc = "resuming" /\ Called("resume")
  /\ MoveToTail(dev)
  /\ UNCHANGED <<tree_vars, error, transition_started, late>>

ResumeEnds ==
  /\ pc = "resume" /\ dpm_list = <<>>
  /\ SpliceFront /\ pc' = "complete" /\ transition_started' = FALSE
  /\ UNCHANGED <<tree_vars, dev, error, late>>

CompleteNext ==
  /\ pc = "complete" /\ dpm_list # <<>> /\ Rank(status[Last(dpm_list)]) > Rank("ON")
  /\ Calling(Last(dpm_list), "completing") /\ SetStatus(Last(dpm_list), "ON")
  /\ UNCHANGED <<dpm_list, list, parent, asleep, error, transition_started, late>>

CompleteSkips ==
  /\ pc = "complete" /\ dpm_list # <<>> /\ Rank(status[Last(dpm_list)]) <= Rank("ON")
  /\ MoveToHead(Last(dpm_list))
  /\ UNCHANGED <<tree_vars, walk_vars, late>>

device_complete ==
  /\ pc = "completing" /\ Called("complete")
  /\ MoveToHead(dev)
  /\ UNCHANGED <<tree_vars, error, transition_started, late>>

CompleteEnds ==
  /\ pc = "complete" /\ dpm_list = <<>>
  /\ SpliceFront /\ pc' = "idle"
  /\ UNCHANGED <<tree_vars, dev, error, transition_started, late>>

-----------------------------------------------------------------------------

DeviceInit ==
  /\ dpm_list = <<>> /\ list = <<>>
  /\ status = [d \in Device |-> "INVALID"] /\ parent = [d \in Device |-> NoDevice]
  /\ pc = "idle" /\ dev = NoDevice /\ error = FALSE /\ transition_started = FALSE
  /\ asleep = {} /\ late = FALSE

DriverStep ==
  \E d \in Device :
    \/ \E p \in Device \cup {NoDevice} : device_pm_add(d, p)
    \/ device_pm_remove(d) \/ device_pm_move_last(d)
    \/ \E p \in Device : device_pm_move_after(d, p)

DownStep ==
  \/ PrepareNext \/ device_prepare \/ PrepareEnds
  \/ SuspendNext \/ device_suspend \/ SuspendEnds \/ dpm_suspend_noirq

UpStep ==
  \/ dpm_resume_noirq \/ dpm_resume_end
  \/ ResumeNext \/ ResumeSkips \/ device_resume \/ ResumeEnds
  \/ CompleteNext \/ CompleteSkips \/ device_complete \/ CompleteEnds

DeviceNext == DriverStep \/ dpm_suspend_start \/ DownStep \/ UpStep

DeviceSpec == DeviceInit /\ [][DeviceNext]_device_vars

\* Drivers return (dpm_drv_timeout stops the system if one does not suspend), the
\* suspend goes on, and the system wakes up.
DeviceFairSpec == DeviceSpec /\ WF_device_vars(DownStep \/ UpStep)

-----------------------------------------------------------------------------
(* Properties.                                                             *)

\* Between suspends every device comes after its parent.  The comment on dpm_list says
\* so without reserve ("The entries in the dpm_list list are in a depth first order,
\* simply because children are guaranteed to be discovered after parents, and are
\* inserted at the back of the list on discovery."); the order is lost if a device is
\* registered under one that dpm_complete is done with while it is not done with all.
OrderKept ==
  pc = "idle" /\ ~late =>
    \A i, j \in 1 .. Len(dpm_list) : parent[dpm_list[i]] = dpm_list[j] => j < i

\* However devices come, go and move between the walks, and wherever a driver
\* fails, no device is put to sleep before its children, or woken up after them.
ChildrenAsleep ==
  ~late => \A d \in Listed : parent[d] \in asleep => d \in asleep

\* With interrupts of devices off, every device is asleep, and after dpm_resume_end
\* none is, and each may be registered under again.
NoneForgotten ==
  /\ pc = "noirq" => Listed \subseteq asleep
  /\ pc = "idle" => asleep = {} /\ \A d \in Listed : status[d] = "ON"

\* A device that sleeps wakes up, although the lists change while dpm_suspend and
\* dpm_resume walk over them until they are empty.
EventuallyAwake == \A d \in Device : d \in asleep ~> d \notin asleep
=============================================================================
