------------------------------ MODULE Reconciler ------------------------------
(***************************************************************************)
(* The comparison of what a node should be with what it is                 *)
(* (internal/reconciler): DiffNode for a node with one role, service and   *)
(* container and a limit on disk and memory, and what the words of a       *)
(* desired state mean, independently of the code.                          *)
(*                                                                         *)
(* Desired nodes: [role : BOOLEAN, service : "" or a desired word,         *)
(* container : [desired, image, health, restart], each "" if not given].   *)
(* Actual nodes: [online, role : BOOLEAN, service : an active state of     *)
(* systemd or "missing", container : [state, image, health, restart] as    *)
(* Docker has them, all "" for one that is not in the report, and health   *)
(* and restart "" where docker inspect failed; diskLow, memoryHigh :       *)
(* BOOLEAN, against limits given]. Case and blanks, which the code         *)
(* ignores, do not occur. Severities only sort the actions.                *)
(***************************************************************************)
EXTENDS Integers

NormalizeState(word) ==
  IF word \in {"active", "running", "up"} THEN "running"
  ELSE IF word \in {"inactive", "stopped", "down"} THEN "stopped"
  ELSE word

NormalizeContainerState(word) ==
  IF word \in {"running", "up", "active", "present"} THEN "running"
  ELSE IF word \in {"stopped", "exited", "dead", "inactive", "down"} THEN "stopped"
  ELSE IF word \in {"absent", "missing"} THEN "missing"
  ELSE word

(* An action of a plan: what drifted, the name policy knows it by, and     *)
(* whether it asks for approval whatever policy says.                      *)
Action(kind, does, approval) == [kind |-> kind, does |-> does, approval |-> approval]

(* Mutant of StateDrift: only what runs can be in the wrong state.         *)
LateStateDrift(d, c) ==
  /\ d.desired # "" /\ c.state # ""
  /\ NormalizeContainerState(d.desired) # NormalizeContainerState(c.state)
  /\ ~(d.desired = "present" /\ c.state # "")

StateDrift(d, c) ==
  LET actual == IF c.state = "" THEN "missing" ELSE NormalizeContainerState(c.state)
  IN  /\ d.desired # ""
      /\ NormalizeContainerState(d.desired) # actual
      /\ ~(d.desired = "present" /\ actual # "missing")

(* containerDriftAction: the first thing that is wrong decides.            *)
ContainerDrift(d, c) ==
  LET wrong(does) == {Action("container", does, TRUE)}
      gone == c.state = ""
  IN  IF StateDrift(d, c)
      THEN wrong(IF d.desired = "absent" \/ (gone /\ NormalizeContainerState(d.desired) = "running")
                 THEN "container_recreate" ELSE "container_restart")
      ELSE IF d.image # "" /\ d.image # c.image
      THEN wrong(IF c.image # "" THEN "container_pull_redeploy" ELSE "container_recreate")
      ELSE IF d.health \notin {"", "unknown"} /\ c.health # "" /\ d.health # c.health
      THEN wrong("container_restart")
      ELSE IF d.restart # "" /\ c.restart # "" /\ d.restart # c.restart
      THEN wrong("container_restart")
      ELSE {}

ServiceDrift(word, actual) ==
  IF word = "" \/ NormalizeState(word) = NormalizeState(actual) THEN {}
  ELSE {Action("service", "service_check", word \in {"running", "active"})}

(* DiffNode.                                                               *)
Diff(d, a) ==
  IF ~a.online THEN {Action("offline", "read_only_diagnosis", FALSE)}
  ELSE (IF d.role /\ ~a.role THEN {Action("role", "plan_only", FALSE)} ELSE {})
       \union ServiceDrift(d.service, a.service)
       \union ContainerDrift(d.container, a.container)
       \union (IF a.diskLow THEN {Action("disk", "disk_investigate", FALSE)} ELSE {})
       \union (IF a.memoryHigh THEN {Action("memory", "process_top", FALSE)} ELSE {})

Drifts == [kind : {"offline", "role", "service", "container", "disk", "memory"},
           does : {"read_only_diagnosis", "plan_only", "service_check", "container_restart",
                   "container_recreate", "container_pull_redeploy", "disk_investigate",
                   "process_top"},
           approval : BOOLEAN]
-----------------------------------------------------------------------------
(* What a desired state means (docs/RECONCILIATION_CONTROLLER.md and the   *)
(* messages of ValidateDesiredState). No document says when a container is *)
(* stopped; a dead one is, as it is to the code, and one that is created,  *)
(* paused, restarting or being removed is neither running nor stopped.     *)

ServiceFits(word, actual) ==
  CASE word = "" -> TRUE
    [] word \in {"running", "active"} -> actual = "active"
    [] word \in {"stopped", "inactive"} -> actual = "inactive"
    [] word = "present" -> actual # "missing"
    [] word = "absent" -> actual = "missing"

(* Docker knows nothing of "manual" and "approval_required": they say who  *)
(* may restart the container.                                              *)
ContainerFits(d, c) ==
  /\ CASE d.desired = "" -> TRUE
       [] d.desired = "running" -> c.state = "running"
       [] d.desired = "stopped" -> c.state \in {"exited", "dead"}
       [] d.desired = "present" -> c.state # ""
       [] d.desired = "absent" -> c.state = ""
  /\ d.image # "" => c.image = d.image
  /\ d.health \notin {"", "unknown"} /\ c.state # "" => c.health = d.health
  /\ d.restart \notin {"", "manual", "approval_required"} /\ c.state # "" => c.restart = d.restart

Fits(d, a) ==
  /\ a.online
  /\ d.role => a.role
  /\ ServiceFits(d.service, a.service)
  /\ ContainerFits(d.container, a.container)
  /\ ~a.diskLow /\ ~a.memoryHigh
(* Desired states for which the comparison keeps to that meaning: in words *)
(* it knows, and a container of which anything else is given has a state   *)
(* or an image. Images, health and restart policies are any words.         *)
WellWorded(d) ==
  /\ d.service \in {"", "running", "active", "stopped", "inactive"}
  /\ d.container.desired \in {"", "running", "stopped", "present", "absent"}
  /\ d.container.restart \notin {"manual", "approval_required"}
  /\ (d.container.desired = "" /\ d.container.image = "") \/ d.container.desired = "absent"
       => d.container.image = "" /\ d.container.health = "" /\ d.container.restart = ""

(* What a node reports of itself: states of systemd and of Docker, and of  *)
(* a container that is there its image.                                    *)
DockerStates == {"created", "running", "paused", "restarting", "removing", "exited", "dead"}

Observed(a) ==
  /\ a.online \in BOOLEAN /\ a.role \in BOOLEAN /\ a.diskLow \in BOOLEAN /\ a.memoryHigh \in BOOLEAN
  /\ a.service \notin {"running", "up", "stopped", "down"}
  /\ LET c == a.container
     IN  \/ c.state = "" /\ c.image = "" /\ c.health = "" /\ c.restart = ""
         \/ c.state \in DockerStates /\ c.image # ""

(* The health or the restart policy of a container that is there, which is *)
(* asked for, could not be read: the code takes it for what is desired.    *)
Unread(d, a) ==
  /\ a.container.state # ""
  /\ \/ d.container.health \notin {"", "unknown"} /\ a.container.health = ""
     \/ d.container.restart # "" /\ a.container.restart = ""
=============================================================================
