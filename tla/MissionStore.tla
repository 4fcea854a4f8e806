----------------------------- MODULE MissionStore -----------------------------
(***************************************************************************)
(* The mission store (internal/mission) behind the mission tools of the    *)
(* MCP server and the publications that record an artifact: every change   *)
(* of a mission reads its file, changes what it read and replaces the      *)
(* file, with no lock. Several MCP servers, one for each client, share the *)
(* files.                                                                  *)
(*                                                                         *)
(* One mission, which is there from the start: nothing creates one. The    *)
(* file is replaced by a rename of a complete new one, so that a process   *)
(* that dies before leaves nothing that anyone reads. Titles, notes and    *)
(* references are the number of the call that gave them. Calls that are    *)
(* refused for their arguments change nothing and are left out.            *)
(***************************************************************************)
EXTENDS Integers, Sequences

CONSTANTS
  Servers,     (* processes that call the store                            *)
  IdLimit,     (* ids are read back by their first digits: 10^3            *)
  Statuses,    (* of "active", "blocked", "done", "archived": those set    *)
  MaxCalls,    (* bound on the calls                                       *)
  NoCall

ASSUME MissionAssumption ==
  /\ IdLimit \in Nat \ {0} /\ MaxCalls \in Nat
  /\ Statuses \subseteq {"active", "blocked", "done", "archived"}

VARIABLES
  mission,     \* the file: [status, tasks, artifacts]
  calling,     \* [Servers -> the call under way and what it read, or NoCall]
  calls,       \* calls so far
  (* history *)
  answered,    \* calls that reported success, with the item they are about
  overrun      \* calls whose save a call that had read before it replaced

missionVars == <<mission, calling, calls, answered, overrun>>

Items == [id : Nat \ {0}, call : 1 .. MaxCalls, done : BOOLEAN]
Lists == {"tasks", "artifacts"}

Ids(list) == {list[i].id : i \in DOMAIN list}

(* Up to the limit of the ids no two items of a list have the same one,    *)
(* and no call adds two items, however calls overlap.                      *)
MissionTypeOK ==
  /\ mission.status \in Statuses \union {"active"}
  /\ \A l \in Lists :
       /\ mission[l] \in Seq(Items)
       /\ \A i, j \in DOMAIN mission[l] : mission[l][i].call = mission[l][j].call => i = j
       /\ \A i, j \in DOMAIN mission[l] :
            mission[l][i].id = mission[l][j].id /\ i # j => mission[l][i].id >= IdLimit
  /\ calls \in 0 .. MaxCalls
  /\ answered \subseteq [call : 1 .. MaxCalls, list : Lists, id : Nat \ {0}, about : 1 .. MaxCalls]
  /\ overrun \subseteq 1 .. MaxCalls

MissionInit ==
  /\ mission = [status |-> "active", tasks |-> <<>>, artifacts |-> <<>>]
  /\ calling = [s \in Servers |-> NoCall]
  /\ calls = 0
  /\ answered = {} /\ overrun = {}
-----------------------------------------------------------------------------
(* Mutant of ReadBack: two digits.                                         *)
ShortReadBack(n) == IF 10 * n < IdLimit THEN n ELSE n \div 10

(* The number of an id is read back from three digits.                     *)
ReadBack(n) == IF n < IdLimit THEN n ELSE n \div 10

Highest(numbers) == CHOOSE n \in numbers : \A m \in numbers : m <= n

(* Mutant of NextItemID: done tasks give their ids back.                   *)
OpenItemID(list) ==
  1 + Highest({0} \union {ReadBack(list[i].id) : i \in {j \in DOMAIN list : ~list[j].done}})

NextItemID(list) == 1 + Highest({0} \union {ReadBack(n) : n \in Ids(list)})

(* AddTask and AddArtifact. A task that is added as done is one that is    *)
(* completed at once.                                                      *)
Added(m, l, call) == [m EXCEPT ![l] = Append(@, [id |-> NextItemID(@), call |-> call, done |-> FALSE])]

(* CompleteTask: the first task with that id.                              *)
Completed(m, id) ==
  LET first == CHOOSE i \in DOMAIN m.tasks :
                 m.tasks[i].id = id /\ \A j \in 1 .. (i - 1) : m.tasks[j].id # id
  IN  [m EXCEPT !.tasks[first].done = TRUE]

(* Get: a call has read the file and made a new mission of it. about: the  *)
(* call that added the item that the client means.                         *)
Load(s, changed, answer) ==
  /\ calling[s] = NoCall /\ calls < MaxCalls
  /\ calls' = calls + 1
  /\ calling' = [calling EXCEPT ![s] =
       [call |-> calls', changed |-> changed, answer |-> answer, overtaken |-> {}]]
  /\ UNCHANGED <<mission, overrun>>

Answer(call, l, id, about) == {[call |-> call, list |-> l, id |-> id, about |-> about]}

(* Mutant of LoadToAdd: the answer is given before the file is saved.      *)
HastyLoadToAdd(s) ==
  \E l \in Lists :
    LET answer == Answer(calls + 1, l, NextItemID(mission[l]), calls + 1)
    IN  Load(s, Added(mission, l, calls + 1), answer) /\ answered' = answered \union answer

LoadToAdd(s) ==
  /\ \E l \in Lists : Load(s, Added(mission, l, calls + 1),
                           Answer(calls + 1, l, NextItemID(mission[l]), calls + 1))
  /\ UNCHANGED answered

LoadToUpdate(s) ==
  /\ \E status \in Statuses : Load(s, [mission EXCEPT !.status = status], {})
  /\ UNCHANGED answered

(* Clients name a task by the id that was reported to them; one that is    *)
(* not in the file is not found.                                           *)
LoadToComplete(s) ==
  /\ \E a \in answered :
       /\ a.list = "tasks" /\ a.call = a.about
       /\ a.id \in Ids(mission.tasks)
       /\ Load(s, Completed(mission, a.id), Answer(calls + 1, "tasks", a.id, a.about))
  /\ UNCHANGED answered

(* The rename, and the answer. Calls under way do not notice.              *)
Save(s) ==
  /\ calling[s] # NoCall
  /\ mission' = calling[s].changed
  /\ answered' = answered \union calling[s].answer
  /\ overrun' = overrun \union calling[s].overtaken
  /\ calling' = [x \in Servers |->
       IF x = s \/ calling[x] = NoCall THEN NoCall
       ELSE [calling[x] EXCEPT !.overtaken = @ \union {calling[s].call}]]
  /\ UNCHANGED calls

(* A server dies, or cannot write the new file.                            *)
Drop(s) ==
  /\ calling[s] # NoCall
  /\ calling' = [calling EXCEPT ![s] = NoCall]
  /\ UNCHANGED <<mission, calls, answered, overrun>>

MissionNext ==
  \E s \in Servers : LoadToAdd(s) \/ LoadToUpdate(s) \/ LoadToComplete(s) \/ Save(s) \/ Drop(s)

MissionSpec == MissionInit /\ [][MissionNext]_missionVars
-----------------------------------------------------------------------------
(* Properties *)

(* What a call reported is so from then on, crashes included: the item it  *)
(* added is in the mission under its id, the task it completed is done.    *)
(* Only a call that had read the file before it and saved it after it      *)
(* (overrun) can undo it. Completions hold for ids up to the limit.        *)
AnswersHold ==
  \A a \in answered : a.call \notin overrun =>
    IF a.call = a.about
    THEN \E i \in DOMAIN mission[a.list] :
           mission[a.list][i].call = a.call /\ mission[a.list][i].id = a.id
    ELSE a.id < IdLimit =>
           \A i \in DOMAIN mission.tasks :
             mission.tasks[i].call = a.about => mission.tasks[i].done

(* A task is done only if a client had it completed: an id means to the    *)
(* store what it meant to the client, unless the task it was given to was  *)
(* lost to an overrun, or its number is beyond the limit.                  *)
DoneAsAsked ==
  \A i \in DOMAIN mission.tasks : LET task == mission.tasks[i] IN
    task.done =>
      \/ \E a \in answered : a.call # a.about /\ a.about = task.call
      \/ \E a \in answered : a.call \in overrun /\ a.id = task.id
      \/ task.id >= IdLimit
=============================================================================
