---------------------------- MODULE AssistantWatch ----------------------------
(***************************************************************************)
(* The watches of the assistant (internal/assistantwatch): one file with   *)
(* all of them, that the chat listener creates and disables watches in,    *)
(* and the scheduler's job and the command check those that are due. Every *)
(* call reads the file, changes what it read and writes the whole of it    *)
(* back in place; a check looks prices up on the web in between.           *)
(*                                                                         *)
(* All watches have one cadence. A query of DisableWatch may mean any      *)
(* watch that is on. What a check finds is not recorded in the file and    *)
(* left out.                                                               *)
(***************************************************************************)
EXTENDS Integers

CONSTANTS
  Watches,
  Watchers,       (* processes that call the package                       *)
  Cadence,
  MaxWatchTime,   (* bound on the time                                     *)
  MaxWatchCalls,  (* bound on the calls                                    *)
  Unset,          (* a watch that is not in the file                       *)
  Blank, NotJSON, (* a file that is empty, or does not parse               *)
  Resting         (* a process with no call                                *)

Never == -Cadence
Times == {Never} \union (0 .. MaxWatchTime)
WatchRecords == [enabled : BOOLEAN, checked : Times]
WatchFiles == [Watches -> WatchRecords \union {Unset}]
Written == Watches \X {"asked", "checked"}

(* A call under way: what it is about, when it read the file, the file     *)
(* that it is to write, and what others have written since.                *)
CallsAt(times) ==
  [ask : {"on", "off", "check"}, of : SUBSET Watches, now : times,
   new : WatchFiles, opened : BOOLEAN, overtaken : SUBSET Written]

ASSUME WatchAssumption ==
  Cadence \in Nat \ {0} /\ MaxWatchTime \in Nat /\ MaxWatchCalls \in Nat

(* What stands for no watch, no list and no call is none.                  *)
ASSUME WatchValues ==
  /\ Blank # NotJSON /\ {Blank, NotJSON} \intersect WatchFiles = {}
  /\ Unset \notin WatchRecords
  /\ Resting \notin CallsAt(0 .. MaxWatchTime)

VARIABLES
  watches,     \* the file: [Watches -> [enabled, checked] or Unset], Blank, NotJSON
  watching,    \* [Watchers -> the call under way, or Resting]
  watchTime, watchCalls,
  (* history *)
  asked,       \* [Watches -> what the last call that reported on it did]
  checks,      \* [Watches -> the time of the last check that was saved]
  overwritten  \* what calls wrote back as they had read it before another call's
               \* write: <<watch, "asked">>, on or off, and <<watch, "checked">>

watchVars == <<watches, watching, watchTime, watchCalls, asked, checks, overwritten>>

Readable == watches \notin {Blank, NotJSON}

(* No watch is checked in the future. *)
WatchTypeOK ==
  /\ watches \in WatchFiles \union {Blank, NotJSON}
  /\ Readable =>
       \A w \in Watches : watches[w] # Unset => watches[w].checked <= watchTime
  /\ watching \in [Watchers -> CallsAt(0 .. watchTime) \union {Resting}]
  /\ watchTime \in 0 .. MaxWatchTime /\ watchCalls \in 0 .. MaxWatchCalls
  /\ asked \in [Watches -> {"", "on", "off"}]
  /\ checks \in [Watches -> Times]
  /\ overwritten \subseteq Written

(* The file is missing, which reads as no watches. *)
WatchInit ==
  /\ watches = [w \in Watches |-> Unset]
  /\ watching = [p \in Watchers |-> Resting]
  /\ watchTime = 0 /\ watchCalls = 0
  /\ asked = [w \in Watches |-> ""]
  /\ checks = [w \in Watches |-> Never]
  /\ overwritten = {}
-----------------------------------------------------------------------------
WatchTick ==
  /\ watchTime < MaxWatchTime
  /\ watchTime' = watchTime + 1
  /\ UNCHANGED <<watches, watching, watchCalls, asked, checks, overwritten>>

(* Load, and what the call makes of the watches that it is about. A file   *)
(* that does not parse fails the call.                                     *)
LoadWatches(p, ask, changed) ==
  /\ watching[p] = Resting /\ watchCalls < MaxWatchCalls
  /\ watchCalls' = watchCalls + 1
  /\ watching' = [watching EXCEPT ![p] =
       [ask |-> ask, of |-> DOMAIN changed, now |-> watchTime, opened |-> FALSE, overtaken |-> {},
        new |-> [w \in Watches |-> IF w \in DOMAIN changed THEN changed[w] ELSE watches[w]]]]
  /\ UNCHANGED <<watches, watchTime, asked, checks, overwritten>>

(* Mutant of Created: a watch that is created again stays off.             *)
OldCreated(watch) ==
  IF watch = Unset THEN [enabled |-> TRUE, checked |-> Never] ELSE watch

(* Mutant of Created: a watch that is created again has not been checked.  *)
FreshCreated(watch) == [enabled |-> TRUE, checked |-> Never]

Created(watch) == [enabled |-> TRUE, checked |-> IF watch = Unset THEN Never ELSE watch.checked]
Disabled(watch) == [watch EXCEPT !.enabled = FALSE]

(* Mutant of Checked: the time that it is due again.                       *)
PostponedChecked(watch) == [watch EXCEPT !.checked = watchTime + Cadence]

Checked(watch) == [watch EXCEPT !.checked = watchTime]

CreatePriceWatch(p) ==
  Readable /\ \E w \in Watches :
    LoadWatches(p, "on", [x \in {w} |-> Created(watches[x])])

DisableWatch(p) ==
  Readable /\ \E w \in Watches :
    /\ watches[w] # Unset /\ watches[w].enabled
    /\ LoadWatches(p, "off", [x \in {w} |-> Disabled(watches[x])])

Due == {w \in Watches : /\ watches[w] # Unset /\ watches[w].enabled
                        /\ watchTime - watches[w].checked >= Cadence}

(* With none due a check saves nothing. *)
CheckDue(p) ==
  /\ Readable
  /\ Due # {}
  /\ LoadWatches(p, "check", [w \in Due |-> Checked(watches[w])])

(* Save: the file is emptied. *)
OpenWatches(p) ==
  /\ watching[p] # Resting /\ ~watching[p].opened
  /\ watches' = Blank
  /\ watching' = [watching EXCEPT ![p].opened = TRUE]
  /\ UNCHANGED <<watchTime, watchCalls, asked, checks, overwritten>>

(* And written. Over the longer text of another its end stays. The call    *)
(* has reported then.                                                      *)
WriteWatches(p) ==
  /\ watching[p] # Resting /\ watching[p].opened
  /\ watches' \in {watching[p].new} \union (IF watches = Blank THEN {} ELSE {NotJSON})
  /\ LET call == watching[p]
         written == call.of \X {IF call.ask = "check" THEN "checked" ELSE "asked"}
     IN  /\ watching' = [q \in Watchers |->
              IF q = p \/ watching[q] = Resting THEN Resting
              ELSE [watching[q] EXCEPT !.overtaken = @ \union written]]
         /\ asked' = [w \in Watches |-> IF <<w, "asked">> \in written THEN call.ask ELSE asked[w]]
         /\ checks' = [w \in Watches |-> IF <<w, "checked">> \in written THEN call.now ELSE checks[w]]
         /\ overwritten' = (overwritten \union call.overtaken) \ written
  /\ UNCHANGED <<watchTime, watchCalls>>

(* A process dies, or a check runs out of its time and saves nothing.      *)
QuitWatching(p) ==
  /\ watching[p] # Resting
  /\ watching' = [watching EXCEPT ![p] = Resting]
  /\ UNCHANGED <<watches, watchTime, watchCalls, asked, checks, overwritten>>

WatchNext ==
  \/ WatchTick
  \/ \E p \in Watchers :
       \/ CreatePriceWatch(p) \/ DisableWatch(p) \/ CheckDue(p)
       \/ OpenWatches(p) \/ WriteWatches(p) \/ QuitWatching(p)

WatchSpec == WatchInit /\ [][WatchNext]_watchVars
-----------------------------------------------------------------------------
(* Properties *)

(* A watch that the chat was told is on is in the file and on, one that is *)
(* off is off, whatever checks go on, unless a call that had read the file *)
(* before wrote it after (CreatePriceWatch, DisableWatch, CheckDue).       *)
WatchedAsAsked ==
  Readable =>
    \A w \in Watches : asked[w] # "" /\ <<w, "asked">> \notin overwritten =>
      watches[w] # Unset /\ watches[w].enabled = (asked[w] = "on")

(* No watch is checked again before its cadence has passed, disabled and   *)
(* created again or not, unless its record was overwritten (isDue).        *)
ChecksApart ==
  [][\A w \in Watches : checks'[w] # checks[w] =>
       \/ checks'[w] - checks[w] >= Cadence
       \/ <<w, "checked">> \in overwritten
       \/ \E p \in Watchers : watching[p] # Resting /\ <<w, "checked">> \in watching[p].overtaken]_watchVars
=============================================================================
