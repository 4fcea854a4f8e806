------------------------- MODULE AssistantWatch_proofs ------------------------
(***************************************************************************)
(* Theorems of AssistantWatch.                                             *)
(***************************************************************************)
EXTENDS AssistantWatch, TLAPS

(* The file, and what calls are to write, show no check of the future.     *)
WatchTypes ==
  /\ WatchTypeOK
  /\ \A p \in Watchers : watching[p] # Resting =>
       \A w \in Watches : watching[p].new[w] # Unset => watching[p].new[w].checked <= watchTime

AsAsked(watch, ask) == ask # "" => watch # Unset /\ watch.enabled = (ask = "on")
LastOf(watch) == IF watch = Unset THEN Never ELSE watch.checked

(* Of every watch the file shows what was asked for and when it was        *)
(* checked, except where an older file was written back.                   *)
FileTrue ==
  Readable => \A w \in Watches :
    /\ <<w, "asked">> \notin overwritten => AsAsked(watches[w], asked[w])
    /\ <<w, "checked">> \notin overwritten => LastOf(watches[w]) = checks[w]

Asks(call, w) == call.ask # "check" /\ w \in call.of
Checks(call, w) == call.ask = "check" /\ w \in call.of

(* And so does the file that a call is to write, except where others have  *)
(* written in between, and in what the call is about.                      *)
CallTrue(call, ask, last, over) ==
  \A w \in Watches :
    /\ IF Asks(call, w) THEN AsAsked(call.new[w], call.ask)
       ELSE <<w, "asked">> \notin over \union call.overtaken => AsAsked(call.new[w], ask[w])
    /\ Checks(call, w) => LastOf(call.new[w]) = call.now
    /\ <<w, "checked">> \notin over \union call.overtaken =>
         IF Checks(call, w) THEN call.now - last[w] >= Cadence
         ELSE LastOf(call.new[w]) = last[w]

CallsTrue ==
  \A p \in Watchers : watching[p] # Resting => CallTrue(watching[p], asked, checks, overwritten)

WatchInv == WatchTypes /\ FileTrue /\ CallsTrue
-----------------------------------------------------------------------------
LEMMA NoTime == Cadence \in Nat /\ Cadence > 0 /\ Never \in Int /\ Never < 0 /\ Times \subseteq Int
  BY WatchAssumption DEF Never, Times

LEMMA NotResting == ASSUME NEW t \in 0 .. MaxWatchTime PROVE Resting \notin CallsAt(0 .. t)
<1>1. 0 .. t \subseteq 0 .. MaxWatchTime
  BY WatchAssumption
<1>2. CallsAt(0 .. t) \subseteq CallsAt(0 .. MaxWatchTime)
  BY <1>1 DEF CallsAt
<1>3. QED
  BY <1>2, WatchValues

(* What the three calls make of the watches they are about. *)
Change(ask, D, changed) ==
  /\ Readable /\ ask \in {"on", "off", "check"} /\ D \in SUBSET Watches
  /\ changed \in [D -> WatchRecords]
  /\ \A w \in D :
       /\ changed[w].checked <= watchTime
       /\ ask # "check" => /\ changed[w].enabled = (ask = "on")
                           /\ LastOf(changed[w]) = LastOf(watches[w])
       /\ ask = "check" => /\ watches[w] # Unset
                           /\ changed[w].enabled = watches[w].enabled
                           /\ changed[w].checked = watchTime
                           /\ watchTime - LastOf(watches[w]) >= Cadence

(* The call that a load makes, of the watches it is about. *)
Loaded(ask, changed) ==
  [ask |-> ask, of |-> DOMAIN changed, now |-> watchTime, opened |-> FALSE, overtaken |-> {},
   new |-> [w \in Watches |-> IF w \in DOMAIN changed THEN changed[w] ELSE watches[w]]]

LEMMA LoadedType ==
  ASSUME WatchTypes, NEW ask, NEW D, NEW changed, Change(ask, D, changed)
  PROVE  /\ Loaded(ask, changed) \in CallsAt(0 .. watchTime) /\ Loaded(ask, changed) # Resting
         /\ \A w \in Watches : Loaded(ask, changed).new[w] = IF w \in D THEN changed[w] ELSE watches[w]
         /\ \A w \in Watches : Loaded(ask, changed).new[w] # Unset =>
              Loaded(ask, changed).new[w].checked <= watchTime
         /\ Loaded(ask, changed).of = D /\ Loaded(ask, changed).overtaken = {}
         /\ Loaded(ask, changed).ask = ask /\ Loaded(ask, changed).now = watchTime
<1> DEFINE new == [w \in Watches |-> IF w \in DOMAIN changed THEN changed[w] ELSE watches[w]]
<1>1. watches \in WatchFiles /\ watchTime \in 0 .. MaxWatchTime
  BY DEF WatchTypes, WatchTypeOK, Readable, Change
<1>a. /\ ask \in {"on", "off", "check"} /\ D \in SUBSET Watches
      /\ changed \in [D -> WatchRecords] /\ \A w \in D : changed[w].checked <= watchTime
  BY DEF Change
<1>2. new \in WatchFiles
  BY <1>1, <1>a DEF WatchFiles
<1>3. Loaded(ask, changed) \in CallsAt(0 .. watchTime)
  BY <1>1, <1>2, <1>a DEF Loaded, CallsAt
<1>4. \A w \in Watches : new[w] = IF w \in D THEN changed[w] ELSE watches[w]
  BY <1>a
<1>5. \A w \in Watches : new[w] # Unset => new[w].checked <= watchTime
  BY <1>4, <1>a DEF WatchTypes, WatchTypeOK, Change
<1>6. Loaded(ask, changed).new = new
  BY DEF Loaded
<1> HIDE DEF new
<1>7. QED
  BY <1>1, <1>3, <1>4, <1>5, <1>6, <1>a, NotResting DEF Loaded

LEMMA Clock ==
  ASSUME WatchTypes
  PROVE  /\ watchTime \in 0 .. MaxWatchTime /\ watchTime \in Nat /\ watchTime \in Times
         /\ watching \in [Watchers -> CallsAt(0 .. watchTime) \union {Resting}]
         /\ Readable => watches \in WatchFiles
<1>1. /\ watchTime \in 0 .. MaxWatchTime
      /\ watching \in [Watchers -> CallsAt(0 .. watchTime) \union {Resting}]
      /\ Readable => watches \in WatchFiles
  BY DEF WatchTypes, WatchTypeOK, Readable
<1>2. watchTime \in Nat
  BY <1>1, WatchAssumption
<1>3. QED
  BY <1>1, <1>2 DEF Times

LEMMA Loads ==
  ASSUME WatchTypes, NEW p \in Watchers,
         CreatePriceWatch(p) \/ DisableWatch(p) \/ CheckDue(p)
  PROVE  \E ask, D, changed : Change(ask, D, changed) /\ LoadWatches(p, ask, changed)
<1>0. Readable /\ watches \in WatchFiles /\ watchTime \in Nat /\ watchTime \in Times
  <2>1. Readable
    BY DEF CreatePriceWatch, DisableWatch, CheckDue
  <2>2. QED
    BY <2>1, Clock
<1>a. \A w \in Watches : watches[w] # Unset => watches[w] \in WatchRecords /\ watches[w].checked <= watchTime
  BY <1>0 DEF WatchTypes, WatchTypeOK, WatchFiles
<1>1. CASE CreatePriceWatch(p)
  <2>1. PICK w \in Watches : LoadWatches(p, "on", [x \in {w} |-> Created(watches[x])])
    BY <1>1 DEF CreatePriceWatch
  <2> DEFINE changed == [x \in {w} |-> Created(watches[x])]
  <2>2. Never \in Times /\ Never <= watchTime
    BY <1>0, NoTime DEF Times
  <2>5. /\ Created(watches[w]) \in WatchRecords /\ Created(watches[w]).checked <= watchTime
        /\ LastOf(Created(watches[w])) = LastOf(watches[w])
    <3>1. CASE watches[w] = Unset
      <4>1. Created(watches[w]) = [enabled |-> TRUE, checked |-> Never]
        BY <3>1 DEF Created
      <4>2. Created(watches[w]) \in WatchRecords
        BY <2>2, <4>1 DEF WatchRecords
      <4>3. QED
        BY <2>2, <3>1, <4>1, <4>2, WatchValues DEF LastOf
    <3>2. CASE watches[w] # Unset
      <4>1. Created(watches[w]) = [enabled |-> TRUE, checked |-> watches[w].checked]
        BY <3>2 DEF Created
      <4>2. Created(watches[w]) \in WatchRecords
        BY <1>a, <3>2, <4>1 DEF WatchRecords
      <4>a. Created(watches[w]) # Unset
        BY <4>2, WatchValues
      <4>3. Created(watches[w]).checked = watches[w].checked /\ Created(watches[w]) # Unset
        BY <4>1, <4>a
      <4>4. LastOf(Created(watches[w])) = LastOf(watches[w])
        BY <3>2, <4>3 DEF LastOf
      <4>5. QED
        BY <1>a, <3>2, <4>2, <4>3, <4>4
    <3>3. QED
      BY <3>1, <3>2
  <2>6. Created(watches[w]).enabled = ("on" = "on")
    BY DEF Created
  <2>7. changed \in [{w} -> WatchRecords]
    BY <2>5
  <2>8. Change("on", {w}, changed)
    BY <1>0, <2>5, <2>6, <2>7 DEF Change
  <2>9. QED
    BY <2>1, <2>8
<1>2. CASE DisableWatch(p)
  <2>1. PICK w \in Watches : watches[w] # Unset
                             /\ LoadWatches(p, "off", [x \in {w} |-> Disabled(watches[x])])
    BY <1>2 DEF DisableWatch
  <2> DEFINE changed == [x \in {w} |-> Disabled(watches[x])]
  <2>2. /\ Disabled(watches[w]) \in WatchRecords /\ Disabled(watches[w]).checked <= watchTime
        /\ LastOf(Disabled(watches[w])) = LastOf(watches[w])
    BY <1>a, <2>1, WatchValues DEF Disabled, WatchRecords, LastOf
  <2>3. Disabled(watches[w]).enabled = ("off" = "on")
    BY <1>a, <2>1 DEF Disabled, WatchRecords
  <2>4. changed \in [{w} -> WatchRecords]
    BY <2>2
  <2>5. Change("off", {w}, changed)
    BY <1>0, <2>2, <2>3, <2>4 DEF Change
  <2>6. QED
    BY <2>1, <2>5
<1>3. CASE CheckDue(p)
  <2> DEFINE changed == [w \in Due |-> Checked(watches[w])]
  <2>1. LoadWatches(p, "check", changed) /\ Due \in SUBSET Watches
    BY <1>3 DEF CheckDue, Due
  <2>2. ASSUME NEW w \in Due
        PROVE  /\ Checked(watches[w]) \in WatchRecords /\ Checked(watches[w]).checked = watchTime
               /\ Checked(watches[w]).enabled = watches[w].enabled
               /\ watches[w] # Unset /\ watchTime - LastOf(watches[w]) >= Cadence
    BY <1>0, <1>a, <2>2 DEF Due, Checked, WatchRecords, LastOf
  <2>3. changed \in [Due -> WatchRecords]
    BY <2>2
  <2>4. Change("check", Due, changed)
    BY <1>0, <2>1, <2>2, <2>3 DEF Change
  <2>5. QED
    BY <2>1, <2>4
<1>4. QED
  BY <1>1, <1>2, <1>3
-----------------------------------------------------------------------------
LEMMA StepWatchTypes == WatchTypes /\ [WatchNext]_watchVars => WatchTypes'
<1> SUFFICES ASSUME WatchTypes, [WatchNext]_watchVars PROVE WatchTypes'
  OBVIOUS
<1>0. /\ watchTime \in 0 .. MaxWatchTime /\ watchTime \in Nat
      /\ watching \in [Watchers -> CallsAt(0 .. watchTime) \union {Resting}]
  BY Clock
<1>1. CASE WatchTick
  <2>1. watchTime' \in 0 .. MaxWatchTime /\ 0 .. watchTime \subseteq 0 .. watchTime'
        /\ watchTime' = watchTime + 1
    BY <1>0, <1>1, WatchAssumption DEF WatchTick
  <2>2. CallsAt(0 .. watchTime) \subseteq CallsAt(0 .. watchTime')
    BY <2>1 DEF CallsAt
  <2>3. watching' \in [Watchers -> CallsAt(0 .. watchTime') \union {Resting}]
    BY <1>0, <1>1, <2>2 DEF WatchTick
  <2>4. ASSUME NEW r, r \in WatchRecords, r.checked <= watchTime PROVE r.checked <= watchTime'
    <3>1. r.checked \in Int
      BY <2>4, NoTime DEF WatchRecords
    <3>2. QED
      BY <1>0, <2>1, <2>4, <3>1
  <2>5. ASSUME Readable', NEW w \in Watches, watches'[w] # Unset PROVE watches'[w].checked <= watchTime'
    BY <1>1, <2>4, <2>5 DEF WatchTick, WatchTypes, WatchTypeOK, Readable, WatchFiles
  <2>6. ASSUME NEW p \in Watchers, watching'[p] # Resting, NEW w \in Watches,
               watching'[p].new[w] # Unset
        PROVE  watching'[p].new[w].checked <= watchTime'
    <3>1. watching[p] \in CallsAt(0 .. watchTime) /\ watching'[p] = watching[p]
      BY <1>0, <1>1, <2>6 DEF WatchTick
    <3>2. watching[p].new \in WatchFiles
      BY <3>1 DEF CallsAt
    <3>3. QED
      BY <2>4, <2>6, <3>1, <3>2 DEF WatchTypes, WatchFiles
  <2>7. QED
    BY <1>1, <2>1, <2>3, <2>5, <2>6 DEF WatchTick, WatchTypes, WatchTypeOK
<1>2. ASSUME NEW p \in Watchers, CreatePriceWatch(p) \/ DisableWatch(p) \/ CheckDue(p)
      PROVE  WatchTypes'
  <2>1. PICK ask, D, changed : Change(ask, D, changed) /\ LoadWatches(p, ask, changed)
    BY <1>2, Loads
  <2>2. watching' = [watching EXCEPT ![p] = Loaded(ask, changed)]
    BY <2>1 DEF LoadWatches, Loaded
  <2>4. /\ Loaded(ask, changed) \in CallsAt(0 .. watchTime)
        /\ \A w \in Watches : Loaded(ask, changed).new[w] # Unset =>
             Loaded(ask, changed).new[w].checked <= watchTime
    BY <2>1, LoadedType
  <2>5. watching' \in [Watchers -> CallsAt(0 .. watchTime) \union {Resting}]
    BY <1>0, <2>2, <2>4
  <2>6. watchCalls' \in 0 .. MaxWatchCalls
    <3>1. watchCalls \in 0 .. MaxWatchCalls /\ watchCalls < MaxWatchCalls /\ watchCalls' = watchCalls + 1
      BY <2>1 DEF LoadWatches, WatchTypes, WatchTypeOK
    <3>2. QED
      BY <3>1, WatchAssumption
  <2>7. WatchTypeOK'
    BY <2>1, <2>5, <2>6 DEF LoadWatches, WatchTypes, WatchTypeOK, Readable, Change
  <2>8. QED
    BY <1>0, <2>1, <2>2, <2>4, <2>7 DEF LoadWatches, WatchTypes
<1>3. ASSUME NEW p \in Watchers, OpenWatches(p) PROVE WatchTypes'
  <2>1. /\ watching[p] \in CallsAt(0 .. watchTime)
        /\ watching' = [watching EXCEPT ![p] = [watching[p] EXCEPT !.opened = TRUE]]
    BY <1>0, <1>3 DEF OpenWatches
  <2>2. /\ [watching[p] EXCEPT !.opened = TRUE] \in CallsAt(0 .. watchTime)
        /\ [watching[p] EXCEPT !.opened = TRUE].new = watching[p].new
    BY <2>1 DEF CallsAt
  <2>3. WatchTypeOK'
    BY <1>0, <1>3, <2>1, <2>2 DEF OpenWatches, WatchTypes, WatchTypeOK, Readable
  <2>4. QED
    BY <1>0, <1>3, <2>1, <2>2, <2>3 DEF OpenWatches, WatchTypes
<1>4. ASSUME NEW p \in Watchers, WriteWatches(p) PROVE WatchTypes'
  <2>1. watching[p] # Resting /\ watching[p] \in CallsAt(0 .. watchTime)
    BY <1>0, <1>4 DEF WriteWatches
  <2> DEFINE call == watching[p]
             written == call.of \X {IF call.ask = "check" THEN "checked" ELSE "asked"}
             left(q) == [watching[q] EXCEPT !.overtaken = @ \union written]
  <2>2. /\ call.ask \in {"on", "off", "check"} /\ call.of \in SUBSET Watches
        /\ call.now \in 0 .. watchTime /\ call.new \in WatchFiles /\ call.overtaken \in SUBSET Written
    BY <2>1 DEF CallsAt
  <2>3. written \subseteq Written
    BY <2>2 DEF Written
  <2>4. /\ watching' = [q \in Watchers |-> IF q = p \/ watching[q] = Resting THEN Resting ELSE left(q)]
        /\ asked' = [w \in Watches |-> IF <<w, "asked">> \in written THEN call.ask ELSE asked[w]]
        /\ checks' = [w \in Watches |-> IF <<w, "checked">> \in written THEN call.now ELSE checks[w]]
        /\ overwritten' = (overwritten \union call.overtaken) \ written
        /\ watches' \in {call.new, NotJSON}
        /\ UNCHANGED <<watchTime, watchCalls>>
    BY <1>4 DEF WriteWatches
  <2> HIDE DEF written
  <2>5. ASSUME NEW q \in Watchers, watching[q] # Resting
        PROVE  left(q) \in CallsAt(0 .. watchTime) /\ left(q).new = watching[q].new
    <3>1. watching[q] \in CallsAt(0 .. watchTime)
      BY <1>0, <2>5
    <3>2. QED
      BY <2>3, <3>1 DEF CallsAt
  <2> HIDE DEF left
  <2>6. watching' \in [Watchers -> CallsAt(0 .. watchTime) \union {Resting}]
    BY <2>4, <2>5
  <2>7. asked' \in [Watches -> {"", "on", "off"}]
    <3>1. ASSUME NEW w \in Watches, <<w, "asked">> \in written PROVE call.ask # "check"
      BY <3>1 DEF written
    <3>2. QED
      BY <2>2, <2>4, <3>1 DEF WatchTypes, WatchTypeOK
  <2>8. checks' \in [Watches -> Times]
    <3>1. call.now \in Times
      BY <1>0, <2>2, WatchAssumption DEF Times
    <3>2. QED
      BY <2>4, <3>1 DEF WatchTypes, WatchTypeOK
  <2>9. overwritten' \subseteq Written
    BY <2>2, <2>4 DEF WatchTypes, WatchTypeOK
  <2>10. WatchTypeOK'
    BY <2>1, <2>2, <2>4, <2>6, <2>7, <2>8, <2>9 DEF WatchTypes, WatchTypeOK, Readable
  <2>11. QED
    BY <1>0, <2>4, <2>5, <2>10 DEF WatchTypes
<1>5. ASSUME NEW p \in Watchers, QuitWatching(p) PROVE WatchTypes'
  <2>1. watching' \in [Watchers -> CallsAt(0 .. watchTime) \union {Resting}]
    BY <1>0, <1>5 DEF QuitWatching
  <2>2. QED
    BY <1>0, <1>5, <2>1 DEF QuitWatching, WatchTypes, WatchTypeOK, Readable
<1>6. CASE UNCHANGED watchVars
  BY <1>6 DEF watchVars, WatchTypes, WatchTypeOK, Readable
<1>7. QED
  BY <1>1, <1>2, <1>3, <1>4, <1>5, <1>6 DEF WatchNext
-----------------------------------------------------------------------------
(* A load of a file that is true makes a call that is. *)
LEMMA LoadedTrue ==
  ASSUME WatchTypes, FileTrue, NEW ask, NEW D, NEW changed, Change(ask, D, changed)
  PROVE  CallTrue(Loaded(ask, changed), asked, checks, overwritten)
<1> DEFINE call == Loaded(ask, changed)
<1>1. /\ \A w \in Watches : call.new[w] = IF w \in D THEN changed[w] ELSE watches[w]
      /\ call.of = D /\ call.overtaken = {} /\ call.ask = ask /\ call.now = watchTime
  BY LoadedType
<1>2. /\ Readable /\ ask \in {"on", "off", "check"}
      /\ \A w \in D : changed[w] \in WatchRecords /\ changed[w] # Unset
  BY WatchValues DEF Change
<1> HIDE DEF call
<1>3. ASSUME NEW w \in Watches, Asks(call, w) PROVE AsAsked(call.new[w], call.ask)
  <2>1. w \in D /\ ask # "check" /\ call.new[w] = changed[w]
    BY <1>1, <1>3 DEF Asks
  <2>2. changed[w].enabled = (ask = "on")
    BY <2>1 DEF Change
  <2>3. QED
    BY <1>1, <1>2, <2>1, <2>2 DEF AsAsked
<1>4. ASSUME NEW w \in Watches, ~Asks(call, w), <<w, "asked">> \notin overwritten
      PROVE  AsAsked(call.new[w], asked[w])
  <2>1. AsAsked(watches[w], asked[w])
    BY <1>2, <1>4 DEF FileTrue
  <2>2. CASE w \notin D
    BY <1>1, <2>1, <2>2
  <2>3. CASE w \in D
    <3>1. ask = "check"
      BY <1>1, <1>4, <2>3 DEF Asks
    <3>2. changed[w].enabled = watches[w].enabled
      BY <2>3, <3>1 DEF Change
    <3>3. QED
      BY <1>1, <1>2, <2>1, <2>3, <3>2 DEF AsAsked
  <2>4. QED
    BY <2>2, <2>3
<1>5. ASSUME NEW w \in Watches, Checks(call, w) PROVE LastOf(call.new[w]) = call.now
  BY <1>1, <1>2, <1>5 DEF Checks, Change, LastOf
<1>6. ASSUME NEW w \in Watches, <<w, "checked">> \notin overwritten
      PROVE  IF Checks(call, w) THEN call.now - checks[w] >= Cadence
             ELSE LastOf(call.new[w]) = checks[w]
  <2>1. LastOf(watches[w]) = checks[w]
    BY <1>2, <1>6 DEF FileTrue
  <2>2. CASE Checks(call, w)
    BY <1>1, <2>1, <2>2 DEF Checks, Change
  <2>3. CASE ~Checks(call, w)
    BY <1>1, <2>1, <2>3 DEF Checks, Change
  <2>4. QED
    BY <2>2, <2>3
<1>7. QED
  BY <1>1, <1>3, <1>4, <1>5, <1>6 DEF CallTrue, call

(* A call writes the file that it has, and what others wrote meanwhile is  *)
(* remembered.                                                             *)
LEMMA WriteTrue ==
  ASSUME WatchTypes, FileTrue, CallsTrue, NEW p \in Watchers, WriteWatches(p)
  PROVE  FileTrue' /\ CallsTrue'
<1> DEFINE call == watching[p]
           written == call.of \X {IF call.ask = "check" THEN "checked" ELSE "asked"}
           left(q) == [watching[q] EXCEPT !.overtaken = @ \union written]
<1>1. call # Resting /\ call \in CallsAt(0 .. watchTime) /\ CallTrue(call, asked, checks, overwritten)
  BY Clock DEF WriteWatches, CallsTrue
<1>2. /\ watching' = [q \in Watchers |-> IF q = p \/ watching[q] = Resting THEN Resting ELSE left(q)]
      /\ asked' = [w \in Watches |-> IF <<w, "asked">> \in written THEN call.ask ELSE asked[w]]
      /\ checks' = [w \in Watches |-> IF <<w, "checked">> \in written THEN call.now ELSE checks[w]]
      /\ overwritten' = (overwritten \union call.overtaken) \ written
      /\ watches' \in {call.new, NotJSON}
  BY DEF WriteWatches
<1>3. \A w \in Watches : /\ <<w, "asked">> \in written <=> Asks(call, w)
                         /\ <<w, "checked">> \in written <=> Checks(call, w)
  BY <1>1 DEF Asks, Checks, CallsAt
<1>4. \A q \in Watchers : watching[q] # Resting =>
        /\ left(q).overtaken = watching[q].overtaken \union written
        /\ left(q).new = watching[q].new /\ left(q).ask = watching[q].ask
        /\ left(q).of = watching[q].of /\ left(q).now = watching[q].now
  BY Clock DEF CallsAt
<1> HIDE DEF call, written, left
<1>5. FileTrue'
  <2> SUFFICES ASSUME Readable', NEW w \in Watches
               PROVE  /\ <<w, "asked">> \notin overwritten' => AsAsked(watches'[w], asked'[w])
                      /\ <<w, "checked">> \notin overwritten' => LastOf(watches'[w]) = checks'[w]
    BY DEF FileTrue, Readable
  <2>1. watches' = call.new
    BY <1>2 DEF Readable
  <2>2. ASSUME <<w, "asked">> \notin overwritten' PROVE AsAsked(watches'[w], asked'[w])
    <3>1. CASE <<w, "asked">> \in written
      BY <1>1, <1>2, <1>3, <2>1, <3>1 DEF CallTrue
    <3>2. CASE <<w, "asked">> \notin written
      BY <1>1, <1>2, <1>3, <2>1, <2>2, <3>2 DEF CallTrue
    <3>3. QED
      BY <3>1, <3>2
  <2>3. ASSUME <<w, "checked">> \notin overwritten' PROVE LastOf(watches'[w]) = checks'[w]
    <3>1. CASE <<w, "checked">> \in written
      BY <1>1, <1>2, <1>3, <2>1, <3>1 DEF CallTrue
    <3>2. CASE <<w, "checked">> \notin written
      BY <1>1, <1>2, <1>3, <2>1, <2>3, <3>2 DEF CallTrue
    <3>3. QED
      BY <3>1, <3>2
  <2>4. QED
    BY <2>2, <2>3
<1>6. ASSUME NEW q \in Watchers, watching'[q] # Resting PROVE CallTrue(watching'[q], asked', checks', overwritten')
  <2>1. watching[q] # Resting /\ watching'[q] = left(q) /\ CallTrue(watching[q], asked, checks, overwritten)
    BY <1>2, <1>6 DEF CallsTrue
  <2>2. ASSUME NEW w \in Watches
        PROVE  /\ Asks(left(q), w) <=> Asks(watching[q], w)
               /\ Checks(left(q), w) <=> Checks(watching[q], w)
               /\ <<w, "asked">> \notin overwritten' \union left(q).overtaken =>
                    /\ <<w, "asked">> \notin overwritten \union watching[q].overtaken
                    /\ asked'[w] = asked[w]
               /\ <<w, "checked">> \notin overwritten' \union left(q).overtaken =>
                    /\ <<w, "checked">> \notin overwritten \union watching[q].overtaken
                    /\ checks'[w] = checks[w]
    BY <1>2, <1>4, <2>1 DEF Asks, Checks
  <2>3. /\ left(q).new = watching[q].new /\ left(q).ask = watching[q].ask
        /\ left(q).of = watching[q].of /\ left(q).now = watching[q].now
    BY <1>4, <2>1
  <2>4. QED
    BY <2>1, <2>2, <2>3 DEF CallTrue
<1>7. QED
  BY <1>5, <1>6 DEF CallsTrue

LEMMA StepTrue ==
  WatchTypes /\ FileTrue /\ CallsTrue /\ [WatchNext]_watchVars => FileTrue' /\ CallsTrue'
<1> SUFFICES ASSUME WatchTypes, FileTrue, CallsTrue, [WatchNext]_watchVars
             PROVE  FileTrue' /\ CallsTrue'
  OBVIOUS
<1>0. watching \in [Watchers -> CallsAt(0 .. watchTime) \union {Resting}]
  BY Clock
<1>2. CASE WatchTick \/ UNCHANGED watchVars
  <2>1. UNCHANGED <<watches, watching, asked, checks, overwritten>>
    BY <1>2 DEF WatchTick, watchVars
  <2>2. QED
    BY <2>1 DEF FileTrue, CallsTrue, Readable
<1>3. ASSUME NEW p \in Watchers, CreatePriceWatch(p) \/ DisableWatch(p) \/ CheckDue(p)
      PROVE  FileTrue' /\ CallsTrue'
  <2>1. PICK ask, D, changed : Change(ask, D, changed) /\ LoadWatches(p, ask, changed)
    BY <1>3, Loads
  <2>2. /\ watching' = [watching EXCEPT ![p] = Loaded(ask, changed)]
        /\ UNCHANGED <<watches, asked, checks, overwritten>>
    BY <2>1 DEF LoadWatches, Loaded
  <2>3. CallTrue(Loaded(ask, changed), asked, checks, overwritten)
    BY <2>1, LoadedTrue
  <2>4. \A q \in Watchers : watching'[q] # Resting => CallTrue(watching'[q], asked, checks, overwritten)
    BY <1>0, <2>2, <2>3 DEF CallsTrue
  <2>5. CallsTrue'
    BY <2>2, <2>4 DEF CallsTrue
  <2>6. QED
    BY <2>2, <2>5 DEF FileTrue, Readable
<1>4. ASSUME NEW p \in Watchers, OpenWatches(p) PROVE FileTrue' /\ CallsTrue'
  <2>1. ~Readable' /\ UNCHANGED <<asked, checks, overwritten>>
    BY <1>4 DEF OpenWatches, Readable
  <2>2. /\ watching[p] \in CallsAt(0 .. watchTime) /\ watching[p] # Resting
        /\ watching' = [watching EXCEPT ![p] = [watching[p] EXCEPT !.opened = TRUE]]
    BY <1>0, <1>4 DEF OpenWatches
  <2> DEFINE c == [watching[p] EXCEPT !.opened = TRUE]
  <2>3. /\ c.new = watching[p].new /\ c.ask = watching[p].ask /\ c.of = watching[p].of
        /\ c.now = watching[p].now /\ c.overtaken = watching[p].overtaken
    BY <2>2 DEF CallsAt
  <2>4. watching'[p] = c /\ \A q \in Watchers : q # p => watching'[q] = watching[q]
    BY <1>0, <2>2
  <2> HIDE DEF c
  <2>5. CallTrue(c, asked, checks, overwritten)
    BY <2>2, <2>3, ZenonT(40) DEF CallsTrue, CallTrue, Asks, Checks
  <2>6. \A q \in Watchers : watching'[q] # Resting => CallTrue(watching'[q], asked, checks, overwritten)
    BY <2>4, <2>5 DEF CallsTrue
  <2>7. QED
    BY <2>1, <2>6 DEF FileTrue, CallsTrue
<1>5. ASSUME NEW p \in Watchers, WriteWatches(p) PROVE FileTrue' /\ CallsTrue'
  BY <1>5, WriteTrue
<1>6. ASSUME NEW p \in Watchers, QuitWatching(p) PROVE FileTrue' /\ CallsTrue'
  <2>1. UNCHANGED <<watches, asked, checks, overwritten>>
        /\ \A q \in Watchers : watching'[q] # Resting => watching'[q] = watching[q] /\ watching[q] # Resting
    BY <1>0, <1>6 DEF QuitWatching
  <2>2. QED
    BY <2>1 DEF FileTrue, Readable, CallsTrue
<1>7. QED
  BY <1>2, <1>3, <1>4, <1>5, <1>6 DEF WatchNext

LEMMA WatchInvariant == WatchSpec => []WatchInv
<1>1. WatchInit => WatchInv
  <2> SUFFICES ASSUME WatchInit PROVE WatchInv
    OBVIOUS
  <2>1. Never \in Times /\ 0 \in 0 .. MaxWatchTime /\ 0 \in 0 .. MaxWatchCalls
    BY WatchAssumption DEF Times
  <2>2. watches \in WatchFiles
    BY DEF WatchInit, WatchFiles
  <2>3. watching \in [Watchers -> CallsAt(0 .. watchTime) \union {Resting}]
    BY DEF WatchInit
  <2>4. WatchTypes
    BY <2>1, <2>2, <2>3 DEF WatchInit, WatchTypes, WatchTypeOK
  <2>5. FileTrue
    BY DEF WatchInit, FileTrue, AsAsked, LastOf
  <2>6. QED
    BY <2>4, <2>5 DEF WatchInit, WatchInv, CallsTrue
<1>2. WatchInv /\ [WatchNext]_watchVars => WatchInv'
  BY StepWatchTypes, StepTrue DEF WatchInv
<1>3. QED
  BY <1>1, <1>2, PTL DEF WatchSpec

(* The file of the watches, and what every call is to write into it, is    *)
(* well-formed and shows no check of the future (Load, Save, CheckDue).    *)
THEOREM WatchTypeCorrect == WatchSpec => []WatchTypeOK
<1>1. WatchInv => WatchTypeOK
  BY DEF WatchInv, WatchTypes
<1>2. QED
  BY <1>1, WatchInvariant, PTL

(* A watch is on or off as the chat was told last, for any number of       *)
(* processes and watches, unless a call that had read the file before      *)
(* wrote it after (CreatePriceWatch, DisableWatch, CheckDue).              *)
THEOREM WatchesAsAsked == WatchSpec => []WatchedAsAsked
<1>1. WatchInv => WatchedAsAsked
  BY DEF WatchInv, FileTrue, AsAsked, WatchedAsAsked
<1>2. QED
  BY <1>1, WatchInvariant, PTL

(* Two checks of a watch that were saved are a cadence apart, unless its   *)
(* record was overwritten (isDue).                                         *)
THEOREM WatchChecksApart == WatchSpec => ChecksApart
<1> DEFINE Apart == \A w \in Watches : checks'[w] # checks[w] =>
       \/ checks'[w] - checks[w] >= Cadence
       \/ <<w, "checked">> \in overwritten
       \/ \E p \in Watchers : watching[p] # Resting /\ <<w, "checked">> \in watching[p].overtaken
<1>1. WatchInv /\ [WatchNext]_watchVars => [Apart]_watchVars
  <2> SUFFICES ASSUME WatchInv, WatchNext PROVE Apart
    OBVIOUS
  <2>1. ASSUME NEW p \in Watchers, WriteWatches(p) PROVE Apart
    <3> SUFFICES ASSUME NEW w \in Watches, checks'[w] # checks[w], <<w, "checked">> \notin overwritten,
                        <<w, "checked">> \notin watching[p].overtaken
                 PROVE  checks'[w] - checks[w] >= Cadence
      BY <2>1 DEF WriteWatches
    <3>1. Checks(watching[p], w) /\ checks'[w] = watching[p].now
      BY <2>1 DEF WriteWatches, Checks
    <3>2. CallTrue(watching[p], asked, checks, overwritten)
      BY <2>1 DEF WriteWatches, WatchInv, CallsTrue
    <3>3. QED
      BY <3>1, <3>2 DEF CallTrue
  <2>2. CASE WatchTick
    BY <2>2 DEF WatchTick
  <2>3. ASSUME NEW p \in Watchers, CreatePriceWatch(p) \/ DisableWatch(p) \/ CheckDue(p) PROVE Apart
    BY <2>3 DEF CreatePriceWatch, DisableWatch, CheckDue, LoadWatches
  <2>4. ASSUME NEW p \in Watchers, OpenWatches(p) \/ QuitWatching(p) PROVE Apart
    BY <2>4 DEF OpenWatches, QuitWatching
  <2>5. QED
    BY <2>1, <2>2, <2>3, <2>4 DEF WatchNext
<1>2. QED
  BY <1>1, WatchInvariant, PTL DEF WatchSpec, ChecksApart
=============================================================================
