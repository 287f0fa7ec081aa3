--------------------------- MODULE FsnotifyProofs ---------------------------
(***************************************************************************)
(* For any paths, options and number of changes: the goroutines of the     *)
(* fsnotify hook and eventMap agree, and no change is dropped but between  *)
(* the start of the script and the removal of its entry.                   *)
(***************************************************************************)
EXTENDS Fsnotify, TLAPS

\* What the counters are, and that nothing happens before the watch begins.
\* Names without a script have no goroutine, so an entry of theirs is never
\* removed.
HookInv ==
    /\ timers \in [Names -> Nat] /\ running \in [Names -> Nat] /\ leaving \in [Names -> Nat]
    /\ eventMap \subseteq Names
    /\ events \in Seq(Names)
    /\ phase = "parse" => /\ eventMap = {}
                          /\ \A n \in Names : timers[n] = 0 /\ running[n] = 0 /\ leaving[n] = 0
    /\ \A n \in Names : ScriptOf(n) = NoPath => timers[n] + running[n] + leaving[n] = 0
    /\ OneGoroutinePerEntry

\* The names of the events of a watched path are names.
LEMMA EventNamesType == ASSUME NEW p \in Names PROVE EventNames(p) \subseteq Names
BY NamesAssumption DEF EventNames

LEMMA HookInit == Init => HookInv
<1> SUFFICES ASSUME Init PROVE HookInv OBVIOUS
<1>1. \A n \in Names : timers[n] = 0 /\ running[n] = 0 /\ leaving[n] = 0
  BY DEF Init
<1>2. timers \in [Names -> Nat] /\ running \in [Names -> Nat] /\ leaving \in [Names -> Nat]
  BY DEF Init
<1>3. events \in Seq(Names)
  BY DEF Init
<1> QED BY <1>1, <1>2, <1>3 DEF Init, HookInv, OneGoroutinePerEntry

\* A step that leaves pathMap alone does not change what script a name has.
LEMMA ScriptStable ==
    ASSUME pathMap' = pathMap
    PROVE  \A n \in Names : ScriptOf(n)' = ScriptOf(n)
BY DEF ScriptOf, Paths

LEMMA HookNext == HookInv /\ [Next]_vars => HookInv'
<1> SUFFICES ASSUME HookInv, [Next]_vars PROVE HookInv' OBVIOUS
<1> USE DEF HookInv
<1>1. CASE ParseConfig
  <2>1. eventMap' = {} /\ UNCHANGED <<timers, running, leaving, events>>
    BY <1>1 DEF ParseConfig, hookVars
  <2>2. \A n \in Names : timers'[n] = 0 /\ running'[n] = 0 /\ leaving'[n] = 0
    BY <1>1, <2>1 DEF ParseConfig
  <2>3. phase' # "parse"
    BY <1>1 DEF ParseConfig
  <2> QED BY <2>1, <2>2, <2>3 DEF OneGoroutinePerEntry
<1>2. CASE \/ ParseFails \/ WatchError \/ Interrupt \/ ConcurrentMapAccess
           \/ Ended \/ Quiet \/ UNCHANGED vars \/ \E p \in Names : AddWatch(p)
  <2>1. UNCHANGED <<pathMap, timers, running, leaving, eventMap, events>>
    BY <1>2 DEF ParseFails, WatchError, Interrupt, ConcurrentMapAccess, Ended,
       Quiet, AddWatch, vars,
       cfgVars, hookVars
  <2>2. phase' = "parse" => phase = "parse"
    BY <1>2 DEF ParseFails, WatchError, Interrupt, ConcurrentMapAccess, Ended,
       Quiet, AddWatch, vars
  <2>3. \A n \in Names : ScriptOf(n)' = ScriptOf(n)
    BY <2>1, ScriptStable
  <2> QED BY <2>1, <2>2, <2>3 DEF OneGoroutinePerEntry
<1>3. ASSUME NEW p \in Names, Change(p) PROVE HookInv'
  <2>1. UNCHANGED <<phase, pathMap, timers, running, leaving, eventMap>>
    BY <1>3 DEF Change, cfgVars, hookVars
  <2>2. events' \in Seq(Names)
    BY <1>3, EventNamesType DEF Change
  <2>3. \A n \in Names : ScriptOf(n)' = ScriptOf(n)
    BY <2>1, ScriptStable
  <2> QED BY <2>1, <2>2, <2>3 DEF OneGoroutinePerEntry
<1>4. CASE TakeEvent
  <2>1. UNCHANGED <<phase, pathMap, running, leaving>> /\ phase = "watch"
    BY <1>4 DEF TakeEvent, cfgVars, hookVars
  <2>2. \A n \in Names : ScriptOf(n)' = ScriptOf(n)
    BY <2>1, ScriptStable
  <2>3. Head(events) \in Names /\ events' \in Seq(Names)
    BY <1>4 DEF TakeEvent
  <2>4. CASE Head(events) \in eventMap
    BY <1>4, <2>1, <2>2, <2>3, <2>4 DEF TakeEvent, hookVars, OneGoroutinePerEntry
  <2>5. CASE Head(events) \notin eventMap /\ ScriptOf(Head(events)) = NoPath
    BY <1>4, <2>1, <2>2, <2>3, <2>5 DEF TakeEvent, OneGoroutinePerEntry
  <2>6. CASE Head(events) \notin eventMap /\ ScriptOf(Head(events)) # NoPath
    <3>1. /\ eventMap' = eventMap \cup {Head(events)}
          /\ timers' = [timers EXCEPT ![Head(events)] = @ + 1]
      BY <1>4, <2>6 DEF TakeEvent
    <3>2. timers'[Head(events)] = timers[Head(events)] + 1
      BY <3>1, <2>3
    <3>3. \A n \in Names \ {Head(events)} : timers'[n] = timers[n]
      BY <3>1, <2>3
    <3>4. timers' \in [Names -> Nat]
      BY <3>1, <2>3
    <3>5. \A m \in Names : ScriptOf(m) = NoPath => timers'[m] + running'[m] + leaving'[m] = 0
      BY <3>3, <2>1, <2>3, <2>6
    <3>6. OneGoroutinePerEntry'
      <4> SUFFICES ASSUME NEW m \in Names, ScriptOf(m) # NoPath
                   PROVE  timers'[m] + running'[m] + leaving'[m]
                              = IF m \in eventMap' THEN 1 ELSE 0
        BY <2>2 DEF OneGoroutinePerEntry
      <4>1. timers[m] + running[m] + leaving[m] = IF m \in eventMap THEN 1 ELSE 0
        BY DEF OneGoroutinePerEntry
      <4>2. CASE m = Head(events)
        BY <3>1, <3>2, <4>1, <4>2, <2>1, <2>3, <2>6
      <4>3. CASE m # Head(events)
        BY <3>1, <3>3, <4>1, <4>3, <2>1
      <4> QED BY <4>2, <4>3
    <3> QED BY <3>1, <3>4, <3>5, <3>6, <2>1, <2>2, <2>3
  <2> QED BY <2>4, <2>5, <2>6
<1>5. ASSUME NEW n \in Names, StartScript(n) PROVE HookInv'
  <2>1. UNCHANGED <<phase, pathMap, eventMap, leaving, events>> /\ phase = "watch"
    BY <1>5 DEF StartScript, cfgVars
  <2>2. \A m \in Names : ScriptOf(m)' = ScriptOf(m)
    BY <2>1, ScriptStable
  <2>3. /\ timers' = [timers EXCEPT ![n] = @ - 1] /\ timers[n] > 0
        /\ running' = [running EXCEPT ![n] = @ + 1]
    BY <1>5 DEF StartScript
  <2>4. \A m \in Names : timers'[m] + running'[m] + leaving'[m]
                            = timers[m] + running[m] + leaving[m]
    BY <2>1, <2>3
  <2>5. timers' \in [Names -> Nat] /\ running' \in [Names -> Nat]
    BY <2>3
  <2> QED BY <2>1, <2>2, <2>4, <2>5 DEF OneGoroutinePerEntry
<1>6. ASSUME NEW n \in Names, EndScript(n) PROVE HookInv'
  <2>1. UNCHANGED <<phase, pathMap, eventMap, timers, events>> /\ phase = "watch"
    BY <1>6 DEF EndScript, cfgVars
  <2>2. \A m \in Names : ScriptOf(m)' = ScriptOf(m)
    BY <2>1, ScriptStable
  <2>3. /\ running' = [running EXCEPT ![n] = @ - 1] /\ running[n] > 0
        /\ leaving' = [leaving EXCEPT ![n] = @ + 1]
    BY <1>6 DEF EndScript
  <2>4. \A m \in Names : timers'[m] + running'[m] + leaving'[m]
                            = timers[m] + running[m] + leaving[m]
    BY <2>1, <2>3
  <2>5. running' \in [Names -> Nat] /\ leaving' \in [Names -> Nat]
    BY <2>3
  <2> QED BY <2>1, <2>2, <2>4, <2>5 DEF OneGoroutinePerEntry
<1>7. ASSUME NEW n \in Names, DeleteEntry(n) PROVE HookInv'
  <2>1. UNCHANGED <<phase, pathMap, timers, running, events>> /\ phase = "watch"
    BY <1>7 DEF DeleteEntry, cfgVars
  <2>2. \A m \in Names : ScriptOf(m)' = ScriptOf(m)
    BY <2>1, ScriptStable
  <2>3. /\ leaving' = [leaving EXCEPT ![n] = @ - 1] /\ leaving[n] > 0
        /\ eventMap' = eventMap \ {n}
    BY <1>7 DEF DeleteEntry
  <2>4. ScriptOf(n) # NoPath /\ timers[n] + running[n] + leaving[n] = 1
    BY <2>3 DEF OneGoroutinePerEntry
  <2>5. timers'[n] = 0 /\ running'[n] = 0 /\ leaving'[n] = 0
    BY <2>1, <2>3, <2>4
  <2>6. \A m \in Names \ {n} :
            /\ leaving'[m] = leaving[m] /\ running'[m] = running[m] /\ timers'[m] = timers[m]
            /\ (m \in eventMap' <=> m \in eventMap)
    BY <2>1, <2>3
  <2>7. leaving' \in [Names -> Nat]
    BY <2>3, <2>5
  <2>8. \A m \in Names : ScriptOf(m) = NoPath => timers'[m] + running'[m] + leaving'[m] = 0
    BY <2>4, <2>6
  <2>9. OneGoroutinePerEntry'
    <3> SUFFICES ASSUME NEW m \in Names, ScriptOf(m) # NoPath
                 PROVE  timers'[m] + running'[m] + leaving'[m]
                            = IF m \in eventMap' THEN 1 ELSE 0
      BY <2>2 DEF OneGoroutinePerEntry
    <3>1. CASE m = n
      BY <2>3, <2>5, <3>1
    <3>2. CASE m # n
      BY <2>6, <3>2 DEF OneGoroutinePerEntry
    <3> QED BY <3>1, <3>2
  <2> QED BY <2>1, <2>2, <2>3, <2>7, <2>8, <2>9
<1> QED BY <1>1, <1>2, <1>3, <1>4, <1>5, <1>6, <1>7 DEF Next

\* eventMap and the goroutines agree in every reachable state: never two
\* goroutines for one name, never an entry of a name with a script that no
\* goroutine would remove.
THEOREM OneGoroutineHolds == Spec => []OneGoroutinePerEntry
<1>1. HookInv => OneGoroutinePerEntry
  BY DEF HookInv
<1> QED BY HookInit, HookNext, <1>1, PTL DEF Spec

-----------------------------------------------------------------------------
(***************************************************************************)
(* Type correctness, with the bounds on the queue and on the goroutines.   *)
(***************************************************************************)
\* Every event comes of a change, and every entry of eventMap of an event.
FlowInv ==
    /\ setup \in Setups
    /\ phase \in {"parse", "add", "watch", "fatal", "interrupted"}
    /\ \A e, f \in pathMap : e.path = f.path => e = f
    /\ toAdd \subseteq Paths(pathMap) /\ watched \subseteq Paths(pathMap)
    /\ fresh \subseteq watched /\ late \subseteq watched
    /\ phase = "parse" => watched = {}
    /\ changes \in 0..MaxChanges
    /\ Len(events) <= changes
    /\ eventMap # {} => changes > 0

\* ParseNotifyConfig leaves one script per path: -d replaces a line of its key.
LEMMA ParsedMapUnique ==
    ASSUME NEW s \in Setups
    PROVE  \A e, f \in ParsedMap(s) : e.path = f.path => e = f
<1>1. \A l, m \in s.lines : Clean[l.path] = Clean[m.path] => l = m
  BY SetupsAssumption
<1>2. \A e \in FileMap(s) : \E l \in s.lines :
          e = [path |-> Clean[l.path], script |-> l.script] /\ e.path = Clean[l.path]
  BY DEF FileMap
<1>3. \A e, f \in FileMap(s) : e.path = f.path => e = f
  BY <1>1, <1>2
<1>4. \A e, f \in DirMap(s) : e = f /\ e.path = s.dir
  BY DEF DirMap
<1> QED BY <1>3, <1>4 DEF ParsedMap

LEMMA FlowNext == HookInv /\ FlowInv /\ [Next]_vars => FlowInv'
<1> SUFFICES ASSUME HookInv, FlowInv, [Next]_vars PROVE FlowInv' OBVIOUS
<1> USE ChangesAssumption DEF cfgVars, hookVars, histVars
<1>0. events \in Seq(Names) /\ changes \in 0..MaxChanges /\ Len(events) \in Nat
  BY DEF HookInv, FlowInv
<1>1. CASE ParseConfig
  <2>1. /\ pathMap' = ParsedMap(setup) /\ toAdd' = Paths(pathMap') /\ phase' = "add"
        /\ UNCHANGED <<setup, watched, events, eventMap, changes, fresh, late>>
        /\ watched = {}
    BY <1>1 DEF ParseConfig, FlowInv
  <2>2. \A e, f \in pathMap' : e.path = f.path => e = f
    BY <2>1, ParsedMapUnique DEF FlowInv
  <2> QED BY <2>1, <2>2 DEF FlowInv
<1>2. CASE \/ ParseFails \/ WatchError \/ Interrupt \/ ConcurrentMapAccess
           \/ Ended \/ Quiet \/ UNCHANGED vars
  <2>1. UNCHANGED <<cfgVars, events, hookVars, histVars>>
        /\ (phase' = phase \/ phase' \in {"fatal", "interrupted"})
    BY <1>2 DEF ParseFails, WatchError, Interrupt, ConcurrentMapAccess, Ended,
       Quiet, vars
  <2>2. Paths(pathMap)' = Paths(pathMap)
    BY <2>1
  <2> QED BY <2>1, <2>2 DEF FlowInv
<1>3. ASSUME NEW p \in Names, AddWatch(p) PROVE FlowInv'
  <2>1. /\ UNCHANGED <<setup, pathMap, events, hookVars, histVars>> /\ p \in toAdd
        /\ phase' \in {"watch", "add", "fatal"}
        /\ \/ toAdd' = toAdd \ {p} /\ watched' = watched \cup {p}
           \/ UNCHANGED <<toAdd, watched>>
    BY <1>3 DEF AddWatch
  <2>2. Paths(pathMap)' = Paths(pathMap)
    BY <2>1
  <2> QED BY <2>1, <2>2 DEF FlowInv
<1>4. ASSUME NEW p \in Names, Change(p) PROVE FlowInv'
  <2>1. /\ UNCHANGED <<phase, cfgVars, hookVars>> /\ p \in watched
        /\ changes < MaxChanges /\ changes' = changes + 1
        /\ fresh' \subseteq fresh \cup {p} /\ late' \subseteq late \cup {p}
    BY <1>4 DEF Change
  <2>2. Len(events') = Len(events) + 1
    BY <1>4, <1>0, EventNamesType DEF Change
  <2>3. Paths(pathMap)' = Paths(pathMap)
    BY <2>1
  <2>4. changes' \in 0..MaxChanges /\ Len(events') <= changes' /\ changes' > 0
    BY <2>1, <2>2, <1>0 DEF FlowInv
  <2> QED BY <2>1, <2>3, <2>4 DEF FlowInv
<1>5. CASE TakeEvent
  <2>1. /\ UNCHANGED <<phase, cfgVars, histVars>> /\ events # <<>> /\ events' = Tail(events)
    BY <1>5 DEF TakeEvent
  <2>2. Len(events') = Len(events) - 1 /\ Len(events) > 0
    BY <2>1, <1>0
  <2>3. Paths(pathMap)' = Paths(pathMap)
    BY <2>1
  <2>4. Len(events') <= changes /\ changes > 0
    BY <2>2, <1>0 DEF FlowInv
  <2> QED BY <2>1, <2>3, <2>4 DEF FlowInv
<1>6. ASSUME NEW n \in Names, StartScript(n) \/ EndScript(n) \/ DeleteEntry(n)
      PROVE  FlowInv'
  <2>1. /\ UNCHANGED <<phase, cfgVars, events, changes>> /\ eventMap' \subseteq eventMap
        /\ fresh' \subseteq fresh /\ late' \subseteq late
    BY <1>6 DEF StartScript, EndScript, DeleteEntry
  <2>2. Paths(pathMap)' = Paths(pathMap)
    BY <2>1
  <2> QED BY <2>1, <2>2 DEF FlowInv
<1> QED BY <1>1, <1>2, <1>3, <1>4, <1>5, <1>6 DEF Next

LEMMA FlowInit == Init => FlowInv
BY ChangesAssumption DEF Init, FlowInv

\* Type correctness: one script per path, only watched paths change, and the
\* queue and the goroutines are bounded by the number of changes.
THEOREM TypeCorrect == Spec => []TypeOK
<1>1. HookInv /\ FlowInv => TypeOK
  <2> SUFFICES ASSUME HookInv, FlowInv PROVE TypeOK OBVIOUS
  <2> USE ChangesAssumption
  <2>1. \A n \in Names : timers[n] \in Nat /\ running[n] \in Nat /\ leaving[n] \in Nat
    BY DEF HookInv
  <2>2. ASSUME NEW n \in Names, timers[n] + running[n] + leaving[n] > 0
        PROVE  n \in eventMap /\ timers[n] + running[n] + leaving[n] = 1
    <3>1. ScriptOf(n) = NoPath => timers[n] + running[n] + leaving[n] = 0
      BY Zenon DEF HookInv
    <3>2. ScriptOf(n) # NoPath =>
              timers[n] + running[n] + leaving[n] = IF n \in eventMap THEN 1 ELSE 0
      BY Zenon DEF HookInv, OneGoroutinePerEntry
    <3> HIDE DEF HookInv
    <3> QED BY <2>2, <3>1, <3>2
  <2>3. eventMap # {} => MaxChanges >= 1
    BY DEF FlowInv
  <2>4. ASSUME NEW n \in Names
        PROVE  /\ timers[n] \in 0..MaxChanges /\ running[n] \in 0..MaxChanges
               /\ leaving[n] \in 0..MaxChanges
    <3>1. CASE timers[n] + running[n] + leaving[n] > 0
      <4>1. MaxChanges >= 1 /\ timers[n] + running[n] + leaving[n] = 1
        BY <2>2, <2>3, <3>1
      <4> QED BY <4>1, <2>1
    <3>2. CASE ~(timers[n] + running[n] + leaving[n] > 0)
      BY <2>1, <3>2
    <3> QED BY <3>1, <3>2
  <2>5. /\ timers \in [Names -> 0..MaxChanges] /\ running \in [Names -> 0..MaxChanges]
        /\ leaving \in [Names -> 0..MaxChanges]
    BY <2>4 DEF HookInv
  <2>6. Len(events) <= MaxChanges
    BY DEF FlowInv, HookInv
  <2> QED BY <2>5, <2>6 DEF TypeOK, FlowInv, HookInv
<1> QED BY HookInit, HookNext, FlowInit, FlowNext, <1>1, PTL DEF Spec

-----------------------------------------------------------------------------
(***************************************************************************)
(* The safety half of FreshChangeRunsScript.                               *)
(***************************************************************************)
\* A watched file whose events bear the name under which it is watched.
OwnEvents(p) == EventNames(p) = {p}

Queued(p) == \E i \in DOMAIN events : events[i] = p

\* A change of a file with a script that came while no goroutine of the file was
\* past its ten seconds is not lost: none is, and the event is in the queue or a
\* goroutine is in its ten seconds, after which the script will start.
FreshChangeIsPending ==
    \A p \in Names : ScriptOf(p) # NoPath /\ OwnEvents(p) /\ p \in fresh =>
        running[p] + leaving[p] = 0 /\ (timers[p] = 1 \/ Queued(p))

LEMMA PendingNext == HookInv /\ FlowInv /\ FreshChangeIsPending /\ [Next]_vars
                        => FreshChangeIsPending'
<1> SUFFICES ASSUME HookInv, FlowInv, FreshChangeIsPending, [Next]_vars,
                    NEW p \in Names, (ScriptOf(p) # NoPath)', OwnEvents(p), p \in fresh'
             PROVE  running'[p] + leaving'[p] = 0 /\ (timers'[p] = 1 \/ Queued(p)')
  BY DEF FreshChangeIsPending, OwnEvents, EventNames
<1> USE DEF cfgVars, hookVars, histVars
<1>0. /\ timers \in [Names -> Nat] /\ running \in [Names -> Nat]
      /\ leaving \in [Names -> Nat] /\ events \in Seq(Names)
  BY DEF HookInv
<1>h. ASSUME p \in fresh, ScriptOf(p) # NoPath
      PROVE  running[p] + leaving[p] = 0 /\ (timers[p] = 1 \/ Queued(p))
  BY <1>h DEF FreshChangeIsPending
<1>1. CASE ParseConfig
  BY <1>1 DEF ParseConfig, FlowInv
<1>2. CASE \/ ParseFails \/ WatchError \/ Interrupt \/ ConcurrentMapAccess
           \/ Ended \/ Quiet \/ UNCHANGED vars \/ \E q \in Names : AddWatch(q)
  <2>1. UNCHANGED <<pathMap, timers, running, leaving, events, fresh>>
    BY <1>2 DEF ParseFails, WatchError, Interrupt, ConcurrentMapAccess, Ended,
       Quiet, AddWatch, vars
  <2>2. ScriptOf(p)' = ScriptOf(p)
    BY <2>1, ScriptStable
  <2> QED BY <1>h, <2>1, <2>2 DEF Queued
<1>3. ASSUME NEW q \in Names, Change(q)
      PROVE  running'[p] + leaving'[p] = 0 /\ (timers'[p] = 1 \/ Queued(p)')
  <2>1. UNCHANGED <<pathMap, timers, running, leaving>>
    BY <1>3 DEF Change
  <2>2. ScriptOf(p)' = ScriptOf(p)
    BY <2>1, ScriptStable
  <2>3. PICK n \in EventNames(q) : /\ events' = Append(events, n)
                                   /\ (fresh' # fresh => running[n] + leaving[n] = 0)
                                   /\ fresh' \subseteq fresh \cup {q}
    BY <1>3 DEF Change
  <2>4. n \in Names
    BY EventNamesType
  <2>5. /\ Len(events) \in Nat /\ DOMAIN events' = 1..(Len(events) + 1)
        /\ DOMAIN events = 1..Len(events) /\ events'[Len(events) + 1] = n
        /\ \A i \in DOMAIN events : events'[i] = events[i]
    <3>1. events' = Append(events, n) /\ events \in Seq(Names) /\ n \in Names
      BY <1>0, <2>3, <2>4
    <3> QED BY <3>1
  <2>6. CASE p \in fresh
    BY <1>h, <2>1, <2>2, <2>5, <2>6 DEF Queued
  <2>7. CASE p \notin fresh
    <3>1. p = q /\ running[n] + leaving[n] = 0
      BY <2>3, <2>7
    <3>2. n = p
      BY <3>1, <2>3 DEF OwnEvents
    <3>3. Len(events) + 1 \in DOMAIN events'
      BY <2>5
    <3> QED BY <2>1, <2>5, <3>1, <3>2, <3>3 DEF Queued
  <2> QED BY <2>6, <2>7
<1>4. CASE TakeEvent
  <2>1. UNCHANGED <<pathMap, running, leaving, fresh>> /\ events # <<>> /\ events' = Tail(events)
    BY <1>4 DEF TakeEvent
  <2>2. ScriptOf(p)' = ScriptOf(p)
    BY <2>1, ScriptStable
  <2>3. running[p] + leaving[p] = 0 /\ (timers[p] = 1 \/ Queued(p))
    BY <1>h, <2>1, <2>2
  <2>4. PICK n \in Names : n = Head(events)
    BY <1>0, <2>1
  <2>5. \/ n \in eventMap /\ timers' = timers
        \/ n \notin eventMap /\ timers' = IF ScriptOf(n) = NoPath THEN timers
                                          ELSE [timers EXCEPT ![n] = @ + 1]
    BY <1>4, <2>4 DEF TakeEvent
  <2>6. timers[p] = IF p \in eventMap THEN 1 ELSE 0
    BY <1>0, <2>2, <2>3 DEF HookInv, OneGoroutinePerEntry
  <2>7. CASE n = p
    BY <1>0, <2>1, <2>2, <2>3, <2>5, <2>6, <2>7
  <2>8. CASE n # p
    <3>1. timers'[p] = timers[p]
      BY <1>0, <2>5, <2>8
    <3>2. ASSUME Queued(p) PROVE Queued(p)'
      <4>1. PICK i \in DOMAIN events : events[i] = p
        BY <3>2 DEF Queued
      <4>2. events[1] = n /\ DOMAIN events = 1..Len(events) /\ Len(events) \in Nat
        BY <1>0, <2>1, <2>4
      <4>3. i \in 2..Len(events)
        BY <4>1, <4>2, <2>8
      <4>4. DOMAIN events' = 1..(Len(events) - 1)
            /\ \A j \in 1..(Len(events) - 1) : events'[j] = events[j + 1]
        BY <1>0, <2>1
      <4>5. i - 1 \in DOMAIN events' /\ events'[i - 1] = events[i]
        BY <4>2, <4>3, <4>4
      <4> QED BY <4>1, <4>5 DEF Queued
    <3> QED BY <2>1, <2>3, <3>1, <3>2
  <2> QED BY <2>7, <2>8
<1>5. ASSUME NEW n \in Names, StartScript(n)
      PROVE  running'[p] + leaving'[p] = 0 /\ (timers'[p] = 1 \/ Queued(p)')
  <2>1. UNCHANGED <<pathMap, leaving, events>>
        /\ timers' = [timers EXCEPT ![n] = @ - 1] /\ running' = [running EXCEPT ![n] = @ + 1]
        /\ fresh' = fresh \ {q \in watched : n = q}
    BY <1>5 DEF StartScript
  <2>2. ScriptOf(p)' = ScriptOf(p)
    BY <2>1, ScriptStable
  <2>3. p \in fresh /\ p # n
    BY <2>1 DEF FlowInv
  <2> QED BY <1>0, <1>h, <2>1, <2>2, <2>3 DEF Queued
<1>6. ASSUME NEW n \in Names, EndScript(n) \/ DeleteEntry(n)
      PROVE  running'[p] + leaving'[p] = 0 /\ (timers'[p] = 1 \/ Queued(p)')
  <2>1. /\ UNCHANGED <<pathMap, events, timers, fresh>>
        /\ \/ /\ running[n] > 0 /\ running' = [running EXCEPT ![n] = @ - 1]
              /\ leaving' = [leaving EXCEPT ![n] = @ + 1]
           \/ /\ leaving[n] > 0 /\ leaving' = [leaving EXCEPT ![n] = @ - 1]
              /\ running' = running
    BY <1>6 DEF EndScript, DeleteEntry
  <2>2. ScriptOf(p)' = ScriptOf(p)
    BY <2>1, ScriptStable
  <2>3. n # p
    BY <1>0, <1>h, <2>1, <2>2
  <2>4. running'[p] = running[p] /\ leaving'[p] = leaving[p]
    BY <1>0, <2>1, <2>3
  <2> QED BY <1>h, <2>1, <2>2, <2>4 DEF Queued
<1> QED BY <1>1, <1>2, <1>3, <1>4, <1>5, <1>6 DEF Next

\* No change of a watched file is dropped by the hook, unless it comes between the
\* start of the script and the removal of the entry: the script has still to start.
THEOREM FreshChangeIsPendingHolds == Spec => []FreshChangeIsPending
<1>1. Init => FreshChangeIsPending
  BY DEF Init, FreshChangeIsPending
<1> QED BY HookInit, HookNext, FlowInit, FlowNext, <1>1, PendingNext, PTL DEF Spec
=============================================================================
