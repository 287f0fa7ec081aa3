------------------------------ MODULE Fsnotify ------------------------------
(***************************************************************************)
(* `wstools fsnotify`: fsnotifyRun (src/command/fsnotify.go) with          *)
(* ParseNotifyConfig and FsnotifyRun (src/common/cli/fsnotify.go).         *)
(*                                                                         *)
(* The program watches paths and runs a script when one changes.  The main *)
(* goroutine takes the events of the watcher one by one; the hook notes    *)
(* the event's name in eventMap and, if the name has a script, spawns a    *)
(* goroutine that waits ten seconds, runs the script and removes the name. *)
(* An event whose name is in eventMap is dropped.                          *)
(*                                                                         *)
(* Paths are names; Clean is filepath.Clean and Entries gives the names    *)
(* under which the watcher reports the entries of a directory.             *)
(***************************************************************************)
EXTENDS Naturals, Sequences

CONSTANTS
    Names,       \* spellings of paths
    NoPath,      \* an empty option or an empty script
    Scripts,     \* scripts
    Clean,       \* the clean spelling of a name
    Entries,     \* the entries of a directory, by the clean name
    Setups,      \* command lines: [lines, dir, script]
    MaxChanges   \* bound on the changes of watched paths

ASSUME NamesAssumption ==
    /\ Clean \in [Names -> Names]
    /\ Entries \in [Names -> SUBSET Names]
    /\ NoPath \notin Names \cup Scripts
ASSUME SetupsAssumption == \A s \in Setups :
    /\ \A l \in s.lines : l.path \in Names /\ l.script \in Scripts \cup {NoPath}
    /\ \A l, m \in s.lines : Clean[l.path] = Clean[m.path] => l = m
    /\ s.dir \in Names \cup {NoPath} /\ s.script \in Scripts \cup {NoPath}
ASSUME ChangesAssumption == MaxChanges \in Nat

VARIABLES
    setup,     \* the options: the lines of -c, -d and -s
    phase,     \* "parse", "add", "watch", "fatal" or "interrupted"
    pathMap,   \* a set of pairs [path, script], one per path
    toAdd,     \* paths still to pass to watch.Add
    watched,   \* paths that the watcher watches
    events,    \* events not yet taken, by name
    eventMap,  \* names with an entry in eventMap
    timers,    \* goroutines in their ten seconds, by name
    running,   \* goroutines executing their script, by name
    leaving,   \* goroutines whose script has ended, before their delete, by name
    changes,   \* number of changes so far
    fresh,     \* history: paths changed since their last script start, by a change
               \* that came while no goroutine of theirs was past its ten seconds
    late       \* history: the same, by a change after the ten seconds, before
               \* the goroutine removed its entry

cfgVars  == <<setup, pathMap, toAdd, watched>>
hookVars == <<eventMap, timers, running, leaving>>
histVars == <<changes, fresh, late>>
vars == <<phase, events, cfgVars, hookVars, histVars>>

Paths(m) == {e.path : e \in m}

\* pathMap[name], empty for a name that is no key.
ScriptOf(name) ==
    IF name \in Paths(pathMap)
    THEN (CHOOSE e \in pathMap : e.path = name).script ELSE NoPath

TypeOK ==
    /\ setup \in Setups
    /\ phase \in {"parse", "add", "watch", "fatal", "interrupted"}
    /\ \A e, f \in pathMap : e.path = f.path => e = f
    /\ toAdd \subseteq Paths(pathMap) /\ watched \subseteq Paths(pathMap)
    /\ events \in Seq(Names) /\ Len(events) <= MaxChanges
    /\ eventMap \subseteq Names
    /\ timers \in [Names -> 0..MaxChanges] /\ running \in [Names -> 0..MaxChanges]
    /\ leaving \in [Names -> 0..MaxChanges]
    /\ changes \in 0..MaxChanges
    /\ fresh \subseteq watched /\ late \subseteq watched

Init ==
    /\ setup \in Setups
    /\ phase = "parse" /\ pathMap = {} /\ toAdd = {} /\ watched = {}
    /\ events = <<>> /\ eventMap = {}
    /\ timers = [n \in Names |-> 0] /\ running = [n \in Names |-> 0]
    /\ leaving = [n \in Names |-> 0]
    /\ changes = 0 /\ fresh = {} /\ late = {}

-----------------------------------------------------------------------------
(***************************************************************************)
(* ParseNotifyConfig: the lines of the file with clean names, then -d as   *)
(* it was spelled, which also replaces a line of the same key.             *)
(***************************************************************************)
FileMap(s) == {[path |-> Clean[l.path], script |-> l.script] : l \in s.lines}

DirMap(s) ==
    IF s.dir = NoPath THEN {} ELSE {[path |-> s.dir, script |-> s.script]}

\* Variant: -d does not replace a line for the same path.
ParsedMapBoth(s) == FileMap(s) \cup DirMap(s)

ParsedMap(s) == {e \in FileMap(s) : e.path # s.dir} \cup DirMap(s)

ParseConfig ==
    /\ phase = "parse"
    /\ ParsedMap(setup) # {}
    /\ pathMap' = ParsedMap(setup)
    /\ toAdd' = Paths(pathMap')
    /\ phase' = "add"
    /\ UNCHANGED <<setup, watched, events, hookVars, histVars>>

\* The file cannot be read or has a bad line, or nothing is to be watched.
ParseFails ==
    /\ phase = "parse"
    /\ phase' = "fatal"
    /\ UNCHANGED <<cfgVars, events, hookVars, histVars>>

\* watch.Add of the next path; an error ends the program.
AddWatch(p) ==
    /\ phase = "add" /\ p \in toAdd
    /\ \/ /\ toAdd' = toAdd \ {p} /\ watched' = watched \cup {p}
          /\ phase' = IF toAdd' = {} THEN "watch" ELSE "add"
       \/ phase' = "fatal" /\ UNCHANGED <<toAdd, watched>>
    /\ UNCHANGED <<setup, pathMap, events, hookVars, histVars>>

-----------------------------------------------------------------------------
(***************************************************************************)
(* The file system and the watcher (external).  A change of a watched file *)
(* is reported under its clean name, a change of an entry of a watched     *)
(* directory under the name of the entry.                                  *)
(***************************************************************************)
EventNames(p) ==
    IF Entries[Clean[p]] = {} THEN {Clean[p]} ELSE Entries[Clean[p]]

Change(p) ==
    /\ phase = "watch" /\ p \in watched
    /\ changes < MaxChanges
    /\ changes' = changes + 1
    /\ \E n \in EventNames(p) :
        /\ events' = Append(events, n)
        /\ \/ /\ running[n] + leaving[n] = 0
              /\ fresh' = fresh \cup {p} /\ UNCHANGED late
           \/ /\ running[n] + leaving[n] > 0
              /\ late' = late \cup {p} /\ UNCHANGED fresh
    /\ UNCHANGED <<phase, cfgVars, hookVars>>

-----------------------------------------------------------------------------
(***************************************************************************)
(* The loop of FsnotifyRun and the hook.                                   *)
(***************************************************************************)
TakeEvent ==
    /\ phase = "watch" /\ events # <<>>
    /\ events' = Tail(events)
    /\ LET n == Head(events) IN
        \/ n \in eventMap /\ UNCHANGED hookVars
        \/ /\ n \notin eventMap
           /\ eventMap' = eventMap \cup {n}
           /\ timers' = IF ScriptOf(n) = NoPath THEN timers
                        ELSE [timers EXCEPT ![n] = @ + 1]
           /\ UNCHANGED <<running, leaving>>
    /\ UNCHANGED <<phase, cfgVars, histVars>>

\* Variant: the goroutine waits while another script is running.
StartScriptAlone(n) ==
    /\ phase = "watch" /\ timers[n] > 0
    /\ \A m \in Names : running[m] = 0
    /\ timers' = [timers EXCEPT ![n] = @ - 1]
    /\ running' = [running EXCEPT ![n] = @ + 1]
    /\ fresh' = fresh \ {p \in watched : n = p}
    /\ late' = late \ {p \in watched : n = p}
    /\ UNCHANGED <<phase, cfgVars, events, eventMap, leaving, changes>>

\* The ten seconds are over and the script starts: it sees all changes so far.
StartScript(n) ==
    /\ phase = "watch" /\ timers[n] > 0
    /\ timers' = [timers EXCEPT ![n] = @ - 1]
    /\ running' = [running EXCEPT ![n] = @ + 1]
    /\ fresh' = fresh \ {p \in watched : n = p}
    /\ late' = late \ {p \in watched : n = p}
    /\ UNCHANGED <<phase, cfgVars, events, eventMap, leaving, changes>>

\* The script has ended, with or without an error, and the result is printed; its
\* name is still in eventMap.
EndScript(n) ==
    /\ phase = "watch" /\ running[n] > 0
    /\ running' = [running EXCEPT ![n] = @ - 1]
    /\ leaving' = [leaving EXCEPT ![n] = @ + 1]
    /\ UNCHANGED <<phase, cfgVars, events, eventMap, timers, histVars>>

\* Variant: the goroutine ends without its delete.
DeleteEntryNever(n) ==
    /\ phase = "watch" /\ leaving[n] > 0
    /\ leaving' = [leaving EXCEPT ![n] = @ - 1]
    /\ UNCHANGED <<phase, cfgVars, events, eventMap, timers, running, histVars>>

\* delete(eventMap, name), the end of the goroutine.
DeleteEntry(n) ==
    /\ phase = "watch" /\ leaving[n] > 0
    /\ leaving' = [leaving EXCEPT ![n] = @ - 1]
    /\ eventMap' = eventMap \ {n}
    /\ UNCHANGED <<phase, cfgVars, events, timers, running, histVars>>

\* watch.Errors, such as an overflow of the event queue: the program exits,
\* whatever the other goroutines are doing.
WatchError ==
    /\ phase = "watch"
    /\ phase' = "fatal"
    /\ UNCHANGED <<cfgVars, events, hookVars, histVars>>

\* eventMap has no lock: the loop, or another goroutine, that touches it during a
\* delete can make the Go runtime end the program (concurrent map access).
ConcurrentMapAccess ==
    /\ phase = "watch"
    /\ \E n \in Names : /\ leaving[n] > 0
                        /\ \/ events # <<>>
                           \/ \E m \in Names \ {n} : leaving[m] > 0
    /\ phase' = "fatal"
    /\ UNCHANGED <<cfgVars, events, hookVars, histVars>>

\* The handler of fsnotifyRun is installed only after FsnotifyRun returned:
\* an interrupt kills the program.
Interrupt ==
    /\ phase = "watch"
    /\ phase' = "interrupted"
    /\ UNCHANGED <<cfgVars, events, hookVars, histVars>>

Ended ==
    /\ phase \in {"fatal", "interrupted"}
    /\ UNCHANGED vars

\* No more changes within the bound: nothing is left to happen.
Quiet ==
    /\ phase = "watch" /\ changes = MaxChanges
    /\ UNCHANGED vars

Next ==
    \/ ParseConfig \/ ParseFails \/ TakeEvent \/ WatchError \/ Interrupt
    \/ ConcurrentMapAccess \/ Ended \/ Quiet
    \/ \E p \in Names : AddWatch(p) \/ Change(p)
    \/ \E n \in Names : StartScript(n) \/ EndScript(n) \/ DeleteEntry(n)

Spec == Init /\ [][Next]_vars

\* The loop takes the events, the timers expire, the goroutines run; a script
\* may hang.
FairSpec ==
    /\ Spec
    /\ WF_vars(TakeEvent)
    /\ \A n \in Names : WF_vars(StartScript(n)) /\ WF_vars(DeleteEntry(n))

-----------------------------------------------------------------------------
\* eventMap and the goroutines agree: a name with a script has an entry just
\* while exactly one goroutine waits, runs or leaves for it.  More than one would
\* run the script twice, an entry without one would make the path deaf for ever.
OneGoroutinePerEntry ==
    \A n \in Names : ScriptOf(n) # NoPath =>
        timers[n] + running[n] + leaving[n] = IF n \in eventMap THEN 1 ELSE 0

\* A change of a path with a script is followed by a start of the script, unless
\* it comes between a start and the removal of the entry: from the end of the ten
\* seconds on, through the script and until the delete after it, the hook may drop
\* the event (see EveryChangeRunsScript).
FreshChangeRunsScript ==
    \A p \in Names : (ScriptOf(p) # NoPath /\ p \in fresh)
                        ~> (p \notin fresh \/ phase # "watch")

\* Every change of a watched path with a script is followed by a start of it, one
\* start for all that come before its ten seconds are over.
EveryChangeRunsScript ==
    \A p \in Names : (ScriptOf(p) # NoPath /\ p \in fresh \cup late)
                        ~> (p \notin fresh \cup late \/ phase # "watch")
=============================================================================
