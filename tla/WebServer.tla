----------------------------- MODULE WebServer -----------------------------
(* The web server's control of the (simulated) generator and its              *)
(* configuration. Handlers run on goroutines of their own and exclude each    *)
(* other by runMutex or configMutex; a step here is what one of them does     *)
(* without waiting. A POST holds configMutex while its body arrives, a start  *)
(* holds runMutex while it waits for configMutex, and stops, further starts   *)
(* and the ends of generators wait for runMutex.                              *)
EXTENDS Naturals

CONSTANTS
    Runs,           \* generators that can be alive at once (bounds the model)
    Posts,          \* goroutines that serve POST /api/config
    Configs,        \* what can be posted
    DefaultConfig,
    Nil             \* no cancelFunc, no holder of configMutex

ASSUME NilAssumption == Nil \notin Runs \cup Posts \cup Configs \cup {DefaultConfig, "broken"}

VARIABLES
    isRunning,      \* ws.isRunning
    cancelFunc,     \* the generator ws.cancelFunc cancels, or Nil
    phase,          \* phase[r]: none, waiting in its select, or leaving
    cancelled,      \* generators alive whose context is cancelled
    config,         \* ws.config
    starting,       \* a handleStart holds ws.runMutex and wants configMutex
    file,           \* clientgen_config.json: a configuration, or missing or
                    \* cut short, which loadDefaultConfig takes for the same
    configMutex,    \* the POST that holds ws.configMutex
    saving,         \* it has its body and is writing the file
    failed          \* the last save failed (answered with an error)

runVars == <<isRunning, cancelFunc, phase, cancelled, starting>>
configVars == <<config, file, configMutex, saving, failed>>
serverVars == <<runVars, configVars>>

\* Mutant: what was decoded so far is used, whether it is complete or not.
LoadedBlindly(f) == f

\* loadDefaultConfig: the file, or the default when it cannot be decoded.
Loaded(f) == IF f \in Configs THEN f ELSE DefaultConfig

Init ==
    /\ isRunning = FALSE
    /\ cancelFunc = Nil
    /\ phase = [r \in Runs |-> "none"]
    /\ cancelled = {}
    /\ starting = FALSE
    /\ file \in Configs \cup {"broken"}
    /\ config = Loaded(file)
    /\ configMutex = Nil
    /\ saving = FALSE
    /\ failed = FALSE

-----------------------------------------------------------------------------
(* Start, stop and the generator's goroutine.                                 *)

(* handleStart takes runMutex and is refused while isRunning. Bound: there is *)
(* a generator to start, so that it does not wait for more than configMutex.  *)
StartLock ==
    /\ ~starting /\ ~isRunning
    /\ \E r \in Runs : phase[r] = "none"
    /\ starting' = TRUE
    /\ UNCHANGED <<isRunning, cancelFunc, phase, cancelled, configVars>>

(* With runMutex held it waits for configMutex, then it starts a generator.   *)
Start(r) ==
    /\ starting
    /\ configMutex = Nil
    /\ phase[r] = "none"
    /\ phase' = [phase EXCEPT ![r] = "waiting"]
    /\ cancelFunc' = r
    /\ isRunning' = TRUE
    /\ starting' = FALSE
    /\ UNCHANGED <<cancelled, configVars>>

\* Mutant: the flag is left to the generator's deferred function.
StopKeepsFlag ==
    /\ ~starting /\ isRunning
    /\ cancelled' = IF cancelFunc = Nil THEN cancelled ELSE cancelled \cup {cancelFunc}
    /\ cancelFunc' = Nil
    /\ UNCHANGED <<isRunning, phase, starting, configVars>>

(* handleStop: waits for runMutex, refused unless isRunning.                  *)
Stop ==
    /\ ~starting /\ isRunning
    /\ cancelled' = IF cancelFunc = Nil THEN cancelled ELSE cancelled \cup {cancelFunc}
    /\ cancelFunc' = Nil
    /\ isRunning' = FALSE
    /\ UNCHANGED <<phase, starting, configVars>>

\* Mutant: the generator looks at the flag instead of its context.
WakeByFlag(r) ==
    /\ phase[r] = "waiting"
    /\ ~isRunning
    /\ phase' = [phase EXCEPT ![r] = "leaving"]
    /\ UNCHANGED <<isRunning, cancelFunc, cancelled, starting, configVars>>

\* The generator's select: its context is cancelled.
Wake(r) ==
    /\ phase[r] = "waiting"
    /\ r \in cancelled
    /\ phase' = [phase EXCEPT ![r] = "leaving"]
    /\ UNCHANGED <<isRunning, cancelFunc, cancelled, starting, configVars>>

\* The generator's select: TimeoutSec is over.
TimeOut(r) ==
    /\ phase[r] = "waiting"
    /\ phase' = [phase EXCEPT ![r] = "leaving"]
    /\ UNCHANGED <<isRunning, cancelFunc, cancelled, starting, configVars>>

(* The generator's deferred function waits for runMutex and clears the flag,  *)
(* whoever set it.                                                            *)
Leave(r) ==
    /\ ~starting
    /\ phase[r] = "leaving"
    /\ phase' = [phase EXCEPT ![r] = "none"]
    /\ isRunning' = FALSE
    /\ cancelled' = cancelled \ {r}
    /\ UNCHANGED <<cancelFunc, starting, configVars>>

-----------------------------------------------------------------------------
(* Configuration.                                                             *)

(* POST /api/config takes configMutex and reads its body: nothing bounds the  *)
(* time that takes.                                                           *)
PostLock(h) ==
    /\ configMutex = Nil
    /\ configMutex' = h
    /\ UNCHANGED <<config, file, saving, failed, runVars>>

(* A body that cannot be read or decoded is refused. Another one replaces the *)
(* configuration, and the file is created, which truncates it, or cannot be.  *)
PostBody(h, c) ==
    /\ configMutex = h /\ ~saving
    /\ \/ configMutex' = Nil /\ UNCHANGED <<config, file, saving, failed>>
       \/ /\ config' = c
          /\ \/ file' = "broken" /\ saving' = TRUE /\ UNCHANGED <<configMutex, failed>>
             \/ failed' = TRUE /\ configMutex' = Nil /\ UNCHANGED <<file, saving>>
    /\ UNCHANGED runVars

\* Mutant: the error of the encoder is not returned.
WriteConfigIgnored(h) ==
    /\ configMutex = h /\ saving
    /\ file' = config \/ UNCHANGED file
    /\ failed' = FALSE
    /\ configMutex' = Nil /\ saving' = FALSE
    /\ UNCHANGED <<config, runVars>>

(* Then it encodes the configuration into the file, or fails on the way.      *)
WriteConfig(h) ==
    /\ configMutex = h /\ saving
    /\ \/ file' = config /\ failed' = FALSE
       \/ failed' = TRUE /\ UNCHANGED file
    /\ configMutex' = Nil /\ saving' = FALSE
    /\ UNCHANGED <<config, runVars>>

\* The process dies and is started again.
Crash ==
    /\ isRunning' = FALSE
    /\ cancelFunc' = Nil
    /\ phase' = [r \in Runs |-> "none"]
    /\ cancelled' = {}
    /\ starting' = FALSE
    /\ config' = Loaded(file)
    /\ configMutex' = Nil
    /\ saving' = FALSE
    /\ failed' = FALSE
    /\ UNCHANGED file

Generator == \E r \in Runs : Wake(r) \/ TimeOut(r) \/ Leave(r)
Configure == \E h \in Posts : \/ PostLock(h) \/ WriteConfig(h)
                              \/ \E c \in Configs : PostBody(h, c)
Next == StartLock \/ (\E r \in Runs : Start(r)) \/ Stop \/ Generator \/ Configure \/ Crash

Spec == Init /\ [][Next]_serverVars

-----------------------------------------------------------------------------
(* Properties.                                                                *)

(* Every variable has its type, and only a posting goroutine holds the mutex. *)
ServerTypeOK ==
    /\ isRunning \in BOOLEAN
    /\ cancelFunc \in Runs \cup {Nil}
    /\ phase \in [Runs -> {"none", "waiting", "leaving"}]
    /\ cancelled \subseteq Runs
    /\ config \in Configs \cup {DefaultConfig}
    /\ file \in Configs \cup {"broken"}
    /\ configMutex \in Posts \cup {Nil}
    /\ {starting, saving, failed} \subseteq BOOLEAN

(* Whenever the server says it runs there is a generator a stop would reach,  *)
(* the one started last, whatever older generators still do to the flag.      *)
RunningCanStop ==
    isRunning => /\ cancelFunc \in Runs \ cancelled
                 /\ phase[cancelFunc] # "none"

(* Unless a save failed, a restart would load what the server uses now.       *)
SavedIsUsed == ~saving /\ ~failed => Loaded(file) = config

(* The status is right: no generator goes on while the server says stopped    *)
(* (webserver.go:312 refuses a second start, 372 a stop, by this flag).       *)
StatusTruthful == ~isRunning => \A r \in Runs : phase[r] = "waiting" => r \in cancelled

(* A generator that was stopped ends, as long as every body that is posted    *)
(* arrives or breaks off (webserver.go:221): one that does neither keeps      *)
(* configMutex, a start that waits for it (316) keeps runMutex, and the       *)
(* generator that was stopped waits for that (332).                           *)
StoppedEnds ==
    ([]<>(configMutex = Nil)) => \A r \in Runs : r \in cancelled ~> phase[r] = "none"
=============================================================================
