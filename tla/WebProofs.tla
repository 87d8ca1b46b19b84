------------------------------ MODULE WebProofs ------------------------------
(* Theorems about WebServer and WebPage, for any number of pages, posting     *)
(* goroutines, generators alive at once and configurations.                   *)
EXTENDS WebPage, TLAPS

\* What is asked for is what the page's copy called for.
AskedByCopy == \A p \in Pages : /\ asked[p] \in {"start", "starting"} => ~shown[p]
                                /\ asked[p] = "stop" => shown[p]

\* A page is only said to start while a handler does, and while one does nothing
\* runs: handleStart has looked at isRunning and kept runMutex since.
StartsWhenIdle == /\ starting => ~isRunning
                  /\ \A p \in Pages : asked[p] = "starting" => starting

\* While a configuration is being saved, what is in use was posted.
PostedInUse == saving => config \in Configs

\* Only generators that have not ended are cancelled: a new one is not.
CancelledAlive == \A r \in cancelled : phase[r] # "none"

ServerInv == CancelledAlive /\ ServerTypeOK /\ RunningCanStop /\ SavedIsUsed /\ PostedInUse

-----------------------------------------------------------------------------
(* The server alone.                                                          *)

LEMMA ServerInit == Init => ServerInv
BY DEF Init, ServerInv, CancelledAlive, ServerTypeOK, RunningCanStop, SavedIsUsed, PostedInUse,
       Loaded

LEMMA StartLockKeeps ==
    ASSUME ServerInv, StartLock
    PROVE  ServerInv'
BY DEF ServerInv, CancelledAlive, ServerTypeOK, RunningCanStop, SavedIsUsed, PostedInUse, StartLock, configVars,
       Loaded

LEMMA StartKeeps ==
    ASSUME ServerInv, NEW r \in Runs, Start(r)
    PROVE  ServerInv'
BY NilAssumption DEF ServerInv, CancelledAlive, ServerTypeOK, RunningCanStop, SavedIsUsed, PostedInUse, Start,
                     configVars, Loaded

LEMMA StopKeeps ==
    ASSUME ServerInv, Stop
    PROVE  ServerInv'
BY NilAssumption DEF ServerInv, CancelledAlive, ServerTypeOK, RunningCanStop, SavedIsUsed, PostedInUse, Stop,
                     configVars, Loaded

LEMMA GeneratorKeeps ==
    ASSUME ServerInv, Generator
    PROVE  ServerInv'
<1>1. PICK r \in Runs : Wake(r) \/ TimeOut(r) \/ Leave(r)  BY DEF Generator
<1>2. UNCHANGED configVars  BY <1>1 DEF Wake, TimeOut, Leave
<1>3. SavedIsUsed' /\ PostedInUse'
  BY <1>2 DEF ServerInv, SavedIsUsed, PostedInUse, configVars, Loaded
<1>4. ServerTypeOK' /\ CancelledAlive'
  BY <1>1, <1>2 DEF ServerInv, CancelledAlive, ServerTypeOK, Wake, TimeOut, Leave, configVars
<1>5. RunningCanStop'
  <2>1. CASE Wake(r) \/ TimeOut(r)
    \* The generator the flag stands for may be the one that leaves its select.
    BY <2>1 DEF ServerInv, ServerTypeOK, RunningCanStop, Wake, TimeOut
  <2>2. CASE Leave(r)  BY <2>2 DEF RunningCanStop, Leave
  <2> QED  BY <1>1, <2>1, <2>2
<1> QED  BY <1>3, <1>4, <1>5 DEF ServerInv

LEMMA ConfigureKeeps ==
    ASSUME ServerInv, Configure
    PROVE  ServerInv'
<1>1. PICK h \in Posts : PostLock(h) \/ WriteConfig(h) \/ \E c \in Configs : PostBody(h, c)
  BY DEF Configure
<1>2. UNCHANGED runVars  BY <1>1 DEF PostLock, WriteConfig, PostBody
<1>3. RunningCanStop' /\ CancelledAlive'
  BY <1>2 DEF ServerInv, RunningCanStop, CancelledAlive, runVars
<1>4. CASE PostLock(h)
  BY <1>2, <1>3, <1>4
     DEF ServerInv, ServerTypeOK, SavedIsUsed, PostedInUse, PostLock, runVars, Loaded
<1>5. CASE WriteConfig(h)
  <2>1. ServerTypeOK' /\ PostedInUse'
    \* The file gets what is in use: it was posted, it is not the default.
    BY <1>2, <1>5 DEF ServerInv, ServerTypeOK, PostedInUse, WriteConfig, runVars
  <2>2. SavedIsUsed'
    \* Either the whole configuration is in the file or the save failed.
    BY <1>5 DEF ServerInv, ServerTypeOK, SavedIsUsed, PostedInUse, WriteConfig, Loaded
  <2> QED  BY <1>3, <2>1, <2>2 DEF ServerInv
<1>6. CASE \E c \in Configs : PostBody(h, c)
  <2>1. PICK c \in Configs : PostBody(h, c)  BY <1>6
  <2>2. ServerTypeOK'
    <3>1. {starting', saving', failed'} \subseteq BOOLEAN
      BY <1>2, <2>1, Zenon DEF ServerInv, ServerTypeOK, PostBody, runVars
    <3>2. /\ config' \in Configs \cup {DefaultConfig} /\ file' \in Configs \cup {"broken"}
          /\ configMutex' \in Posts \cup {Nil}
      BY <2>1 DEF ServerInv, ServerTypeOK, PostBody
    <3> QED  BY <1>2, <3>1, <3>2 DEF ServerInv, ServerTypeOK, runVars
  <2>3. PostedInUse'
    BY <2>1, Zenon DEF PostedInUse, PostBody
  <2>4. SavedIsUsed'
    BY <2>1 DEF ServerInv, ServerTypeOK, SavedIsUsed, PostBody, Loaded
  <2> QED  BY <1>3, <2>2, <2>4, <2>3 DEF ServerInv
<1> QED  BY <1>1, <1>4, <1>5, <1>6

LEMMA CrashKeeps ==
    ASSUME ServerInv, Crash
    PROVE  ServerInv'
BY DEF ServerInv, CancelledAlive, ServerTypeOK, RunningCanStop, SavedIsUsed, PostedInUse, Crash, Loaded

LEMMA ServerNext == ServerInv /\ [Next]_serverVars => ServerInv'
<1>1. ASSUME ServerInv, UNCHANGED serverVars PROVE ServerInv'
  BY <1>1 DEF ServerInv, CancelledAlive, ServerTypeOK, RunningCanStop, SavedIsUsed, PostedInUse,
              Loaded, serverVars, runVars, configVars
<1> QED
  BY <1>1, StartLockKeeps, StartKeeps, StopKeeps, GeneratorKeeps, ConfigureKeeps, CrashKeeps DEF Next

LEMMA ServerAlways == Spec => []ServerInv
BY ServerInit, ServerNext, PTL DEF Spec

-----------------------------------------------------------------------------
(* The pages.                                                                 *)

\* A step of the pages is a step of the server or leaves it as it is.
LEMMA PageStepIsServerStep == [PageNext]_vars => [Next]_serverVars
<1>1. ASSUME NEW p \in Pages, Click(p) \/ Answer(p) \/ Lose(p) PROVE UNCHANGED serverVars
  BY <1>1 DEF Click, Answer, Lose
<1>2. ASSUME NEW p \in Pages, Served(p) PROVE [Next]_serverVars
  BY <1>2 DEF Served, ServeStart, ServeStop, Refused, Next
<1>3. ASSUME Started PROVE Next  BY <1>3 DEF Started, Next
<1>4. ASSUME ServeAdrift PROVE [Next]_serverVars
  BY <1>4 DEF ServeAdrift, Refused, Next
<1>5. ASSUME PageCrash PROVE Next  BY <1>5 DEF PageCrash, Next
<1> QED  BY <1>1, <1>2, <1>3, <1>4, <1>5 DEF PageNext, Next, vars

(* The server that pages talk to is the server: handlers of start and stop    *)
(* that are only called by pages do what WebServer lets any caller do.        *)
THEOREM PagesUseServer == PageSpec => Spec
<1>1. PageInit => Init  BY DEF PageInit
<1> QED  BY <1>1, PageStepIsServerStep, PTL DEF PageSpec, Spec

(* A stop reaches what runs (RunningCanStop): whatever older generators do to *)
(* isRunning (webserver.go:331-337), whenever it is set the generator started *)
(* last is alive and ws.cancelFunc is its own.                                *)
THEOREM StopReaches == PageSpec => []RunningCanStop
<1>1. ServerInv => RunningCanStop  BY DEF ServerInv
<1> QED  BY <1>1, PagesUseServer, ServerAlways, PTL

(* Unless a save failed, a restart loads what is in use (SavedIsUsed), also   *)
(* when the process died while it wrote the file.                             *)
THEOREM RestartLoads == PageSpec => []SavedIsUsed
<1>1. ServerInv => SavedIsUsed  BY DEF ServerInv
<1> QED  BY <1>1, PagesUseServer, ServerAlways, PTL

PageTypeOK ==
    /\ shown \in [Pages -> BOOLEAN]
    /\ asked \in [Pages -> {"none", "start", "starting", "stop", "ok", "error"}]
    /\ adrift \subseteq {"start", "stop"}
    /\ starter \in Pages \cup {Nil}

PageInv == PageTypeOK /\ AskedByCopy /\ StartsWhenIdle /\ StarterShowsIt

LEMMA PageInitInv == PageInit => PageInv
BY DEF PageInit, Init, PageInv, PageTypeOK, AskedByCopy, StartsWhenIdle, StarterShowsIt

LEMMA ClickKeeps ==
    ASSUME PageInv, NEW p \in Pages, Click(p)
    PROVE  PageInv'
BY DEF PageInv, PageTypeOK, AskedByCopy, StartsWhenIdle, StarterShowsIt, Click, Ask, serverVars,
       runVars

LEMMA ServeStartKeeps ==
    ASSUME PageInv, NEW p \in Pages, ServeStart(p)
    PROVE  PageInv'
<1>1. CASE StartLock /\ Ask(p, "starting")
  BY <1>1 DEF PageInv, PageTypeOK, AskedByCopy, StartsWhenIdle, StarterShowsIt, ServeStart,
              StartLock, Ask
<1>2. CASE Refused("start") /\ Ask(p, "error")
  \* A page that is refused a start showed nothing: it did not start what runs.
  BY <1>2 DEF PageInv, PageTypeOK, AskedByCopy, StartsWhenIdle, StarterShowsIt, ServeStart,
              Refused, Ask, serverVars, runVars
<1> QED  BY <1>1, <1>2 DEF ServeStart

LEMMA StartedKeeps ==
    ASSUME PageInv, Started
    PROVE  PageInv'
<1>1. PICK r \in Runs : Start(r)  BY DEF Started
<1>2. isRunning' /\ ~starting'  BY <1>1 DEF Start
<1>3. starter' # Nil => /\ starter' \in Pages
                        /\ asked[starter'] = "starting"
                        /\ asked'[starter'] = "ok"
  BY DEF Started, PageInv, PageTypeOK
<1>4. /\ shown' = shown /\ adrift' = adrift
      /\ asked' = [p \in Pages |-> IF asked[p] = "starting" THEN "ok" ELSE asked[p]]
  BY DEF Started
<1>5. PageTypeOK'  BY <1>3, <1>4 DEF PageInv, PageTypeOK
<1>6. AskedByCopy' /\ StartsWhenIdle'
  BY <1>2, <1>4, <1>5 DEF PageInv, PageTypeOK, AskedByCopy, StartsWhenIdle, Started, Start
<1>7. StarterShowsIt'
  BY <1>3, <1>4 DEF PageInv, AskedByCopy, StarterShowsIt
<1> QED  BY <1>5, <1>6, <1>7 DEF PageInv

LEMMA ServeStopKeeps ==
    ASSUME PageInv, NEW p \in Pages, ServeStop(p)
    PROVE  PageInv'
<1>1. PageTypeOK' /\ AskedByCopy'
  BY DEF PageInv, PageTypeOK, AskedByCopy, ServeStop, Ask
<1>2. ~isRunning' /\ starting' = starting
  BY DEF ServeStop, Stop, Refused, serverVars, runVars
<1>3. StartsWhenIdle'
  BY <1>1, <1>2 DEF PageInv, PageTypeOK, StartsWhenIdle, ServeStop, Ask
<1> QED  BY <1>1, <1>2, <1>3 DEF PageInv, StarterShowsIt

LEMMA AdriftKeeps ==
    ASSUME PageInv, ServeAdrift
    PROVE  PageInv'
<1>1. PICK request \in adrift : /\ adrift' = adrift \ {request}
                                /\ StartLock \/ Stop \/ Refused(request)
  BY DEF ServeAdrift
<1>2. isRunning' => isRunning  BY <1>1 DEF StartLock, Stop, Refused, serverVars, runVars
<1>3. (starting => starting') /\ (starting' => ~isRunning')
  BY <1>1 DEF StartLock, Stop, Refused, serverVars, runVars, PageInv, StartsWhenIdle
<1>4. UNCHANGED <<shown, asked, starter>>  BY DEF ServeAdrift
<1>5. PageTypeOK' /\ AskedByCopy' /\ StartsWhenIdle'
  BY <1>1, <1>3, <1>4 DEF PageInv, PageTypeOK, AskedByCopy, StartsWhenIdle
<1>6. StarterShowsIt'  BY <1>2, <1>4 DEF PageInv, StarterShowsIt
<1> QED  BY <1>5, <1>6 DEF PageInv

LEMMA AnswerKeeps ==
    ASSUME PageInv, NEW p \in Pages, Answer(p)
    PROVE  PageInv'
BY DEF PageInv, PageTypeOK, AskedByCopy, StartsWhenIdle, StarterShowsIt, Answer, Ask, serverVars,
       runVars

\* A page that did not start what runs, or whose start is answered with less
\* than a success, shows as much as before.
LEMMA LoseKeeps ==
    ASSUME PageInv, NEW p \in Pages, Lose(p)
    PROVE  PageInv'
<1>1. PageTypeOK' /\ AskedByCopy'
  BY DEF PageInv, PageTypeOK, AskedByCopy, Lose, Ask
<1>2. StartsWhenIdle'
  BY DEF PageInv, PageTypeOK, StartsWhenIdle, Lose, Ask, serverVars, runVars
<1>3. StarterShowsIt'
  BY PagesAssumption DEF PageInv, PageTypeOK, StarterShowsIt, Lose, Ask, serverVars, runVars
<1> QED  BY <1>1, <1>2, <1>3 DEF PageInv

LEMMA CrashKeepsPages ==
    ASSUME PageInv, PageCrash
    PROVE  PageInv'
BY DEF PageInv, PageTypeOK, AskedByCopy, StartsWhenIdle, StarterShowsIt, PageCrash, Crash

LEMMA PageNextInv == PageInv /\ [PageNext]_vars => PageInv'
<1> SUFFICES ASSUME PageInv, [PageNext]_vars PROVE PageInv'  OBVIOUS
<1>1. CASE \E p \in Pages : Click(p) \/ Served(p) \/ Answer(p) \/ Lose(p)
  BY <1>1, ClickKeeps, ServeStartKeeps, ServeStopKeeps, AnswerKeeps, LoseKeeps DEF Served
<1>2. CASE Started \/ ServeAdrift  BY <1>2, StartedKeeps, AdriftKeeps
<1>3. CASE (Generator \/ Configure) /\ UNCHANGED pageVars
  <2>1. (isRunning' => isRunning) /\ starting' = starting
    BY <1>3 DEF Generator, Configure, Wake, TimeOut, Leave, PostLock, PostBody, WriteConfig,
                runVars
  <2> QED
    BY <1>3, <2>1 DEF PageInv, PageTypeOK, AskedByCopy, StartsWhenIdle, StarterShowsIt, pageVars
<1>4. CASE PageCrash  BY <1>4, CrashKeepsPages
<1>5. CASE UNCHANGED vars
  BY <1>5 DEF PageInv, PageTypeOK, AskedByCopy, StartsWhenIdle, StarterShowsIt, vars, pageVars,
              serverVars, runVars
<1> QED  BY <1>1, <1>2, <1>3, <1>4, <1>5 DEF PageNext

LEMMA PageAlways == PageSpec => []PageInv
BY PageInitInv, PageNextInv, PTL DEF PageSpec

(* The page that started what runs shows it (StarterShowsIt), however clicks, *)
(* answers, lost answers, late requests, timeouts and crashes mix, unless its *)
(* start or the answer to it went adrift: what a page asks for follows from   *)
(* its copy (AskedByCopy), and while a handler starts a generator no other    *)
(* does (StartsWhenIdle).                                                     *)
THEOREM RunningIsShown == PageSpec => []StarterShowsIt
<1>1. PageInv => StarterShowsIt  BY DEF PageInv
<1> QED  BY <1>1, PageAlways, PTL

(* Every variable of the server and of the pages keeps its type.              *)
THEOREM WebTypeCorrect == PageSpec => []TypeOK
<1>1. ServerInv /\ PageInv => TypeOK  BY DEF ServerInv, PageInv, PageTypeOK, TypeOK
<1> QED  BY <1>1, PagesUseServer, ServerAlways, PageAlways, PTL
=============================================================================
