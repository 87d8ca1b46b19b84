------------------------------ MODULE WebPage ------------------------------
(* Open pages of the web interface, each with a copy of the server's          *)
(* isRunning that only its own button changes, and the server they talk to.   *)
(* A page that is reloaded is a new page. A request may fail before, while or *)
(* after the server serves it.                                                *)
EXTENDS WebServer

CONSTANTS
    Pages,
    Unreliable  \* pages whose connection may break

ASSUME PagesAssumption == Unreliable \subseteq Pages /\ Nil \notin Pages

VARIABLES
    shown,      \* shown[p]: the page's state.isRunning
    asked,      \* asked[p]: the request its button waits for, and the answer
    adrift,     \* requests on their way that no page waits for any more
    starter     \* history: the page that was or will be told it started what
                \* runs, Nil when its start or the answer to it went adrift

pageVars == <<shown, asked, adrift, starter>>
vars == <<serverVars, pageVars>>

PageInit ==
    /\ Init
    /\ shown = [p \in Pages |-> FALSE]
    /\ asked = [p \in Pages |-> "none"]
    /\ adrift = {}
    /\ starter = Nil

Ask(p, s) == asked' = [asked EXCEPT ![p] = s]

\* Mutant: a click gives up the request before it.
ClickAborts(p) ==
    /\ Ask(p, IF shown[p] THEN "stop" ELSE "start")
    /\ UNCHANGED <<serverVars, shown, adrift, starter>>

\* toggleSystem: the page's copy decides, the button is disabled meanwhile.
Click(p) ==
    /\ asked[p] = "none"
    /\ Ask(p, IF shown[p] THEN "stop" ELSE "start")
    /\ UNCHANGED <<serverVars, shown, adrift, starter>>

\* What the handlers do first: they wait for runMutex and look at isRunning.
Refused(request) ==
    /\ ~starting
    /\ isRunning = (request = "start")
    /\ UNCHANGED serverVars

ServeStart(p) ==
    /\ asked[p] = "start"
    /\ \/ StartLock /\ Ask(p, "starting")
       \/ Refused("start") /\ Ask(p, "error")
    /\ UNCHANGED <<shown, adrift, starter>>

\* The start that holds runMutex gets configMutex, and its page an answer. Which
\* name the model gives the new generator is of no interest.
Started ==
    /\ starting
    /\ LET free == CHOOSE r \in Runs : phase[r] = "none" IN free \in Runs /\ Start(free)
    /\ LET waiting == {p \in Pages : asked[p] = "starting"}
       IN  /\ asked' = [p \in Pages |-> IF p \in waiting THEN "ok" ELSE asked[p]]
           /\ starter' = IF waiting = {} THEN Nil ELSE CHOOSE p \in waiting : TRUE
    /\ UNCHANGED <<shown, adrift>>

ServeStop(p) ==
    /\ asked[p] = "stop"
    /\ \/ Stop /\ Ask(p, "ok")
       \/ Refused("stop") /\ Ask(p, "error")
    /\ UNCHANGED <<shown, adrift, starter>>

\* A request that arrives after its page gave it up.
ServeAdrift ==
    /\ \E request \in adrift :
          /\ adrift' = adrift \ {request}
          /\ \/ request = "start" /\ StartLock
             \/ request = "stop" /\ Stop
             \/ Refused(request)
    /\ UNCHANGED <<shown, asked, starter>>

\* The answer arrives: the copy is inverted if it is a success.
Answer(p) ==
    /\ asked[p] \in {"ok", "error"}
    /\ shown' = [shown EXCEPT ![p] = IF asked[p] = "ok" THEN ~@ ELSE @]
    /\ Ask(p, "none")
    /\ UNCHANGED <<serverVars, adrift, starter>>

\* The fetch fails: the copy stays as it is, whatever became of the request. It
\* may have been lost, be about to arrive (bound: one such at a time), be in the
\* server's hands or have been served.
Lose(p) ==
    /\ p \in Unreliable
    /\ asked[p] # "none"
    /\ Ask(p, "none")
    /\ \/ UNCHANGED adrift
       \/ asked[p] \in {"start", "stop"} /\ adrift = {} /\ adrift' = {asked[p]}
    /\ starter' = IF asked[p] = "ok" /\ starter = p THEN Nil ELSE starter
    /\ UNCHANGED <<serverVars, shown>>

\* Requests the server had not answered when it died fail.
PageCrash ==
    /\ Crash
    /\ asked' = [p \in Pages |-> IF asked[p] \in {"start", "starting", "stop"} THEN "error"
                                 ELSE asked[p]]
    /\ adrift' = {} /\ starter' = Nil
    /\ UNCHANGED shown

Served(p) == ServeStart(p) \/ ServeStop(p)

PageNext ==
    \/ \E p \in Pages : Click(p) \/ Served(p) \/ Answer(p) \/ Lose(p)
    \/ Started \/ ServeAdrift
    \/ (Generator \/ Configure) /\ UNCHANGED pageVars
    \/ PageCrash

PageSpec == PageInit /\ [][PageNext]_vars

(* A goroutine that can go on does and Go's mutexes starve nobody. The body   *)
(* of a POST need not arrive.                                                 *)
ServerFairness ==
    /\ SF_vars(Started)
    /\ \A r \in Runs : /\ WF_vars(Wake(r) /\ UNCHANGED pageVars)
                       /\ SF_vars(Leave(r) /\ UNCHANGED pageVars)
    /\ \A h \in Posts : WF_vars(WriteConfig(h) /\ UNCHANGED pageVars)

(* Requests reach the server, which answers them, and users keep clicking.    *)
PageFairness ==
    \A p \in Pages : WF_vars(Click(p)) /\ SF_vars(Served(p)) /\ WF_vars(Answer(p))

ServerFairSpec == PageSpec /\ ServerFairness
PageFairSpec == PageSpec /\ ServerFairness /\ PageFairness

-----------------------------------------------------------------------------
(* Properties.                                                                *)

(* Every variable has its type; an answer was asked for.                      *)
TypeOK ==
    /\ ServerTypeOK
    /\ shown \in [Pages -> BOOLEAN]
    /\ asked \in [Pages -> {"none", "start", "starting", "stop", "ok", "error"}]
    /\ adrift \subseteq {"start", "stop"}
    /\ starter \in Pages \cup {Nil}

(* Whoever started what runs can stop it: as long as the page stays open it   *)
(* shows that the system runs, or will when the answer is there, whatever     *)
(* other pages, late requests and older generators do. Only when that answer  *)
(* or the request was lost (app.js:277-280) does no page know.                *)
StarterShowsIt ==
    isRunning /\ starter # Nil =>
        IF asked[starter] = "ok" THEN ~shown[starter] ELSE shown[starter]

(* One click controls the system (WEB_INTERFACE.md:9): a page whose copy is   *)
(* wrong is right again after it was clicked often enough.                    *)
PageRecovers == \A p \in Pages : shown[p] # isRunning ~> shown[p] = isRunning
=============================================================================
