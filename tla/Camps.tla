--------------------------------- MODULE Camps ---------------------------------
(* Bootstrap() and Shutdown() of the camps of a program: the list CAMPS is    *)
(* taken through three phases upwards and two phases downwards, by any number *)
(* of calls with a target camp and a target phase each, while resource pools  *)
(* and configurations are handed down to lower camps.  Each step is one turn  *)
(* of a loop over CAMPS, so that the state a camp meets when it is called is  *)
(* a state of the model.                                                      *)
EXTENDS Integers

CONSTANT QtyCamps   \* the camps by their place in CAMPS, 1 is BASECAMP

CampsAssumption == QtyCamps \in Nat \ {0}

PrepareResources == 1
PrepareConfig == 2
Final == 3
Announce == 1
Destruct == 2
null == 0

VARIABLES
    bootstrapState,            \* of each camp, negative for the phases of the shutdown
    resourcePool, config,      \* of each camp; an object is named after its first camp
    NonCampModulesInitialized,
    ownPools, ownConfigs,      \* the camps that were given their objects by the program
    running                    \* where Bootstrap() or Shutdown() is

vars == <<bootstrapState, resourcePool, config, NonCampModulesInitialized, ownPools, ownConfigs,
          running>>

TheCamps == 1..QtyCamps

\* A call with its phases up to the last one, and the camp whose turn it is.
Running(what, phase, last, target, camp) ==
    [what |-> what, phase |-> phase, last |-> last, target |-> target, camp |-> camp]
Nothing == Running("nothing", 0, 0, 0, 0)
-----------------------------------------------------------------------------
(* Bootstrap()                                                                *)

Bootstrap(targetPhase, target) ==
    /\ running = Nothing
    /\ bootstrapState[target] \in 0..(targetPhase - 1)
    /\ running' = Running("prepare", bootstrapState[target] + 1, targetPhase, target, 1)
    /\ NonCampModulesInitialized' = TRUE
    /\ UNCHANGED <<bootstrapState, resourcePool, config, ownPools, ownConfigs>>

\* mutant
Distributed_over(objects, target) ==
    [c \in TheCamps |-> IF c > target THEN objects[c]
                        ELSE IF objects[target] # null THEN objects[target] ELSE target]

\* From the camp upwards, the first one with an object.
Nearest(objects, camp) ==
    CHOOSE c \in TheCamps : /\ c >= camp /\ objects[c] # null
                            /\ \A d \in camp..(c - 1) : objects[d] = null

\* The objects of a phase are handed down from the target, which gets a new one if it has
\* none; a camp that has a different one keeps it and hands on this one.
Distributed(objects, target) ==
    LET given == [objects EXCEPT ![target] = IF @ = null THEN target ELSE @]
    IN  [c \in TheCamps |-> IF c > target THEN objects[c] ELSE given[Nearest(given, c)]]

Distribute ==
    /\ running.what = "prepare"
    /\ resourcePool' = IF running.phase = PrepareResources
                       THEN Distributed(resourcePool, running.target) ELSE resourcePool
    /\ config' = IF running.phase = PrepareConfig
                 THEN Distributed(config, running.target) ELSE config
    /\ running' = [running EXCEPT !.what = "start"]
    /\ UNCHANGED <<bootstrapState, NonCampModulesInitialized, ownPools, ownConfigs>>

\* A camp that is through the phase already is passed over.
PassOver ==
    /\ running.what = "start"
    /\ bootstrapState[running.camp] >= running.phase
    /\ running' = [running EXCEPT !.camp = @ + 1]
    /\ UNCHANGED <<bootstrapState, resourcePool, config, NonCampModulesInitialized, ownPools,
                   ownConfigs>>

\* The others are called, up to the target; then comes the next phase.
StartCamp ==
    /\ running.what = "start"
    /\ bootstrapState[running.camp] < running.phase
    /\ bootstrapState' = [bootstrapState EXCEPT ![running.camp] = running.phase]
    /\ running' = IF running.camp # running.target THEN [running EXCEPT !.camp = @ + 1]
                  ELSE IF running.phase = running.last THEN Nothing
                  ELSE Running("prepare", running.phase + 1, running.last, running.target, 1)
    /\ UNCHANGED <<resourcePool, config, NonCampModulesInitialized, ownPools, ownConfigs>>
-----------------------------------------------------------------------------
(* Shutdown()                                                                 *)

\* The program shuts down camps that are through their bootstrap only, once, and announces
\* none when another is destructed (assertions, and a debug build reads the configurations).
Shutdown(targetPhase, target) ==
    /\ running = Nothing
    /\ \A camp \in target..QtyCamps : bootstrapState[camp] = Final \/ bootstrapState[camp] < 0
    /\ bootstrapState[target] > -targetPhase
    /\ targetPhase = Announce => \A camp \in TheCamps : bootstrapState[camp] # -Destruct
    /\ running' = Running("stop", Announce, targetPhase, target, QtyCamps)
    /\ UNCHANGED <<bootstrapState, resourcePool, config, NonCampModulesInitialized, ownPools,
                   ownConfigs>>

\* From the last camp down to the target; those that have stopped are not called again.
StopCamp ==
    /\ running.what = "stop"
    /\ bootstrapState' = [bootstrapState EXCEPT ![running.camp] =
                              IF @ > -running.phase THEN -running.phase ELSE @]
    /\ running' = IF running.camp # running.target THEN [running EXCEPT !.camp = @ - 1]
                  ELSE IF running.phase < running.last
                  THEN Running("stop", running.phase + 1, running.last, running.target, QtyCamps)
                  ELSE IF running.last = Destruct THEN [running EXCEPT !.what = "drop"]
                  ELSE Nothing
    /\ UNCHANGED <<resourcePool, config, NonCampModulesInitialized, ownPools, ownConfigs>>

Dropped(objects, target) == [c \in TheCamps |-> IF c >= target THEN null ELSE objects[c]]

\* After the destruction the camps give up their objects, the last one all modules.
Drop ==
    /\ running.what = "drop"
    /\ resourcePool' = Dropped(resourcePool, running.target)
    /\ config' = Dropped(config, running.target)
    /\ NonCampModulesInitialized' = (NonCampModulesInitialized /\ running.target # 1)
    /\ running' = Nothing
    /\ UNCHANGED <<bootstrapState, ownPools, ownConfigs>>
-----------------------------------------------------------------------------
(* The program                                                                *)

\* BootstrapSetResourcePool(), before the phase for the camp.
SetResourcePool(camp) ==
    /\ running = Nothing
    /\ bootstrapState[camp] = 0
    /\ resourcePool[camp] = null
    /\ resourcePool' = [resourcePool EXCEPT ![camp] = camp]
    /\ ownPools' = ownPools \cup {camp}
    /\ UNCHANGED <<bootstrapState, config, NonCampModulesInitialized, ownConfigs, running>>

\* BootstrapSetConfig(), before the phase for the camp.
SetConfig(camp) ==
    /\ running = Nothing
    /\ bootstrapState[camp] \in {0, PrepareResources}
    /\ config[camp] = null
    /\ config' = [config EXCEPT ![camp] = camp]
    /\ ownConfigs' = ownConfigs \cup {camp}
    /\ UNCHANGED <<bootstrapState, resourcePool, NonCampModulesInitialized, ownPools, running>>

Init ==
    /\ bootstrapState = [c \in TheCamps |-> 0]
    /\ resourcePool = [c \in TheCamps |-> null]
    /\ config = [c \in TheCamps |-> null]
    /\ NonCampModulesInitialized = FALSE
    /\ ownPools = {}
    /\ ownConfigs = {}
    /\ running = Nothing

Next ==
    \/ \E camp \in TheCamps :
        \/ \E phase \in {PrepareResources, PrepareConfig, Final} : Bootstrap(phase, camp)
        \/ \E phase \in {Announce, Destruct} : Shutdown(phase, camp)
        \/ SetResourcePool(camp)
        \/ SetConfig(camp)
    \/ Distribute
    \/ PassOver
    \/ StartCamp
    \/ StopCamp
    \/ Drop

Spec == Init /\ [][Next]_vars
-----------------------------------------------------------------------------
(* Properties                                                                 *)

TypeOK ==
    /\ bootstrapState \in [TheCamps -> -2..3]
    /\ resourcePool \in [TheCamps -> TheCamps \cup {null}]
    /\ config \in [TheCamps -> TheCamps \cup {null}]
    /\ NonCampModulesInitialized \in BOOLEAN
    /\ ownPools \subseteq TheCamps /\ ownConfigs \subseteq TheCamps
    /\ \/ running = Nothing
       \/ running \in [what : {"prepare", "start"}, phase : 1..3, last : 1..3,
                       target : TheCamps, camp : TheCamps]
       \/ running \in [what : {"stop", "drop"}, phase : 1..2, last : 1..2,
                       target : TheCamps, camp : TheCamps]

\* What a camp needs in a phase upwards, and what it has until it is destructed.
HasItsObjects(camp, phase) ==
    /\ NonCampModulesInitialized
    /\ resourcePool[camp] # null
    /\ phase >= PrepareConfig => config[camp] # null

\* When a camp is called to start a phase, it is through the one before, all lower ones are
\* through this one and no higher one is; it has its objects, and the modules below the
\* camps are initialised.  (The loops and assertions of Bootstrap)
CampsStartUpwards ==
    running.what = "start" =>
        LET camp == running.camp
            phase == running.phase
        IN  bootstrapState[camp] < phase =>
                /\ bootstrapState[camp] = phase - 1
                /\ \A c \in 1..(camp - 1) : bootstrapState[c] >= phase
                /\ \A c \in (camp + 1)..QtyCamps : bootstrapState[c] < phase
                /\ HasItsObjects(camp, phase)

\* When a camp is called to stop, it is through the phase before, all higher ones have
\* stopped in this phase and no lower one has; with an announcement nothing below it has
\* stopped at all; it has its objects still.  (The loops and assertions of Shutdown)
CampsStopDownwards ==
    running.what = "stop" =>
        LET camp == running.camp
            phase == running.phase
        IN  bootstrapState[camp] > -phase =>
                /\ bootstrapState[camp] = IF phase = Announce THEN Final ELSE -Announce
                /\ \A c \in (camp + 1)..QtyCamps : bootstrapState[c] <= -phase
                /\ \A c \in 1..(camp - 1) : bootstrapState[c] > -phase
                /\ phase = Announce => \A c \in 1..(camp - 1) : bootstrapState[c] = Final
                /\ HasItsObjects(camp, Final)

\* An object is kept until the camp is destructed: one that the program has set is not
\* replaced; all others come from the next higher camp, or were made for a target; a camp
\* that was destructed has none.  (The distribution loops of Bootstrap)
ObjectsAreHandedDown(objects, own) ==
    /\ \A c \in own : objects[c] = c \/ bootstrapState[c] = -Destruct
    /\ \A c \in TheCamps : objects[c] \notin {null, c} =>
        /\ c < QtyCamps
        /\ \/ objects[c + 1] = objects[c]
           \/ objects[c + 1] = null /\ bootstrapState[c + 1] = -Destruct
    /\ running = Nothing =>
        \A c \in TheCamps : bootstrapState[c] = -Destruct => objects[c] = null
ObjectsAreKept ==
    /\ ObjectsAreHandedDown(resourcePool, ownPools)
    /\ ObjectsAreHandedDown(config, ownConfigs)

\* A camp is never further than a lower one on the way up, and never behind it on the way
\* down.  (Bootstrap and Shutdown with different targets)
LowerCampsLastLonger ==
    \A c \in 1..(QtyCamps - 1) : bootstrapState[c + 1] <= bootstrapState[c]
=============================================================================
