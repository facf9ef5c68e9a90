--------------------------------- MODULE Desktop ---------------------------------
(***************************************************************************)
(* The desktop program: the process of the GUI, whose one event loop runs  *)
(* the handlers of GuiBackend, of the profiles and of the split tunnel,    *)
(* and beside it a command line that makes profiles (shinvpn profile-add). *)
(* They share server.json and profiles.json.  The handlers of the profiles *)
(* and of the split tunnel have no await: while one is at work nothing     *)
(* else of the GUI runs.  Either process may end at any moment and be      *)
(* started again.                                                          *)
(***************************************************************************)
EXTENDS GuiBackend

CONSTANTS
    MaxProfiles, MaxLaunches, MaxFaults, \* bounds of Profiles
    Apps, Asked, TTL,                    \* constants of ProcessRouter
    MaxServed                            \* bound: requests of all kinds

ASSUME DesktopAssumption ==
    /\ MaxProfiles \in Nat /\ MaxLaunches \in Nat /\ MaxFaults \in Nat /\ MaxServed \in Nat
    /\ TTL \in Nat \ {0}
    /\ Asked \subseteq [enabled : BOOLEAN, mode : STRING, selected : SUBSET Apps]

VARIABLES
    up, memory, profilesFile, job, made, second, launches, faults, promised, sound, deleted,
    rules, rulesFile, cache, cacheAge, rulesAge,
    served \* requests of all kinds so far (MaxServed)

Gui == "gui"
Cli == "cli"

\* serverFile and enrolled are the ones of GuiBackend.
Devices == INSTANCE Profiles WITH Procs <- {Gui, Cli}
Router == INSTANCE ProcessRouter

deviceVars == <<up, memory, profilesFile, job, made, second, launches, faults, promised, sound,
                deleted>>
routerVars == <<rules, rulesFile, cache, cacheAge, rulesAge>>
guiOnly == <<handlers, machine, embedded, daemon, losses, history>>
vars == <<guiVars, deviceVars, routerVars, served>>

\* The event loop of the GUI can run another handler or task.
Turn == Gui \in up /\ job[Gui] = Devices!Idle
Request == served < MaxServed /\ served' = served + 1

----------------------------------------------------------------------------------

LaunchGui == Devices!Launch(Gui) /\ Router!Load /\ UNCHANGED <<guiOnly, served>>
LaunchCli == Devices!Launch(Cli) /\ UNCHANGED <<guiOnly, routerVars, served>>

QuitGui == Devices!Quit(Gui, Saving) /\ ProcessEnds /\ UNCHANGED <<routerVars, served>>
QuitCli == Devices!Quit(Cli, FALSE) /\ UNCHANGED <<guiOnly, routerVars, served>>

\* A profile is asked for in the GUI, when its loop is free, or on the command line.
AskForProfile(p) ==
    /\ Request
    /\ p = Gui => LoopFree
    /\ Devices!Ask(p)
    /\ UNCHANGED <<guiOnly, routerVars>>

SaveProfile(p) == Devices!Work(p) /\ UNCHANGED <<guiOnly, routerVars, served>>

Tunnel(r) ==
    /\ Turn /\ Request
    /\ \/ \E a \in Addrs, proxy \in BOOLEAN : PostConnect(r, a, proxy)
       \/ PostDisconnect(r)
    /\ UNCHANGED <<deviceVars, routerVars>>

TunnelStep(r) ==
    /\ Turn
    /\ Authorize(r) \/ ServerStarted(r) \/ Replace(r) \/ Create(r) \/ Stopped(r) \/ ClientStep(r)
    /\ UNCHANGED <<deviceVars, routerVars, served>>

\* A write of split_tunnel.json that fails is one of the faults.
Split ==
    /\ Turn /\ LoopFree /\ Request
    /\ \/ \E r \in Asked : Router!SetRules(r, TRUE) /\ UNCHANGED faults
       \/ /\ faults < MaxFaults /\ faults' = faults + 1
          /\ \E r \in Asked : Router!SetRules(r, FALSE)
       \/ Router!Scan /\ UNCHANGED faults
    /\ UNCHANGED <<guiOnly, disk, up, memory, profilesFile, job, made, second, launches, promised,
                   sound, deleted>>

Tick == Turn /\ LoopFree /\ Router!Tick /\ UNCHANGED <<guiVars, deviceVars, served>>

Init == GuiInit /\ Devices!Init /\ Router!Init /\ served = 0

Next ==
    \/ LaunchGui \/ LaunchCli \/ QuitGui \/ QuitCli
    \/ \E p \in {Gui, Cli} : AskForProfile(p) \/ SaveProfile(p)
    \/ \E r \in Requests : Tunnel(r) \/ TunnelStep(r)
    \/ Split \/ Tick

Spec == Init /\ [][Next]_vars

----------------------------------------------------------------------------------
(* Properties: those of the parts, in the program they make up *)

\* The types of the three parts, and: nothing of the GUI is left when its process is gone.
TypeOK ==
    /\ GuiTypeOK /\ Devices!TypeOK /\ Router!TypeOK
    /\ served \in 0..MaxServed
    /\ Gui \notin up => active = Nobody /\ embedded = NoServer /\ Quiet

\* Profiles!DevicesKept, while the GUI and the command line share the files.
DevicesKept == Devices!DevicesKept

\* Profiles!PeersKept: neither a new profile nor a request to connect drops a key from
\* server.json, as long as one process at a time writes it.
PeersKept == Devices!PeersKept

\* ProcessRouter!ListingSettles, through restarts and failed writes.
ListingSettles == Router!ListingSettles
==================================================================================
