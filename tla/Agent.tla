------------------------------- MODULE Agent -------------------------------
(***************************************************************************)
(* The goplane process: main.go, the reader of the configuration file      *)
(* (config/serve.go), the dataplane goroutine (netlink/dataplane.go) and   *)
(* the life of the virtual networks it runs (netlink/virtualnetwork.go).   *)
(*                                                                         *)
(* All channels between main, the reader and the dataplane are unbuffered: *)
(* a send is a rendezvous, one action in which both goroutines move.  Only *)
(* sigCh has a buffer, of one signal.                                      *)
(***************************************************************************)
EXTENDS Integers

CONSTANTS
  RDs,        \* the route distinguishers that name virtual networks
  AgentFiles, \* what the configuration file may hold when it is read
  Gens,       \* bound: networks of the same RD that exist at the same time
  Fails       \* netlink, gRPC or the sniffing of packets may fail

AgentFileType == [readable : BOOLEAN, bgp : BOOLEAN, netlink : BOOLEAN, vns : SUBSET RDs]

ASSUME AgentFilesAssumption == AgentFiles \subseteq AgentFileType
ASSUME GensAssumption  == 0 \notin Gens
ASSUME FailsAssumption == Fails \in BOOLEAN

VARIABLES
  agent,    \* the process: up, or how it ended
  sigCh,    \* sigCh holds a SIGHUP
  mpc,      \* main: at its select, or sending to reloadCh
  adds,     \* virtual networks main has still to add
  dels,     \* ... and to delete
  d,        \* main's d: the virtual networks of the current configuration
  bgp,      \* StartBgp has been called
  rpc,      \* the reader: waiting, reading, sending to bgpConfigCh or to configCh
  file,     \* the configuration the reader holds
  dpc,      \* the dataplane: not created, not ready, in its select loop, returned
  ready,    \* d.config, taken from the first file, names a router id and an AS
  tomb,     \* d.t: alive, dying or dead
  vnMap,    \* d.vnMap: the network of each RD, 0 if there is none
  vn,       \* the networks: their goroutine and their own tomb
  vrfs,     \* the VRFs of the BGP server
  failed    \* history: the dataplane or a goroutine of a network has failed

mainVars   == <<mpc, adds, dels, d, bgp>>
readerVars == <<rpc, file>>
planeVars  == <<dpc, ready, vnMap>>
netVars    == <<tomb, vn, vrfs, failed>>
agentVars == <<agent, sigCh, mainVars, readerVars, planeVars, netVars>>

NoFile == [readable |-> FALSE, bgp |-> FALSE, netlink |-> FALSE, vns |-> {}]
Free   == [pc |-> "none", stop |-> FALSE]

AgentTypeOK ==
  /\ agent \in {"up", "badFile", "nilDataplane", "nilNetwork", "deadTomb", "vrfRefused"}
  /\ sigCh \in BOOLEAN /\ bgp \in BOOLEAN /\ ready \in BOOLEAN /\ failed \in BOOLEAN
  /\ mpc \in {"select", "reload"}
  /\ d \in SUBSET RDs /\ adds \in SUBSET d /\ dels \in SUBSET (RDs \ d)
  /\ rpc \in {"wait", "read", "bgp", "config"} /\ file \in AgentFileType
  /\ dpc \in {"none", "waiting", "serving", "stopped"}
  /\ tomb \in {"alive", "dying", "dead"}
  /\ vnMap \in [RDs -> Gens \cup {0}]
  /\ vn \in [RDs -> [Gens -> [pc : {"none", "setup", "serving"}, stop : BOOLEAN]]]
  /\ vrfs \in SUBSET RDs

Up == agent = "up"
Ends(how) == agent' = how /\ UNCHANGED <<sigCh, mainVars, readerVars, planeVars, netVars>>

-----------------------------------------------------------------------------
\* The configuration file reader: ReadConfigfileServe

ReadFile ==
  /\ Up /\ rpc = "read"
  /\ \E f \in AgentFiles :
       \/ /\ f.readable
          /\ file' = f
          /\ rpc' = IF f.bgp THEN "bgp" ELSE "config"
          /\ UNCHANGED <<agent, sigCh, mainVars, planeVars, netVars>>
       \/ ~f.readable /\ Ends("badFile")                    \* log.Fatal

-----------------------------------------------------------------------------
\* The main goroutine

MainSelects == Up /\ mpc = "select" /\ adds = {} /\ dels = {}

MainTakesSignal ==
  /\ MainSelects /\ sigCh
  /\ sigCh' = FALSE /\ mpc' = "reload"
  /\ UNCHANGED <<agent, adds, dels, d, bgp, readerVars, planeVars, netVars>>

MainSendsReload ==
  /\ Up /\ mpc = "reload" /\ rpc = "wait"
  /\ mpc' = "select" /\ rpc' = "read"
  /\ UNCHANGED <<agent, sigCh, adds, dels, d, bgp, file, planeVars, netVars>>

MainTakesBgpConfig ==
  /\ MainSelects /\ rpc = "bgp"
  /\ rpc' = "config" /\ bgp' = TRUE
  /\ UNCHANGED <<agent, sigCh, mpc, adds, dels, d, file, planeVars, netVars>>

UpdateConfig(new) == adds' = new \ d /\ dels' = d \ new

NewDataplane ==
  IF dpc = "none" /\ file.netlink THEN dpc' = "waiting" /\ ready' = file.bgp
                                  ELSE UNCHANGED <<dpc, ready>>

MainTakesConfig ==
  /\ MainSelects /\ rpc = "config"
  /\ rpc' = "wait" /\ file' = NoFile
  /\ NewDataplane
  /\ UpdateConfig(file.vns)
  /\ d' = file.vns
  /\ UNCHANGED <<agent, sigCh, mpc, bgp, vnMap, netVars>>

\* AddVirtualNetwork on a nil Dataplaner, of a file whose dataplane type is unknown.
NoDataplane ==
  /\ Up /\ adds \cup dels # {} /\ dpc = "none"
  /\ Ends("nilDataplane")

\* addVnCh: NewVirtualNetwork, and its Serve as a goroutine of the tomb d.t.
MainAdds(r) ==
  /\ Up /\ r \in adds /\ dpc = "serving"
  /\ \/ tomb = "dead" /\ Ends("deadTomb")
     \/ /\ tomb # "dead"
        /\ adds' = adds \ {r}
        /\ \E g \in Gens :
             /\ vn[r][g] = Free /\ vnMap[r] # g
             /\ vn' = [vn EXCEPT ![r][g] = [pc |-> "setup", stop |-> FALSE]]
             /\ vnMap' = [vnMap EXCEPT ![r] = g]
        /\ UNCHANGED <<agent, sigCh, mpc, dels, d, bgp, readerVars, dpc, ready, tomb, vrfs, failed>>

\* delVnCh, after all additions
KeepInMap(r) == UNCHANGED vnMap                \* mutant: the network stays in the map
DropFromMap(r) == vnMap' = [vnMap EXCEPT ![r] = 0]

StopNothing(r) == UNCHANGED vn                 \* mutant: Kill is not called
StopNetwork(r) ==
  IF vn[r][vnMap[r]] = Free THEN UNCHANGED vn
                            ELSE vn' = [vn EXCEPT ![r][vnMap[r]] = [pc |-> @.pc, stop |-> TRUE]]

MainDeletes(r) ==
  /\ Up /\ adds = {} /\ r \in dels /\ dpc = "serving"
  /\ \/ vnMap[r] = 0 /\ Ends("nilNetwork")
     \/ /\ vnMap[r] # 0
        /\ dels' = dels \ {r}
        /\ StopNetwork(r) /\ DropFromMap(r)
        /\ UNCHANGED <<agent, sigCh, mpc, adds, d, bgp, readerVars, dpc, ready, tomb, vrfs, failed>>

-----------------------------------------------------------------------------
\* The dataplane goroutine: the rest of Dataplane.Serve

\* The loop that waits for the BGP server looks at the first configuration only.
DataplaneStarts ==
  /\ Up /\ dpc = "waiting" /\ ready
  /\ \/ dpc' = "serving" /\ UNCHANGED failed
     \/ Fails /\ dpc' = "stopped" /\ failed' = TRUE
  /\ UNCHANGED <<agent, sigCh, mainVars, readerVars, ready, vnMap, tomb, vn, vrfs>>

DataplaneStops ==
  /\ Up /\ dpc = "serving" /\ tomb # "alive"
  /\ dpc' = "stopped"
  /\ UNCHANGED <<agent, sigCh, mainVars, readerVars, ready, vnMap, netVars>>

-----------------------------------------------------------------------------
\* A virtual network: VirtualNetwork.Serve

\* The interfaces, then AddVRF and the multicast route: an error of these is log.Fatal.
SecondVrfAdded(r) == bgp                     \* mutant: adding a VRF twice is no error
VrfAdded(r) == bgp /\ r \notin vrfs
VnStarts(r, g) ==
  /\ Up /\ vn[r][g].pc = "setup"
  /\ \/ /\ VrfAdded(r)
        /\ vrfs' = vrfs \cup {r}
        /\ vn' = [vn EXCEPT ![r][g] = [pc |-> "serving", stop |-> @.stop]]
        /\ UNCHANGED <<agent, sigCh, mainVars, readerVars, planeVars, tomb, failed>>
     \/ ~VrfAdded(r) /\ Ends("vrfRefused")

\* The goroutine returns to d.t: an error, or the last goroutine, kills the tomb.
Others(r, g) == {x \in RDs \X Gens : x # <<r, g>> /\ vn[x[1]][x[2]].pc # "none"}
VnReturns(r, g, err) ==
  /\ vn' = [vn EXCEPT ![r][g] = Free]
  /\ tomb' = IF Others(r, g) = {} THEN "dead"
             ELSE IF err /\ tomb = "alive" THEN "dying" ELSE tomb

\* n.t is dying: because of Stop, or because one of its own goroutines failed.
LeaveVrf(r) == UNCHANGED vrfs                  \* mutant: modVrf(withdraw) is not called
DeleteVrf(r) == vrfs' = vrfs \ {r}
VnStops(r, g) ==
  /\ Up /\ vn[r][g].pc = "serving" /\ vn[r][g].stop
  /\ DeleteVrf(r)
  /\ VnReturns(r, g, FALSE)
  /\ UNCHANGED <<agent, sigCh, mainVars, readerVars, planeVars, failed>>

\* monitorBest, monitorNetlink or sniffPkt returns an error to n.t.
VnHelperFails(r, g) ==
  /\ Up /\ Fails /\ vn[r][g].pc = "serving" /\ ~vn[r][g].stop
  /\ vn' = [vn EXCEPT ![r][g] = [pc |-> @.pc, stop |-> TRUE]] /\ failed' = TRUE
  /\ UNCHANGED <<agent, sigCh, mainVars, readerVars, planeVars, tomb, vrfs>>

\* Serve returns an error: while it sets up the interfaces, or from modConnMap, modFdb,
\* flood or modPath.  The VRF stays.
VnFails(r, g) ==
  /\ Up /\ Fails /\ vn[r][g].pc # "none"
  /\ VnReturns(r, g, TRUE) /\ failed' = TRUE
  /\ UNCHANGED <<agent, sigCh, mainVars, readerVars, planeVars, vrfs>>

-----------------------------------------------------------------------------
\* signal.Notify drops a signal that finds the channel full.
OperatorSignals ==
  /\ Up /\ ~sigCh
  /\ sigCh' = TRUE
  /\ UNCHANGED <<agent, mainVars, readerVars, planeVars, netVars>>

Ended == ~Up /\ UNCHANGED agentVars

AgentInit ==
  /\ agent = "up" /\ sigCh = FALSE
  /\ mpc = "reload" /\ adds = {} /\ dels = {} /\ d = {} /\ bgp = FALSE
  /\ rpc = "wait" /\ file = NoFile
  /\ dpc = "none" /\ ready = FALSE /\ tomb = "alive"
  /\ vnMap = [r \in RDs |-> 0]
  /\ vn = [r \in RDs |-> [g \in Gens |-> Free]]
  /\ vrfs = {} /\ failed = FALSE

MainStep ==
  \/ MainTakesSignal \/ MainSendsReload \/ MainTakesBgpConfig \/ MainTakesConfig \/ NoDataplane
  \/ \E r \in RDs : MainAdds(r) \/ MainDeletes(r)

VnStep(r, g) == VnStarts(r, g) \/ VnStops(r, g)

AgentNext ==
  \/ ReadFile \/ MainStep \/ DataplaneStarts \/ DataplaneStops
  \/ \E r \in RDs, g \in Gens : VnStep(r, g) \/ VnHelperFails(r, g) \/ VnFails(r, g)
  \/ OperatorSignals \/ Ended

AgentSpec == AgentInit /\ [][AgentNext]_agentVars

\* Every goroutine that can go on does; nothing is assumed of the operator and of failures.
Fairness ==
  /\ WF_agentVars(ReadFile) /\ WF_agentVars(MainStep)
  /\ WF_agentVars(DataplaneStarts) /\ WF_agentVars(DataplaneStops)
  /\ \A r \in RDs, g \in Gens : WF_agentVars(VnStep(r, g))

FairSpec == AgentSpec /\ Fairness

-----------------------------------------------------------------------------
\* Properties

\* The dataplane's map holds the networks of the configuration main works towards: what it
\* has still to delete, and not what it has still to add.  So vn.Stop() never meets a nil.
MapFollowsConfig ==
  /\ agent # "nilNetwork"
  /\ Up => {r \in RDs : vnMap[r] # 0} = (d \ adds) \cup dels

\* At most one network serves an RD, and its VRF is there as long as it does: neither the
\* old nor the new network of an RD loses its VRF to the other.
VrfHasOneNetwork ==
  \A r \in RDs, g \in Gens : vn[r][g].pc = "serving" =>
    /\ r \in vrfs
    /\ \A h \in Gens : vn[r][h].pc = "serving" => h = g

\* A network is refused its VRF (which ends the process) only if there is another one of the
\* same RD, and one of the two was told to stop: BGP was started and no VRF was left over.
RefusedOnlyByOld ==
  agent = "vrfRefused" =>
    failed \/ \E r \in RDs, g, h \in Gens :
                 /\ vn[r][g].pc = "setup" /\ vn[r][h].pc = "serving"
                 /\ vn[r][g].stop \/ vn[r][h].stop

\* A reload is carried out: main gets back to its select loop.
ReloadIsDone == (Up /\ ~MainSelects) ~> (~Up \/ MainSelects)

\* When no more reloads come, the running networks and their VRFs are the configured ones,
\* provided that the dataplane was not lost and nothing failed.
Settled == ~sigCh /\ MainSelects /\ rpc = "wait" /\ dpc = "serving" /\ ~failed
Running == {r \in RDs : \E g \in Gens : vn[r][g].pc = "serving" /\ ~vn[r][g].stop}
RunsAsConfigured == <>[]Settled => <>[](Running = d /\ vrfs = d)
=============================================================================
