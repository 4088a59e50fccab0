----------------------------- MODULE MCLiveness -----------------------------
(***************************************************************************)
(* The liveness properties in one run: the agent controller, the event     *)
(* stream and the cluster.  They share no state here, so every behaviour   *)
(* exercises one of them, chosen at the start by focus.                    *)
(***************************************************************************)
EXTENDS AgentController

CONSTANTS Events, NoEvent, Writers, Readers, memory, runtime, \* of EventStream
          Servers, Cids, Clients                              \* of Cluster

VARIABLES
    focus,  \* the part this behaviour exercises
    \* of EventStream
    curId, files, orphans, pages, mem, writer, added, queue, disp, status, keys, inbox,
    delivered, seen, closer, reader, crashes, failures,
    \* of Cluster
    up, key, hosts, at, chan, tasks, refresh, events, clusterFaults, joined, stops

Stream == INSTANCE EventStream WITH
    EarlyReaders <- Readers, Subs <- {memory, runtime}, SubOrder <- <<memory, runtime>>,
    Joiners <- {}, Leavers <- {}, CacheSize <- 2, MayClose <- FALSE,
    MaxId <- 1, MaxCrashes <- 0, MaxFailures <- 0

Cluster == INSTANCE Cluster WITH
    SlowStarts <- FALSE, MaxFaults <- 1, MaxJoins <- 2, MaxStops <- 1, MaxEvents <- 0,
    MaxQueue <- 1, faults <- clusterFaults

streamVars == <<curId, files, orphans, pages, mem, writer, added, queue, disp, status, keys,
                inbox, delivered, seen, closer, reader, crashes, failures>>
clusterVars == <<up, key, hosts, at, chan, tasks, refresh, events, clusterFaults, joined,
                 stops>>
liveVars == <<focus, vars, streamVars, clusterVars>>

LiveInit ==
    /\ focus \in {"agent", "stream", "cluster"}
    /\ Init /\ Stream!Init /\ Cluster!ClusterInit
    /\ focus # "agent" => Len(stream) = 1

OfAgent(A) == focus = "agent" /\ A /\ UNCHANGED <<focus, streamVars, clusterVars>>
OfStream(A) == focus = "stream" /\ A /\ UNCHANGED <<focus, vars, clusterVars>>
OfCluster(A) == focus = "cluster" /\ A /\ UNCHANGED <<focus, vars, streamVars>>

LiveNext == OfAgent(Next) \/ OfStream(Stream!Next) \/ OfCluster(Cluster!ClusterNext)

(* Fairness, Stream!Fairness and Cluster!ClusterFairness, each in the      *)
(* behaviours that exercise its part.                                      *)
LiveFairness ==
    /\ WF_liveVars(OfAgent(ControllerNext)) /\ WF_liveVars(OfAgent(LlmNext))
    /\ WF_liveVars(OfAgent(ApplyStatusError)) /\ WF_liveVars(OfAgent(RuntimeTakes))
    /\ WF_liveVars(OfAgent(RuntimeFinishes \/ RuntimeRaises))
    /\ WF_liveVars(OfAgent(MemoryAnswers \/ MemoryRaises))
    /\ \A w \in Writers : WF_liveVars(OfStream(Stream!BeginWrite(w) \/ Stream!FinishWrite(w)
                                        \/ Stream!StoreCachePage(w) \/ Stream!PutOnQueue(w)))
    /\ WF_liveVars(OfStream(Stream!QueueThread))
    /\ \A s \in {memory, runtime} : WF_liveVars(OfStream(Stream!RunCallback(s)))
    /\ \A s \in Servers : /\ WF_liveVars(OfCluster(Cluster!Listen(s)))
                          /\ WF_liveVars(OfCluster(Cluster!TaskStep(s)))
    /\ \A s \in Servers, k \in Cids : WF_liveVars(OfCluster(Cluster!FindStopped(s, k)))
    /\ \A k \in Cids : WF_liveVars(OfCluster(Cluster!KeyExpires(k)))

LiveSpec == LiveInit /\ [][LiveNext]_liveVars /\ LiveFairness

(* Every event that was given an id reaches every subscriber               *)
(* (EventStream.tla).                                                      *)
AddedEventuallyDelivered == Stream!AddedEventuallyDelivered

(* A connected client is eventually served by some server, whatever server *)
(* crashed (Cluster.tla).                                                  *)
ClientEventuallyServed == Cluster!ClientEventuallyServed
=============================================================================
