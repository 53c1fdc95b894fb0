------------------------------ MODULE MCServer ------------------------------
(***************************************************************************)
(* What is made and freed while others use it, one part at a time: a       *)
(* behaviour is one of the component's own, the other rests.               *)
(*                                                                         *)
(*   ring     one viewer of one ring, its writer on the same worker        *)
(*   server   main() with up to two workers, over a reload                 *)
(***************************************************************************)
EXTENDS RecycleArray, Server

VARIABLE part

lifetimeVars == <<part, vars, serverVars>>

(* A part that rests has one initial state.                                *)
LifetimeInit ==
  /\ part \in {"ring", "server"}
  /\ Init
  /\ ServerInit /\ (part # "server" => worker_threads = Largest(WorkerThreads))

LifetimeNext ==
  /\ \/ part = "ring" /\ Next /\ UNCHANGED <<serverVars>>
     \/ part = "server" /\ ServerNext /\ UNCHANGED <<vars>>
  /\ UNCHANGED part

(* The fairness of FairSpec and ServerFairness, of the part that is        *)
(* checked.                                                                *)
LifetimeFairness ==
  /\ WF_vars(part = "ring" /\ PutCount)
  /\ \A r \in Readers : WF_vars(part = "ring" /\ Get(r))
  /\ WF_serverVars(part = "server" /\ Main)
  /\ \A m \in ManagerIds, w \in Groups :
       /\ WF_serverVars(part = "server" /\ Worker(m, w))
       /\ SF_serverVars(part = "server" /\ Worker(m, w)
                          /\ group'[m][w].sessions < group[m][w].sessions)

LifetimeSpec == LifetimeInit /\ [][LifetimeNext]_lifetimeVars /\ LifetimeFairness
=============================================================================
