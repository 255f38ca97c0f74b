-------------------------------- MODULE Exec --------------------------------
(***************************************************************************)
(* Running commands: exec and exec_internal (engine/containerd/exec.rs),   *)
(* the semaphore, the pool of networks and the register of dangling        *)
(* resources they share, and Client::shutdown (engine/containerd/mod.rs).  *)
(*                                                                         *)
(* An exec runs the containers of a tree: the command and, below it, its   *)
(* services and theirs.  It takes a lease, a permit and a network, starts  *)
(* the containers from the leaves up, waits for the command, stops and     *)
(* commits the containers from the command down, and gives everything      *)
(* back.  When it fails or is aborted on the way only the permit comes     *)
(* back; the rest is left to the shutdown, which cleans what was           *)
(* registered.                                                             *)
(***************************************************************************)
EXTENDS Naturals, FiniteSets

CONSTANTS
    Exec,        \* calls of exec and exec_get_output
    Container,   \* the containers of all of them
    ExecOf,      \* the exec a container belongs to
    User,        \* the container a service is attached to, NoContainer for a command
    NoContainer,
    Shape,       \* the abstract topology of an exec's containers
    Jobs,        \* --jobs
    Tries,       \* attempts create_network makes
    Faulty,      \* execs that meet failing calls, or whose command fails
    Abortable    \* execs whose node may be aborted

Network == Exec \X (1..Tries)
NoNetwork == <<>>

ASSUME ExecAssumption ==
    /\ IsFiniteSet(Exec)
    /\ ExecOf \in [Container -> Exec]
    /\ User \in [Container -> Container \cup {NoContainer}]
    /\ NoContainer \notin Container
    /\ Jobs \in Nat \ {0}
    /\ Tries \in Nat \ {0}
    /\ Faulty \subseteq Exec /\ Abortable \subseteq Exec

VARIABLES
    phase,    \* what an exec is at
    permits,  \* exec_lock: the permits that are free
    pool,     \* free_networks
    net,      \* the network an exec was given
    tries,    \* the requests for a network an exec has made
    network,  \* network namespaces in the sidecar
    leases,   \* leases in containerd
    dangling, \* what Client.dangling lists
    proc,     \* the process of a container
    ready,    \* containers whose spinup_topology returned
    down,     \* how far spindown_topology is with a container
    gone      \* the client is shut down

vars == <<phase, permits, pool, net, tries, network, leases, dangling,
          proc, ready, down, gone>>
resources == <<pool, net, tries, network>>
containers == <<proc, ready, down>>

Final == {"done", "failed", "aborted"}
Holding == {"network", "creating", "spinup", "running", "stopping"}
Phase == {"idle", "permit", "unleasing"} \cup Holding \cup Final

ContainersOf(e) == {c \in Container : ExecOf[c] = e}
Services(c) == {d \in Container : User[d] = c}
IsCommand(c) == User[c] = NoContainer

Init ==
    /\ phase = [e \in Exec |-> "idle"]
    /\ permits = Jobs
    /\ pool = {}
    /\ net = [e \in Exec |-> NoNetwork]
    /\ tries = [e \in Exec |-> 0]
    /\ network = [n \in Network |-> "none"]
    /\ leases = {}
    /\ dangling = [leases |-> {}, networks |-> {}, containers |-> {}]
    /\ proc = [c \in Container |-> "none"]
    /\ ready = {}
    /\ down = [c \in Container |-> "up"]
    /\ gone = FALSE

At(e, p) == phase[e] = p /\ ~gone
To(e, p) == phase' = [phase EXCEPT ![e] = p]

-----------------------------------------------------------------------------
(* new_lease: registered first, then created.                               *)
NewLease(e) ==
    /\ At(e, "idle")
    /\ dangling' = [dangling EXCEPT !.leases = @ \cup {e}]
    /\ leases' = leases \cup {e}
    /\ To(e, "permit")
    /\ UNCHANGED <<permits, resources, containers, gone>>

AcquirePermit(e) ==
    /\ At(e, "permit")
    /\ permits > 0
    /\ permits' = permits - 1
    /\ To(e, "network")
    /\ UNCHANGED <<resources, leases, dangling, containers, gone>>

-----------------------------------------------------------------------------
(* get_network.                                                             *)

Fitting(e) == {n \in pool : Shape[n[1]] = Shape[e]}

ReuseNetwork(e) ==
    /\ At(e, "network")
    /\ \E n \in Fitting(e) :
          /\ pool' = pool \ {n}
          /\ net' = [net EXCEPT ![e] = n]
    /\ To(e, "spinup")
    /\ UNCHANGED <<permits, tries, network, leases, dangling, containers, gone>>

Request(e) ==
    /\ tries[e] < Tries
    /\ tries' = [tries EXCEPT ![e] = @ + 1]
    /\ network' = [network EXCEPT ![<<e, tries[e] + 1>>] = "requested"]

RequestNetwork(e) ==
    /\ At(e, "network")
    /\ Fitting(e) = {}
    /\ Request(e)
    /\ To(e, "creating")
    /\ UNCHANGED <<permits, pool, net, leases, dangling, containers, gone>>

(* The sidecar creates it, whether or not anybody still waits for it.       *)
CreateNetwork(n) ==
    /\ network[n] = "requested"
    /\ network' = [network EXCEPT ![n] = "exists"]
    /\ UNCHANGED <<phase, permits, pool, net, tries, leases, dangling, containers, gone>>

(* Mutant: a new network is not registered.                                 *)
NetworkUnregistered(e) ==
    LET n == <<e, tries[e]>> IN
    /\ At(e, "creating")
    /\ network[n] = "exists"
    /\ net' = [net EXCEPT ![e] = n]
    /\ To(e, "spinup")
    /\ UNCHANGED <<permits, pool, tries, network, leases, dangling, containers, gone>>

(* The answer arrives, and only now the network is registered.              *)
NetworkAnswered(e) ==
    LET n == <<e, tries[e]>> IN
    /\ At(e, "creating")
    /\ network[n] = "exists"
    /\ net' = [net EXCEPT ![e] = n]
    /\ dangling' = [dangling EXCEPT !.networks = @ \cup {n}]
    /\ To(e, "spinup")
    /\ UNCHANGED <<permits, pool, tries, network, leases, containers, gone>>

(* The sidecar fails half-way, or the connection breaks: another attempt.   *)
RetryNetwork(e) ==
    /\ At(e, "creating") /\ e \in Faulty
    /\ Request(e)
    /\ UNCHANGED <<phase, permits, pool, net, leases, dangling, containers, gone>>

-----------------------------------------------------------------------------
(* spinup_topology.                                                         *)

(* create_container: all services being up, the container is registered and *)
(* created.                                                                 *)
CreateContainer(c) ==
    /\ At(ExecOf[c], "spinup")
    /\ proc[c] = "none"
    /\ Services(c) \subseteq ready
    /\ dangling' = [dangling EXCEPT !.containers = @ \cup {c}]
    /\ proc' = [proc EXCEPT ![c] = "created"]
    /\ UNCHANGED <<phase, permits, resources, leases, ready, down, gone>>

StartService(c) ==
    /\ At(ExecOf[c], "spinup")
    /\ ~IsCommand(c)
    /\ proc[c] = "created"
    /\ proc' = [proc EXCEPT ![c] = "running"]
    /\ UNCHANGED <<phase, permits, resources, leases, dangling, ready, down, gone>>

(* The command is running: spinup_topology returns.                         *)
StartCommand(c) ==
    /\ At(ExecOf[c], "spinup")
    /\ IsCommand(c)
    /\ proc[c] = "created"
    /\ proc' = [proc EXCEPT ![c] = "running"]
    /\ ready' = ready \cup {c}
    /\ To(ExecOf[c], "running")
    /\ UNCHANGED <<permits, resources, leases, dangling, down, gone>>

(* wait_for_command_success: the health check passes.                       *)
HealthcheckPasses(c) ==
    /\ At(ExecOf[c], "spinup")
    /\ ~IsCommand(c)
    /\ c \notin ready
    /\ proc[c] = "running"
    /\ ready' = ready \cup {c}
    /\ UNCHANGED <<phase, permits, resources, leases, dangling, proc, down, gone>>

-----------------------------------------------------------------------------
(* Every way out drops the permit, if it is held.  The other resources      *)
(* stay as they are.                                                        *)
ReleasePermit(e, p) ==
    /\ To(e, p)
    /\ permits' = IF phase[e] \in Holding THEN permits + 1 ELSE permits

(* Mutant: a failed exec puts its network back.                             *)
GiveUpNetwork(e, p) ==
    /\ pool' = IF net[e] = NoNetwork \/ phase[e] \notin Holding THEN pool ELSE pool \cup {net[e]}
    /\ ReleasePermit(e, p)
    /\ UNCHANGED <<net, tries, network, leases, dangling, containers, gone>>

(* Mutant: the permit is given back twice.                                  *)
GiveUpTwice(e, p) ==
    /\ To(e, p)
    /\ permits' = permits + 1
    /\ UNCHANGED <<resources, leases, dangling, containers, gone>>

GiveUp(e, p) ==
    /\ ReleasePermit(e, p)
    /\ UNCHANGED <<resources, leases, dangling, containers, gone>>

(* The service's timeout passes: try_join_all drops what the other services *)
(* are at, and the exec fails.                                              *)
HealthcheckTimeout(c) ==
    /\ At(ExecOf[c], "spinup")
    /\ ~IsCommand(c) /\ c \notin ready
    /\ proc[c] \in {"running", "exited"}
    /\ GiveUp(ExecOf[c], "failed")

(* A call fails, or the command exits with another code than 0.             *)
Fail(e) ==
    /\ e \in Faulty /\ ~gone
    /\ phase[e] \notin Final \cup {"idle"}
    /\ GiveUp(e, "failed")

(* The scheduler aborts the node.                                           *)
Abort(e) ==
    /\ e \in Abortable /\ ~gone
    /\ phase[e] \notin Final \cup {"idle"}
    /\ GiveUp(e, "aborted")

-----------------------------------------------------------------------------
(* A process ends by itself, or on the SIGINT it was sent.                  *)
Exits(c) ==
    /\ proc[c] = "running"
    /\ proc' = [proc EXCEPT ![c] = "exited"]
    /\ UNCHANGED <<phase, permits, resources, leases, dangling, ready, down, gone>>

(* exec_internal: wait_for_exit of the command.                             *)
CommandExited(c) ==
    /\ At(ExecOf[c], "running")
    /\ IsCommand(c)
    /\ proc[c] = "exited"
    /\ To(ExecOf[c], "stopping")
    /\ UNCHANGED <<permits, resources, leases, dangling, containers, gone>>

-----------------------------------------------------------------------------
(* spindown_topology: a container, then its services one after the other,   *)
(* then its commit.                                                         *)

(* Mutant: services are stopped side by side with what uses them.           *)
InterruptAll(c) ==
    /\ At(ExecOf[c], "stopping")
    /\ down[c] = "up"
    /\ down' = [down EXCEPT ![c] = "signalled"]
    /\ UNCHANGED <<phase, permits, resources, leases, dangling, proc, ready, gone>>

Interrupt(c) ==
    /\ At(ExecOf[c], "stopping")
    /\ down[c] = "up"
    /\ \A u \in Container : c \in Services(u) =>
          /\ down[u] = "stopped"
          /\ \A d \in Services(u) : down[d] \in {"up", "committed"}
    /\ down' = [down EXCEPT ![c] = "signalled"]
    /\ UNCHANGED <<phase, permits, resources, leases, dangling, proc, ready, gone>>

(* Mutant: the signal that is sent is the same again.                       *)
InterruptAgain(c) ==
    /\ At(ExecOf[c], "stopping")
    /\ down[c] = "signalled"
    /\ proc[c] = "running"
    /\ UNCHANGED vars

(* Ten seconds pass: SIGKILL.                                               *)
Kill(c) ==
    /\ At(ExecOf[c], "stopping")
    /\ down[c] = "signalled"
    /\ proc[c] = "running"
    /\ proc' = [proc EXCEPT ![c] = "exited"]
    /\ UNCHANGED <<phase, permits, resources, leases, dangling, ready, down, gone>>

Stopped(c) ==
    /\ At(ExecOf[c], "stopping")
    /\ down[c] = "signalled"
    /\ proc[c] = "exited"
    /\ down' = [down EXCEPT ![c] = "stopped"]
    /\ UNCHANGED <<phase, permits, resources, leases, dangling, proc, ready, gone>>

Commit(c) ==
    /\ At(ExecOf[c], "stopping")
    /\ down[c] = "stopped"
    /\ \A d \in Services(c) : down[d] = "committed"
    /\ down' = [down EXCEPT ![c] = "committed"]
    /\ UNCHANGED <<phase, permits, resources, leases, dangling, proc, ready, gone>>

-----------------------------------------------------------------------------
(* Mutant: the network is not put back.                                     *)
ReturnPermitOnly(e) ==
    /\ At(e, "stopping")
    /\ \A c \in ContainersOf(e) : down[c] = "committed"
    /\ permits' = permits + 1
    /\ To(e, "unleasing")
    /\ UNCHANGED <<resources, leases, dangling, containers, gone>>

(* exec_internal returns, spindown_topology having come back up to the      *)
(* command: the network goes to the pool, then the permit is dropped.       *)
Return(e) ==
    /\ At(e, "stopping")
    /\ \A c \in ContainersOf(e) : down[c] = "committed"
    /\ pool' = pool \cup {net[e]}
    /\ permits' = permits + 1
    /\ To(e, "unleasing")
    /\ UNCHANGED <<net, tries, network, leases, dangling, containers, gone>>

DropLease(e) ==
    /\ At(e, "unleasing")
    /\ leases' = leases \ {e}
    /\ To(e, "done")
    /\ UNCHANGED <<permits, resources, dangling, containers, gone>>

(* Client::shutdown, all nodes being over: what is registered is deleted,   *)
(* killed and torn down.                                                    *)
Shutdown ==
    /\ ~gone
    /\ \A e \in Exec : phase[e] \in Final \cup {"idle"}
    /\ gone' = TRUE
    /\ leases' = leases \ dangling.leases
    /\ network' = [n \in Network |->
                     IF n \in dangling.networks THEN "deleted" ELSE network[n]]
    /\ proc' = [c \in Container |->
                  IF c \in dangling.containers /\ proc[c] = "running"
                    THEN "exited" ELSE proc[c]]
    /\ UNCHANGED <<phase, permits, pool, net, tries, dangling, ready, down>>

-----------------------------------------------------------------------------
ExecStep(e) ==
    \/ NewLease(e) \/ AcquirePermit(e) \/ ReuseNetwork(e) \/ RequestNetwork(e)
    \/ NetworkAnswered(e) \/ Return(e) \/ DropLease(e)

ContainerStep(c) ==
    \/ CreateContainer(c) \/ StartService(c) \/ StartCommand(c)
    \/ HealthcheckPasses(c) \/ HealthcheckTimeout(c) \/ CommandExited(c)
    \/ Interrupt(c) \/ Kill(c) \/ Stopped(c) \/ Commit(c)

Next ==
    \/ \E e \in Exec : ExecStep(e) \/ RetryNetwork(e) \/ Fail(e) \/ Abort(e)
    \/ \E c \in Container : ContainerStep(c) \/ Exits(c)
    \/ \E n \in Network : CreateNetwork(n)
    \/ Shutdown
    \/ gone /\ UNCHANGED vars

Spec == Init /\ [][Next]_vars

(* Calls are answered, timers fire, commands (but not services) end.        *)
FairSpec ==
    /\ Spec
    /\ \A e \in Exec : WF_vars(ExecStep(e))
    /\ \A c \in Container :
          WF_vars(ContainerStep(c)) /\ (IsCommand(c) => WF_vars(Exits(c)))
    /\ \A n \in Network : WF_vars(CreateNetwork(n))
    /\ WF_vars(Shutdown)

-----------------------------------------------------------------------------
Running(e) == \E c \in ContainersOf(e) : proc[c] = "running"

TypeOK ==
    /\ phase \in [Exec -> Phase]
    /\ permits \in 0..Jobs
    /\ pool \subseteq Network
    /\ net \in [Exec -> Network \cup {NoNetwork}]
    /\ tries \in [Exec -> 0..Tries]
    /\ network \in [Network -> {"none", "requested", "exists", "deleted"}]
    /\ leases \subseteq Exec
    /\ dangling \in [leases : SUBSET Exec, networks : SUBSET Network,
                     containers : SUBSET Container]
    /\ proc \in [Container -> {"none", "created", "running", "exited"}]
    /\ ready \subseteq Container
    /\ down \in [Container -> {"up", "signalled", "stopped", "committed"}]
    /\ gone \in BOOLEAN

(* A network is in one exec's use at a time, and a free network is in       *)
(* nobody's: not even in that of a container left behind by an exec that    *)
(* failed or was aborted (get_network and the pool, exec.rs).               *)
NetworkExclusive ==
    \A e \in Exec : Running(e) =>
        /\ net[e] \notin pool
        /\ \A f \in Exec \ {e} : net[f] = net[e] => ~Running(f)

(* A container only ever runs on services that were found healthy, and no   *)
(* service is told to stop while a container that uses it may still run.    *)
ServicesOutlive ==
    \A c, d \in Container : User[d] = c =>
        /\ proc[c] # "none" => d \in ready
        /\ proc[c] = "running" => down[d] = "up"
        /\ d \in ready => proc[d] \in {"running", "exited"}

(* What an exec that succeeded hands out is at rest: its containers have    *)
(* exited before they were committed, its lease is gone, and its network is *)
(* free or another exec's.                                                  *)
DoneIsClean ==
    \A e \in Exec : phase[e] \in {"unleasing", "done"} =>
        /\ ~Running(e)
        /\ phase[e] = "done" => e \notin leases
        /\ net[e] \in pool \/ \E f \in Exec \ {e} : net[f] = net[e]

(* Whatever failed or was aborted before, after the shutdown no process of  *)
(* this client runs, no lease is left, and no network it was ever answered  *)
(* exists (Client::shutdown, mod.rs).                                       *)
ShutdownIsClean ==
    gone =>
        /\ leases = {}
        /\ \A c \in Container : proc[c] # "running"
        /\ \A e \in Exec : net[e] # NoNetwork => network[net[e]] = "deleted"

(* Every exec ends and gives way to the shutdown, however few permits there *)
(* are and whoever fails or is aborted while holding one.                   *)
ShutdownReached == <>gone
=============================================================================
