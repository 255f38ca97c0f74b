----------------------------- MODULE ExecProofs -----------------------------
(***************************************************************************)
(* Proofs about Exec, for any number of execs, any trees of services, any  *)
(* number of permits and attempts.                                         *)
(*                                                                         *)
(* A network is owned by the exec it was given to until the containers of  *)
(* that exec are all committed.  The inductive invariant says that owned   *)
(* networks are nobody else's and not free, and that what was committed    *)
(* or stopped has exited; so where a process runs, its network is owned.   *)
(***************************************************************************)
EXTENDS Exec, FiniteSetTheorems, TLAPS

Holders == {e \in Exec : phase[e] \in Holding}

(* The permits that are not free are held.                                  *)
PermitsHeld == permits + Cardinality(Holders) = Jobs

Serving == {"spinup", "running", "stopping"}
Settled(e) == \A c \in ContainersOf(e) : down[c] = "committed"

Owns(e) ==
    /\ net[e] # NoNetwork
    /\ phase[e] \in Serving \/ ~Settled(e)

(* The network an exec was given is registered, and it was given one        *)
(* exactly when it got past get_network.                                    *)
NetsGiven ==
    /\ \A e \in Exec : net[e] # NoNetwork => net[e] \in dangling.networks
    /\ pool \subseteq dangling.networks
    /\ \A e \in Exec : phase[e] \in {"idle", "permit", "network", "creating"} => net[e] = NoNetwork
    /\ \A e \in Exec : phase[e] \in Serving \cup {"unleasing", "done"} => net[e] # NoNetwork

(* A request that is still to be answered is for a network nobody knows.    *)
RequestsFresh ==
    /\ \A e \in Exec : \A i \in 1..Tries :
          <<e, i>> \in dangling.networks =>
             i <= tries[e] /\ phase[e] \notin {"idle", "permit", "network"}
    /\ \A e \in Exec : phase[e] = "creating" =>
          tries[e] \in 1..Tries /\ <<e, tries[e]>> \notin dangling.networks
    /\ \A n \in dangling.networks : network[n] \in {"exists", "deleted"}

Ownership ==
    /\ \A e \in Exec : Owns(e) => net[e] \notin pool
    /\ \A e, f \in Exec : Owns(e) /\ Owns(f) /\ net[e] = net[f] => e = f

(* A container that was created has its services and is registered.         *)
Created ==
    \A c \in Container : proc[c] # "none" =>
        /\ Services(c) \subseteq ready
        /\ c \in dangling.containers
        /\ net[ExecOf[c]] # NoNetwork

Healthy == \A c \in ready : proc[c] \in {"running", "exited"}

(* Containers come down from the command, and committed means exited.       *)
ComingDown ==
    /\ \A c \in Container : down[c] \in {"stopped", "committed"} => proc[c] = "exited"
    /\ \A u, c \in Container :
          User[c] = u /\ down[c] # "up" => down[u] \in {"stopped", "committed"}

Returned ==
    \A e \in Exec : phase[e] \in {"unleasing", "done"} =>
        /\ Settled(e)
        /\ net[e] \in pool \/ \E f \in Exec \ {e} : net[f] = net[e]

Leased ==
    /\ leases \subseteq dangling.leases
    /\ \A e \in Exec : phase[e] = "done" => e \notin leases

Cleaned ==
    gone =>
        /\ leases = {}
        /\ \A c \in Container : proc[c] # "running"
        /\ \A n \in dangling.networks : network[n] = "deleted"

Types ==
    /\ phase \in [Exec -> Phase]
    /\ permits \in Nat
    /\ pool \subseteq Network
    /\ net \in [Exec -> Network \cup {NoNetwork}]
    /\ tries \in [Exec -> 0..Tries]
    /\ network \in [Network -> {"none", "requested", "exists", "deleted"}]
    /\ leases \subseteq Exec
    /\ dangling \in [leases : SUBSET Exec, networks : SUBSET Network,
                     containers : SUBSET Container]
    /\ proc \in [Container -> {"none", "created", "running", "exited"}]
    /\ ready \subseteq Container
    /\ down \in [Container -> {"up", "signalled", "stopped", "committed"}]
    /\ gone \in BOOLEAN

IInv ==
    /\ Types /\ PermitsHeld
    /\ NetsGiven /\ RequestsFresh /\ Ownership
    /\ Created /\ Healthy /\ ComingDown
    /\ Returned /\ Leased /\ Cleaned

(* What the execs that hold a permit count.                                 *)
LEMMA HolderCount ==
    ASSUME IInv
    PROVE  IsFiniteSet(Holders) /\ Cardinality(Holders) \in Nat
<1>1. IsFiniteSet(Exec) /\ Holders \subseteq Exec
  BY ExecAssumption DEF Holders
<1> QED
  BY <1>1, FS_Subset, FS_CardinalityType

(* One step per action, under it one per conjunct the action may disturb.   *)
LEMMA Step ==
    ASSUME IInv, [Next]_vars
    PROVE  IInv'
<1>1. ASSUME NEW e \in Exec, NewLease(e) PROVE IInv'
  <2>1. Types'
    BY <1>1 DEF IInv, NewLease, To, resources, containers, Types, Phase
  <2>2. PermitsHeld'
    <3>1. Holders' = Holders
      BY <1>1 DEF IInv, NewLease, At, To, Holders, Holding
    <3> QED BY <3>1, <1>1 DEF IInv, PermitsHeld, NewLease
  <2>3. NetsGiven'
    BY <1>1 DEF IInv, NewLease, At, To, resources, NetsGiven, Serving
  <2>4. RequestsFresh'
    BY <1>1 DEF IInv, NewLease, At, To, resources, RequestsFresh
  <2>5. Ownership'
    BY <1>1 DEF IInv, NewLease, To, resources, containers, Ownership, Owns,
         Serving, Settled, ContainersOf
  <2>6. Created'
    BY <1>1 DEF IInv, NewLease, resources, containers, Created
  <2>7. Returned'
    BY <1>1 DEF IInv, NewLease, To, resources, containers, Returned, Settled,
         ContainersOf
  <2>8. Leased'
    BY <1>1 DEF IInv, NewLease, At, To, Leased
  <2>9. Cleaned'
    BY <1>1 DEF IInv, NewLease, At, Cleaned
  <2>10. (Healthy /\ ComingDown)'
    BY <1>1 DEF IInv, NewLease, containers, Healthy, ComingDown
  <2> QED BY <2>1, <2>2, <2>3, <2>4, <2>5, <2>6, <2>7, <2>8, <2>9, <2>10 DEF IInv
<1>2. ASSUME NEW e \in Exec, AcquirePermit(e) PROVE IInv'
  <2>1. Types'
    BY <1>2 DEF IInv, AcquirePermit, To, resources, containers, Types, Phase,
         Holding
  <2>2. PermitsHeld'
    <3>1. e \notin Holders /\ Holders' = Holders \cup {e}
      BY <1>2 DEF IInv, AcquirePermit, At, To, Types, Holders, Holding
    <3>2. Cardinality(Holders') = Cardinality(Holders) + 1
      BY <3>1, HolderCount, FS_AddElement
    <3> QED BY <3>2, <1>2, HolderCount DEF IInv, PermitsHeld, Types, AcquirePermit
  <2>3. NetsGiven'
    BY <1>2 DEF IInv, AcquirePermit, At, To, resources, NetsGiven, Serving
  <2>4. RequestsFresh'
    BY <1>2 DEF IInv, AcquirePermit, At, To, resources, RequestsFresh
  <2>5. Ownership'
    BY <1>2 DEF IInv, AcquirePermit, To, resources, containers, Ownership, Owns,
         Serving, Settled, ContainersOf
  <2>6. Returned'
    BY <1>2 DEF IInv, AcquirePermit, To, resources, containers, Returned, Settled,
         ContainersOf
  <2>7. Leased'
    BY <1>2 DEF IInv, AcquirePermit, To, Leased
  <2>8. (Created /\ Healthy /\ ComingDown /\ Cleaned)'
    BY <1>2 DEF IInv, AcquirePermit, resources, containers, Created, Healthy,
         ComingDown, Cleaned
  <2> QED BY <2>1, <2>2, <2>3, <2>4, <2>5, <2>6, <2>7, <2>8 DEF IInv
<1>3. ASSUME NEW e \in Exec, ReuseNetwork(e) PROVE IInv'
  <2>1. Types'
    BY <1>3 DEF IInv, ReuseNetwork, To, Fitting, containers, Types, Phase, Holding
  <2>2. PermitsHeld'
    <3>1. Holders' = Holders
      BY <1>3 DEF IInv, ReuseNetwork, At, To, Fitting, Holders, Holding
    <3> QED BY <3>1, <1>3 DEF IInv, PermitsHeld, ReuseNetwork, Fitting
  <2>3. NetsGiven'
    BY <1>3 DEF IInv, ReuseNetwork, To, Fitting, Types, Network, NoNetwork,
         NetsGiven
  <2>4. RequestsFresh'
    BY <1>3 DEF IInv, ReuseNetwork, To, Fitting, RequestsFresh
  <2>5. Ownership'
    BY <1>3 DEF IInv, ReuseNetwork, To, Fitting, containers, Types, Ownership,
         Owns, Settled, ContainersOf
  <2>6. Created'
    BY <1>3 DEF IInv, ReuseNetwork, At, Fitting, containers, NetsGiven, Created
  <2>7. Returned'
    BY <1>3 DEF IInv, ReuseNetwork, At, To, Fitting, containers, Types, NetsGiven,
         Returned, Settled, ContainersOf
  <2>8. Leased'
    BY <1>3 DEF IInv, ReuseNetwork, To, Fitting, Leased
  <2>9. (Healthy /\ ComingDown /\ Cleaned)'
    BY <1>3 DEF IInv, ReuseNetwork, Fitting, containers, Healthy, ComingDown,
         Cleaned
  <2> QED BY <2>1, <2>2, <2>3, <2>4, <2>5, <2>6, <2>7, <2>8, <2>9 DEF IInv
<1>4. ASSUME NEW e \in Exec, RequestNetwork(e) PROVE IInv'
  <2>1. Types'
    BY <1>4, ExecAssumption DEF IInv, RequestNetwork, To, Request, containers,
         Types, Phase, Holding, Network
  <2>2. PermitsHeld'
    <3>1. Holders' = Holders
      BY <1>4 DEF IInv, RequestNetwork, At, To, Request, Holders, Holding
    <3> QED BY <3>1, <1>4 DEF IInv, PermitsHeld, RequestNetwork, Request
  <2>3. NetsGiven'
    BY <1>4 DEF IInv, RequestNetwork, At, To, Request, NetsGiven, Serving
  <2>4. RequestsFresh'
    BY <1>4, ExecAssumption DEF IInv, RequestNetwork, To, Request, Types,
         RequestsFresh
  <2>5. Ownership'
    BY <1>4 DEF IInv, RequestNetwork, To, Request, containers, Ownership, Owns,
         Serving, Settled, ContainersOf
  <2>6. Returned'
    BY <1>4 DEF IInv, RequestNetwork, To, Request, containers, Returned, Settled,
         ContainersOf
  <2>7. Leased'
    BY <1>4 DEF IInv, RequestNetwork, To, Request, Leased
  <2>8. Cleaned'
    BY <1>4 DEF IInv, RequestNetwork, At, Request, Cleaned
  <2>9. (Created /\ Healthy /\ ComingDown)'
    BY <1>4 DEF IInv, RequestNetwork, Request, containers, Created, Healthy,
         ComingDown
  <2> QED BY <2>1, <2>2, <2>3, <2>4, <2>5, <2>6, <2>7, <2>8, <2>9 DEF IInv
<1>5. ASSUME NEW e \in Exec, NetworkAnswered(e) PROVE IInv'
  <2>1. Types'
    <3>1. <<e, tries[e]>> \in Network
      BY <1>5 DEF IInv, NetworkAnswered, At, RequestsFresh, Network
    <3> QED
      BY <3>1, <1>5 DEF IInv, NetworkAnswered, To, containers, Types, Phase, Holding
  <2>2. PermitsHeld'
    <3>1. Holders' = Holders
      BY <1>5 DEF IInv, NetworkAnswered, At, To, Holders, Holding
    <3> QED BY <3>1, <1>5 DEF IInv, PermitsHeld, NetworkAnswered
  <2>3. NetsGiven'
    BY <1>5 DEF IInv, NetworkAnswered, To, Types, NoNetwork, NetsGiven
  <2>4. RequestsFresh'
    <3>1. \A f \in Exec : f # e => phase'[f] = phase[f]
      BY <1>5 DEF IInv, NetworkAnswered, To
    <3>2. phase'[e] = "spinup" /\ dangling'.networks = dangling.networks \cup {<<e, tries[e]>>}
      BY <1>5 DEF IInv, NetworkAnswered, To, Types
    <3> QED
      BY <3>1, <3>2, <1>5 DEF IInv, NetworkAnswered, RequestsFresh
  <2>5. Ownership'
    <3> DEFINE n == <<e, tries[e]>>
    <3>1. n \notin dangling.networks
      BY <1>5 DEF IInv, NetworkAnswered, At, RequestsFresh
    <3>2. n \notin pool /\ \A f \in Exec : net[f] # n
      BY <3>1 DEF IInv, NetsGiven, NoNetwork
    <3>3. net' = [net EXCEPT ![e] = n] /\ pool' = pool
      BY <1>5 DEF NetworkAnswered
    <3>4. \A f \in Exec : f # e => net'[f] = net[f] /\ (Owns(f)' => Owns(f))
      BY <3>3, <1>5 DEF IInv, NetworkAnswered, To, containers, Owns, Settled,
           ContainersOf
    <3>5. net'[e] = n
      BY <3>3 DEF IInv, Types
    <3> HIDE DEF n
    <3> QED
      BY <3>2, <3>3, <3>4, <3>5 DEF IInv, Ownership
  <2>6. Created'
    BY <1>5 DEF IInv, NetworkAnswered, At, containers, NetsGiven, Created
  <2>7. Returned'
    BY <1>5 DEF IInv, NetworkAnswered, At, To, containers, NetsGiven, Returned,
         Settled, ContainersOf
  <2>8. Leased'
    BY <1>5 DEF IInv, NetworkAnswered, To, Leased
  <2>9. Cleaned'
    BY <1>5 DEF IInv, NetworkAnswered, At, Cleaned
  <2>10. (Healthy /\ ComingDown)'
    BY <1>5 DEF IInv, NetworkAnswered, containers, Healthy, ComingDown
  <2> QED BY <2>1, <2>2, <2>3, <2>4, <2>5, <2>6, <2>7, <2>8, <2>9, <2>10 DEF IInv
<1>6. ASSUME NEW e \in Exec, Return(e) PROVE IInv'
  <2>1. Types'
    BY <1>6 DEF IInv, Return, At, To, containers, Types, Phase, NetsGiven, Serving
  <2>2. PermitsHeld'
    <3>1. CASE phase[e] \in Holding
      <4>1. e \in Holders /\ Holders' = Holders \ {e}
        BY <3>1, <1>6 DEF IInv, Return, To, Types, Holders, Holding
      <4>2. Cardinality(Holders') = Cardinality(Holders) - 1
        BY <4>1, HolderCount, FS_RemoveElement
      <4> QED BY <4>2, <3>1, <1>6, HolderCount DEF IInv, PermitsHeld, Types, Return
    <3>2. CASE phase[e] \notin Holding
      <4>1. Holders' = Holders
        BY <3>2, <1>6 DEF IInv, Return, To, Holders, Holding
      <4> QED BY <4>1, <3>2, <1>6 DEF IInv, PermitsHeld, Holding, Return, At
    <3> QED BY <3>1, <3>2
  <2>3. NetsGiven'
    BY <1>6 DEF IInv, Return, At, To, NetsGiven, Serving
  <2>4. RequestsFresh'
    BY <1>6 DEF IInv, Return, To, RequestsFresh
  <2>5. Ownership'
    BY <1>6 DEF IInv, Return, At, To, containers, Types, Ownership, Owns, Serving,
         Settled, ContainersOf
  <2>6. Returned'
    BY <1>6 DEF IInv, Return, To, containers, Returned, Settled, ContainersOf
  <2>7. Leased'
    BY <1>6 DEF IInv, Return, To, Leased
  <2>8. (Created /\ Healthy /\ ComingDown /\ Cleaned)'
    BY <1>6 DEF IInv, Return, containers, Created, Healthy, ComingDown, Cleaned
  <2> QED BY <2>1, <2>2, <2>3, <2>4, <2>5, <2>6, <2>7, <2>8 DEF IInv
<1>7. ASSUME NEW e \in Exec, DropLease(e) PROVE IInv'
  <2>1. Types'
    BY <1>7 DEF IInv, DropLease, To, resources, containers, Types, Phase, Final
  <2>2. PermitsHeld'
    <3>1. Holders' = Holders
      BY <1>7 DEF IInv, DropLease, At, To, Holders, Holding
    <3> QED BY <3>1, <1>7 DEF IInv, PermitsHeld, DropLease
  <2>3. NetsGiven'
    BY <1>7 DEF IInv, DropLease, At, To, resources, NetsGiven
  <2>4. RequestsFresh'
    BY <1>7 DEF IInv, DropLease, To, resources, RequestsFresh
  <2>5. Ownership'
    BY <1>7 DEF IInv, DropLease, To, resources, containers, Ownership, Owns,
         Serving, Settled, ContainersOf
  <2>6. Returned'
    BY <1>7 DEF IInv, DropLease, At, To, resources, containers, Returned, Settled,
         ContainersOf
  <2>7. Leased'
    BY <1>7 DEF IInv, DropLease, To, Leased
  <2>8. Cleaned'
    BY <1>7 DEF IInv, DropLease, At, Cleaned
  <2>9. (Created /\ Healthy /\ ComingDown)'
    BY <1>7 DEF IInv, DropLease, resources, containers, Created, Healthy, ComingDown
  <2> QED BY <2>1, <2>2, <2>3, <2>4, <2>5, <2>6, <2>7, <2>8, <2>9 DEF IInv
<1>8. ASSUME NEW e \in Exec, RetryNetwork(e) PROVE IInv'
  <2>1. Types'
    BY <1>8, ExecAssumption DEF IInv, RetryNetwork, Request, containers, Types,
         Network
  <2>2. RequestsFresh'
    BY <1>8, ExecAssumption DEF IInv, RetryNetwork, Request, Types, RequestsFresh
  <2>3. Cleaned'
    BY <1>8 DEF IInv, RetryNetwork, At, Request, Cleaned
  <2>4. (PermitsHeld /\ NetsGiven /\ Ownership /\ Created /\ Healthy /\ ComingDown /\ Returned /\ Leased)'
    BY <1>8 DEF IInv, RetryNetwork, Request, containers, PermitsHeld, Holders,
         NetsGiven, Ownership, Owns, Settled, ContainersOf, Created, Healthy,
         ComingDown, Returned, Leased
  <2> QED BY <2>1, <2>2, <2>3, <2>4 DEF IInv
<1>9. ASSUME NEW e \in Exec, Fail(e) PROVE IInv'
  <2>1. Types'
    BY <1>9 DEF IInv, Fail, GiveUp, ReleasePermit, To, resources, containers,
         Types, Phase, Final
  <2>2. PermitsHeld'
    <3>1. CASE phase[e] \in Holding
      <4>1. e \in Holders /\ Holders' = Holders \ {e}
        BY <3>1, <1>9 DEF IInv, Fail, GiveUp, ReleasePermit, To, Types, Holders,
             Holding
      <4>2. Cardinality(Holders') = Cardinality(Holders) - 1
        BY <4>1, HolderCount, FS_RemoveElement
      <4> QED BY <4>2, <3>1, <1>9, HolderCount DEF IInv, PermitsHeld, Types, Fail,
           GiveUp, ReleasePermit
    <3>2. CASE phase[e] \notin Holding
      <4>1. Holders' = Holders
        BY <3>2, <1>9 DEF IInv, Fail, GiveUp, ReleasePermit, To, Holders, Holding
      <4> QED BY <4>1, <3>2, <1>9 DEF IInv, PermitsHeld, Fail, GiveUp, ReleasePermit
    <3> QED BY <3>1, <3>2
  <2>3. NetsGiven'
    BY <1>9 DEF IInv, Fail, GiveUp, ReleasePermit, To, resources, NetsGiven, Serving
  <2>4. RequestsFresh'
    BY <1>9 DEF IInv, Fail, GiveUp, ReleasePermit, To, resources, RequestsFresh
  <2>5. Ownership'
    BY <1>9 DEF IInv, Fail, GiveUp, ReleasePermit, To, resources, containers,
         Ownership, Owns, Serving, Settled, ContainersOf
  <2>6. Returned'
    BY <1>9 DEF IInv, Fail, GiveUp, ReleasePermit, To, resources, containers,
         Returned, Settled, ContainersOf
  <2>7. Leased'
    BY <1>9 DEF IInv, Fail, GiveUp, ReleasePermit, To, Leased
  <2>8. (Created /\ Healthy /\ ComingDown /\ Cleaned)'
    BY <1>9 DEF IInv, Fail, GiveUp, ReleasePermit, resources, containers, Created,
         Healthy, ComingDown, Cleaned
  <2> QED BY <2>1, <2>2, <2>3, <2>4, <2>5, <2>6, <2>7, <2>8 DEF IInv
<1>10. ASSUME NEW e \in Exec, Abort(e) PROVE IInv'
  <2>1. Types'
    BY <1>10 DEF IInv, Abort, GiveUp, ReleasePermit, To, resources, containers,
         Types, Phase, Final
  <2>2. PermitsHeld'
    <3>1. CASE phase[e] \in Holding
      <4>1. e \in Holders /\ Holders' = Holders \ {e}
        BY <3>1, <1>10 DEF IInv, Abort, GiveUp, ReleasePermit, To, Types, Holders,
             Holding
      <4>2. Cardinality(Holders') = Cardinality(Holders) - 1
        BY <4>1, HolderCount, FS_RemoveElement
      <4> QED BY <4>2, <3>1, <1>10, HolderCount DEF IInv, PermitsHeld, Types,
           Abort, GiveUp, ReleasePermit
    <3>2. CASE phase[e] \notin Holding
      <4>1. Holders' = Holders
        BY <3>2, <1>10 DEF IInv, Abort, GiveUp, ReleasePermit, To, Holders, Holding
      <4> QED BY <4>1, <3>2, <1>10 DEF IInv, PermitsHeld, Abort, GiveUp,
           ReleasePermit
    <3> QED BY <3>1, <3>2
  <2>3. NetsGiven'
    BY <1>10 DEF IInv, Abort, GiveUp, ReleasePermit, To, resources, NetsGiven,
         Serving
  <2>4. RequestsFresh'
    BY <1>10 DEF IInv, Abort, GiveUp, ReleasePermit, To, resources, RequestsFresh
  <2>5. Ownership'
    BY <1>10 DEF IInv, Abort, GiveUp, ReleasePermit, To, resources, containers,
         Ownership, Owns, Serving, Settled, ContainersOf
  <2>6. Returned'
    BY <1>10 DEF IInv, Abort, GiveUp, ReleasePermit, To, resources, containers,
         Returned, Settled, ContainersOf
  <2>7. Leased'
    BY <1>10 DEF IInv, Abort, GiveUp, ReleasePermit, To, Leased
  <2>8. (Created /\ Healthy /\ ComingDown /\ Cleaned)'
    BY <1>10 DEF IInv, Abort, GiveUp, ReleasePermit, resources, containers,
         Created, Healthy, ComingDown, Cleaned
  <2> QED BY <2>1, <2>2, <2>3, <2>4, <2>5, <2>6, <2>7, <2>8 DEF IInv
<1>11. ASSUME NEW c \in Container, CreateContainer(c) PROVE IInv'
  <2>1. Types'
    BY <1>11 DEF IInv, CreateContainer, resources, Types
  <2>2. NetsGiven'
    BY <1>11 DEF IInv, CreateContainer, resources, NetsGiven
  <2>3. RequestsFresh'
    BY <1>11 DEF IInv, CreateContainer, resources, RequestsFresh
  <2>4. Created'
    BY <1>11, ExecAssumption DEF IInv, CreateContainer, At, resources, NetsGiven,
         Serving, Created
  <2>5. Healthy'
    BY <1>11 DEF IInv, CreateContainer, Healthy
  <2>6. ComingDown'
    BY <1>11 DEF IInv, CreateContainer, ComingDown
  <2>7. Leased'
    BY <1>11 DEF IInv, CreateContainer, Leased
  <2>8. Cleaned'
    BY <1>11 DEF IInv, CreateContainer, At, Cleaned
  <2>9. (PermitsHeld /\ Ownership /\ Returned)'
    BY <1>11 DEF IInv, CreateContainer, resources, PermitsHeld, Holders,
         Ownership, Owns, Settled, ContainersOf, Returned
  <2> QED BY <2>1, <2>2, <2>3, <2>4, <2>5, <2>6, <2>7, <2>8, <2>9 DEF IInv
<1>12. ASSUME NEW c \in Container, StartService(c) PROVE IInv'
  <2>1. Types'
    BY <1>12 DEF IInv, StartService, resources, Types
  <2>2. Created'
    BY <1>12 DEF IInv, StartService, resources, Created
  <2>3. Healthy'
    BY <1>12 DEF IInv, StartService, Healthy
  <2>4. ComingDown'
    BY <1>12 DEF IInv, StartService, ComingDown
  <2>5. Cleaned'
    BY <1>12 DEF IInv, StartService, At, Cleaned
  <2>6. (PermitsHeld /\ NetsGiven /\ RequestsFresh /\ Ownership /\ Returned /\ Leased)'
    BY <1>12 DEF IInv, StartService, resources, PermitsHeld, Holders, NetsGiven,
         RequestsFresh, Ownership, Owns, Settled, ContainersOf, Returned, Leased
  <2> QED BY <2>1, <2>2, <2>3, <2>4, <2>5, <2>6 DEF IInv
<1>13. ASSUME NEW c \in Container, StartCommand(c) PROVE IInv'
  <2>1. Types'
    BY <1>13 DEF IInv, StartCommand, To, resources, Types, Phase, Holding
  <2>2. PermitsHeld'
    <3>1. Holders' = Holders
      BY <1>13 DEF IInv, StartCommand, At, To, Holders, Holding
    <3> QED BY <3>1, <1>13 DEF IInv, PermitsHeld, StartCommand
  <2>3. NetsGiven'
    BY <1>13 DEF IInv, StartCommand, At, To, resources, NetsGiven, Serving
  <2>4. RequestsFresh'
    BY <1>13 DEF IInv, StartCommand, To, resources, RequestsFresh
  <2>5. Ownership'
    BY <1>13 DEF IInv, StartCommand, At, To, resources, Ownership, Owns, Serving,
         Settled, ContainersOf
  <2>6. Created'
    BY <1>13 DEF IInv, StartCommand, resources, Created
  <2>7. Healthy'
    BY <1>13 DEF IInv, StartCommand, Types, Healthy
  <2>8. ComingDown'
    BY <1>13 DEF IInv, StartCommand, ComingDown
  <2>9. Returned'
    BY <1>13 DEF IInv, StartCommand, To, resources, Returned, Settled, ContainersOf
  <2>10. Leased'
    BY <1>13 DEF IInv, StartCommand, To, Leased
  <2>11. Cleaned'
    BY <1>13 DEF IInv, StartCommand, At, Cleaned
  <2> QED BY <2>1, <2>2, <2>3, <2>4, <2>5, <2>6, <2>7, <2>8, <2>9, <2>10, <2>11
       DEF IInv
<1>14. ASSUME NEW c \in Container, HealthcheckPasses(c) PROVE IInv'
  <2>1. Types'
    BY <1>14 DEF IInv, HealthcheckPasses, resources, Types
  <2>2. Created'
    BY <1>14 DEF IInv, HealthcheckPasses, resources, Created
  <2>3. Healthy'
    BY <1>14 DEF IInv, HealthcheckPasses, Healthy
  <2>4. (PermitsHeld /\ NetsGiven /\ RequestsFresh /\ Ownership /\ ComingDown /\ Returned /\ Leased /\ Cleaned)'
    BY <1>14 DEF IInv, HealthcheckPasses, resources, PermitsHeld, Holders,
         NetsGiven, RequestsFresh, Ownership, Owns, Settled, ContainersOf, ComingDown,
         Returned, Leased, Cleaned
  <2> QED BY <2>1, <2>2, <2>3, <2>4 DEF IInv
<1>15. ASSUME NEW c \in Container, HealthcheckTimeout(c) PROVE IInv'
  <2>1. Types'
    BY <1>15, ExecAssumption DEF IInv, HealthcheckTimeout, GiveUp, ReleasePermit,
         To, resources, containers, Types, Phase, Final
  <2>2. PermitsHeld'
    <3>1. CASE phase[ExecOf[c]] \in Holding
      <4>1. ExecOf[c] \in Holders /\ Holders' = Holders \ {ExecOf[c]}
        BY <3>1, <1>15, ExecAssumption DEF IInv, HealthcheckTimeout, GiveUp,
             ReleasePermit, To, Types, Holders, Holding
      <4>2. Cardinality(Holders') = Cardinality(Holders) - 1
        BY <4>1, HolderCount, FS_RemoveElement
      <4> QED BY <4>2, <3>1, <1>15, HolderCount DEF IInv, PermitsHeld, Types,
           HealthcheckTimeout, GiveUp, ReleasePermit
    <3>2. CASE phase[ExecOf[c]] \notin Holding
      <4>1. Holders' = Holders
        BY <3>2, <1>15 DEF IInv, HealthcheckTimeout, GiveUp, ReleasePermit, To,
             Holders, Holding
      <4> QED BY <4>1, <3>2, <1>15 DEF IInv, PermitsHeld, HealthcheckTimeout,
           GiveUp, ReleasePermit
    <3> QED BY <3>1, <3>2
  <2>3. NetsGiven'
    BY <1>15 DEF IInv, HealthcheckTimeout, GiveUp, ReleasePermit, To, resources,
         NetsGiven, Serving
  <2>4. RequestsFresh'
    BY <1>15 DEF IInv, HealthcheckTimeout, GiveUp, ReleasePermit, To, resources,
         RequestsFresh
  <2>5. Ownership'
    BY <1>15 DEF IInv, HealthcheckTimeout, GiveUp, ReleasePermit, To, resources,
         containers, Ownership, Owns, Serving, Settled, ContainersOf
  <2>6. Returned'
    BY <1>15 DEF IInv, HealthcheckTimeout, GiveUp, ReleasePermit, To, resources,
         containers, Returned, Settled, ContainersOf
  <2>7. Leased'
    BY <1>15 DEF IInv, HealthcheckTimeout, GiveUp, ReleasePermit, To, Leased
  <2>8. (Created /\ Healthy /\ ComingDown /\ Cleaned)'
    BY <1>15 DEF IInv, HealthcheckTimeout, GiveUp, ReleasePermit, resources,
         containers, Created, Healthy, ComingDown, Cleaned
  <2> QED BY <2>1, <2>2, <2>3, <2>4, <2>5, <2>6, <2>7, <2>8 DEF IInv
<1>16. ASSUME NEW c \in Container, CommandExited(c) PROVE IInv'
  <2>1. Types'
    BY <1>16 DEF IInv, CommandExited, To, resources, containers, Types, Phase,
         Holding
  <2>2. PermitsHeld'
    <3>1. Holders' = Holders
      BY <1>16 DEF IInv, CommandExited, At, To, Holders, Holding
    <3> QED BY <3>1, <1>16 DEF IInv, PermitsHeld, CommandExited
  <2>3. NetsGiven'
    BY <1>16 DEF IInv, CommandExited, At, To, resources, NetsGiven, Serving
  <2>4. RequestsFresh'
    BY <1>16 DEF IInv, CommandExited, To, resources, RequestsFresh
  <2>5. Ownership'
    BY <1>16 DEF IInv, CommandExited, At, To, resources, containers, Ownership,
         Owns, Serving, Settled, ContainersOf
  <2>6. Returned'
    BY <1>16 DEF IInv, CommandExited, To, resources, containers, Returned,
         Settled, ContainersOf
  <2>7. Leased'
    BY <1>16 DEF IInv, CommandExited, To, Leased
  <2>8. (Created /\ Healthy /\ ComingDown /\ Cleaned)'
    BY <1>16 DEF IInv, CommandExited, resources, containers, Created, Healthy,
         ComingDown, Cleaned
  <2> QED BY <2>1, <2>2, <2>3, <2>4, <2>5, <2>6, <2>7, <2>8 DEF IInv
<1>17. ASSUME NEW c \in Container, Interrupt(c) PROVE IInv'
  <2>1. Types'
    BY <1>17 DEF IInv, Interrupt, resources, Types
  <2>2. Ownership'
    BY <1>17 DEF IInv, Interrupt, resources, Ownership, Owns, Settled, ContainersOf
  <2>3. ComingDown'
    BY <1>17 DEF IInv, Interrupt, Services, ComingDown
  <2>4. Returned'
    BY <1>17 DEF IInv, Interrupt, resources, Returned, Settled, ContainersOf
  <2>5. (PermitsHeld /\ NetsGiven /\ RequestsFresh /\ Created /\ Healthy /\ Leased /\ Cleaned)'
    BY <1>17 DEF IInv, Interrupt, resources, PermitsHeld, Holders, NetsGiven,
         RequestsFresh, Created, Healthy, Leased, Cleaned
  <2> QED BY <2>1, <2>2, <2>3, <2>4, <2>5 DEF IInv
<1>18. ASSUME NEW c \in Container, Kill(c) PROVE IInv'
  <2>1. Types'
    BY <1>18 DEF IInv, Kill, resources, Types
  <2>2. Created'
    BY <1>18 DEF IInv, Kill, resources, Created
  <2>3. Healthy'
    BY <1>18 DEF IInv, Kill, Healthy
  <2>4. ComingDown'
    BY <1>18 DEF IInv, Kill, ComingDown
  <2>5. Cleaned'
    BY <1>18 DEF IInv, Kill, Cleaned
  <2>6. (PermitsHeld /\ NetsGiven /\ RequestsFresh /\ Ownership /\ Returned /\ Leased)'
    BY <1>18 DEF IInv, Kill, resources, PermitsHeld, Holders, NetsGiven,
         RequestsFresh, Ownership, Owns, Settled, ContainersOf, Returned, Leased
  <2> QED BY <2>1, <2>2, <2>3, <2>4, <2>5, <2>6 DEF IInv
<1>19. ASSUME NEW c \in Container, Stopped(c) PROVE IInv'
  <2>1. Types'
    BY <1>19 DEF IInv, Stopped, resources, Types
  <2>2. Ownership'
    <3>1. net' = net /\ pool' = pool /\ phase' = phase /\ phase[ExecOf[c]] = "stopping"
      BY <1>19 DEF Stopped, At, resources
    <3>2. \A d \in Container : d # c => down'[d] = down[d]
      BY <1>19 DEF IInv, Stopped
    <3>3. \A e \in Exec : Owns(e)' => Owns(e)
      BY <3>1, <3>2 DEF Owns, Serving, Settled, ContainersOf
    <3> QED
      BY <3>1, <3>3 DEF IInv, Ownership
  <2>3. ComingDown'
    BY <1>19 DEF IInv, Stopped, ComingDown
  <2>4. Returned'
    BY <1>19 DEF IInv, Stopped, resources, Returned, Settled, ContainersOf
  <2>5. (PermitsHeld /\ NetsGiven /\ RequestsFresh /\ Created /\ Healthy /\ Leased /\ Cleaned)'
    BY <1>19 DEF IInv, Stopped, resources, PermitsHeld, Holders, NetsGiven,
         RequestsFresh, Created, Healthy, Leased, Cleaned
  <2> QED BY <2>1, <2>2, <2>3, <2>4, <2>5 DEF IInv
<1>20. ASSUME NEW c \in Container, Commit(c) PROVE IInv'
  <2>1. Types'
    BY <1>20 DEF IInv, Commit, resources, Types
  <2>2. Ownership'
    BY <1>20 DEF IInv, Commit, resources, Ownership, Owns, Settled, ContainersOf
  <2>3. ComingDown'
    BY <1>20 DEF IInv, Commit, ComingDown
  <2>4. Returned'
    BY <1>20 DEF IInv, Commit, resources, Returned, Settled, ContainersOf
  <2>5. (PermitsHeld /\ NetsGiven /\ RequestsFresh /\ Created /\ Healthy /\ Leased /\ Cleaned)'
    BY <1>20 DEF IInv, Commit, resources, PermitsHeld, Holders, NetsGiven,
         RequestsFresh, Created, Healthy, Leased, Cleaned
  <2> QED BY <2>1, <2>2, <2>3, <2>4, <2>5 DEF IInv
<1>21. ASSUME NEW c \in Container, Exits(c) PROVE IInv'
  <2>1. Types'
    BY <1>21 DEF IInv, Exits, resources, Types
  <2>2. Created'
    BY <1>21 DEF IInv, Exits, resources, Created
  <2>3. Healthy'
    BY <1>21 DEF IInv, Exits, Healthy
  <2>4. ComingDown'
    BY <1>21 DEF IInv, Exits, ComingDown
  <2>5. Cleaned'
    BY <1>21 DEF IInv, Exits, Cleaned
  <2>6. (PermitsHeld /\ NetsGiven /\ RequestsFresh /\ Ownership /\ Returned /\ Leased)'
    BY <1>21 DEF IInv, Exits, resources, PermitsHeld, Holders, NetsGiven,
         RequestsFresh, Ownership, Owns, Settled, ContainersOf, Returned, Leased
  <2> QED BY <2>1, <2>2, <2>3, <2>4, <2>5, <2>6 DEF IInv
<1>22. ASSUME NEW n \in Network, CreateNetwork(n) PROVE IInv'
  <2>1. Types'
    BY <1>22 DEF IInv, CreateNetwork, containers, Types
  <2>2. RequestsFresh'
    BY <1>22 DEF IInv, CreateNetwork, RequestsFresh
  <2>3. Cleaned'
    BY <1>22 DEF IInv, CreateNetwork, containers, Cleaned
  <2>4. (PermitsHeld /\ NetsGiven /\ Ownership /\ Created /\ Healthy /\ ComingDown /\ Returned /\ Leased)'
    BY <1>22 DEF IInv, CreateNetwork, containers, PermitsHeld, Holders, NetsGiven,
         Ownership, Owns, Settled, ContainersOf, Created, Healthy, ComingDown,
         Returned, Leased
  <2> QED BY <2>1, <2>2, <2>3, <2>4 DEF IInv
<1>23. CASE Shutdown
  <2>1. Types'
    BY <1>23 DEF IInv, Shutdown, Types
  <2>2. RequestsFresh'
    BY <1>23 DEF IInv, Shutdown, Types, RequestsFresh
  <2>3. Created'
    BY <1>23 DEF IInv, Shutdown, Created
  <2>4. Healthy'
    BY <1>23 DEF IInv, Shutdown, Types, Healthy
  <2>5. ComingDown'
    BY <1>23 DEF IInv, Shutdown, ComingDown
  <2>6. Leased'
    BY <1>23 DEF IInv, Shutdown, Leased
  <2>7. Cleaned'
    BY <1>23 DEF IInv, Shutdown, Types, Leased, Created, Cleaned
  <2>8. (PermitsHeld /\ NetsGiven /\ Ownership /\ Returned)'
    BY <1>23 DEF IInv, Shutdown, PermitsHeld, Holders, NetsGiven, Ownership, Owns,
         Settled, ContainersOf, Returned
  <2> QED BY <2>1, <2>2, <2>3, <2>4, <2>5, <2>6, <2>7, <2>8 DEF IInv
<1>24. CASE UNCHANGED vars
  BY <1>24 DEF IInv, vars, Types, PermitsHeld, Holders, NetsGiven, RequestsFresh,
       Ownership, Owns, Settled, ContainersOf, Created, Healthy, ComingDown, Returned,
       Leased, Cleaned
<1> QED
  BY <1>1, <1>2, <1>3, <1>4, <1>5, <1>6, <1>7, <1>8, <1>9, <1>10, <1>11, <1>12,
       <1>13, <1>14, <1>15, <1>16, <1>17, <1>18, <1>19, <1>20, <1>21, <1>22, <1>23,
       <1>24 DEF Next, ExecStep, ContainerStep

LEMMA Start == Init => IInv
<1> SUFFICES ASSUME Init PROVE IInv
  OBVIOUS
<1>1. Holders = {}
  BY DEF Init, Holders, Holding
<1>2. PermitsHeld
  BY <1>1, FS_EmptySet, ExecAssumption DEF Init, PermitsHeld
<1>3. Types
  <2>1. /\ net \in [Exec -> Network \cup {NoNetwork}]
        /\ tries \in [Exec -> 0..Tries]
        /\ network \in [Network -> {"none", "requested", "exists", "deleted"}]
    BY ExecAssumption DEF Init
  <2>2. dangling \in [leases : SUBSET Exec, networks : SUBSET Network,
                      containers : SUBSET Container]
    BY DEF Init
  <2>3. phase \in [Exec -> Phase] /\ permits \in Nat
    BY ExecAssumption DEF Init, Phase
  <2> QED
    BY <2>1, <2>2, <2>3 DEF Init, Types
<1>4. NetsGiven /\ RequestsFresh
  BY DEF Init, NetsGiven, RequestsFresh, Serving
<1>5. Ownership
  BY DEF Init, Ownership, Owns
<1>6. Created /\ Healthy /\ ComingDown
  BY DEF Init, Created, Healthy, ComingDown
<1>7. Returned /\ Cleaned
  BY DEF Init, Returned, Cleaned
<1>8. Leased
  BY DEF Init, Leased
<1> QED
  BY <1>2, <1>3, <1>4, <1>5, <1>6, <1>7, <1>8 DEF IInv

(* In every reachable state permits are held and networks owned as IInv     *)
(* says, whatever execs fail, time out or are aborted (exec.rs).            *)
THEOREM Invariant == Spec => []IInv
<1>1. IInv /\ [Next]_vars => IInv'
  BY Step
<1> QED
  BY Start, <1>1, PTL DEF Spec

(* Every variable keeps its type; in particular there are never more        *)
(* permits free than --jobs gave, and never less than none.                 *)
THEOREM TypeCorrect == Spec => []TypeOK
<1>1. ASSUME IInv PROVE TypeOK
  <2>1. permits \in 0..Jobs
    BY <1>1, HolderCount, ExecAssumption DEF IInv, PermitsHeld, Types
  <2> QED
    BY <2>1, <1>1 DEF IInv, Types, TypeOK
<1> QED
  BY <1>1, Invariant, PTL

(* No two execs have running containers in one network, and no container    *)
(* runs in a network of the pool (get_network and exec_internal).           *)
THEOREM NetworkExclusiveHolds == Spec => []NetworkExclusive
<1>1. ASSUME IInv PROVE NetworkExclusive
  <2>1. ASSUME NEW e \in Exec, Running(e) PROVE Owns(e)
    <3>1. PICK c \in ContainersOf(e) : proc[c] = "running"
      BY <2>1 DEF Running
    <3>2. net[e] # NoNetwork
      BY <3>1, <1>1 DEF IInv, Created, ContainersOf
    <3>3. down[c] # "committed"
      BY <3>1, <1>1 DEF IInv, ComingDown, ContainersOf
    <3> QED
      BY <3>1, <3>2, <3>3 DEF Owns, Settled
  <2> QED
    BY <2>1, <1>1 DEF IInv, Ownership, NetworkExclusive
<1> QED
  BY <1>1, Invariant, PTL

(* Healthy services are below every container, until that container is      *)
(* over (spinup_topology and spindown_topology).                            *)
THEOREM ServicesOutliveHolds == Spec => []ServicesOutlive
<1>1. ASSUME IInv PROVE ServicesOutlive
  <2> SUFFICES ASSUME NEW c \in Container, NEW d \in Container, User[d] = c
               PROVE  /\ proc[c] # "none" => d \in ready
                      /\ proc[c] = "running" => down[d] = "up"
                      /\ d \in ready => proc[d] \in {"running", "exited"}
    BY DEF ServicesOutlive
  <2>1. proc[c] # "none" => d \in ready
    BY <1>1 DEF IInv, Created, Services
  <2>2. proc[c] = "running" => down[d] = "up"
    BY <1>1 DEF IInv, ComingDown
  <2>3. d \in ready => proc[d] \in {"running", "exited"}
    BY <1>1 DEF IInv, Healthy
  <2> QED
    BY <2>1, <2>2, <2>3
<1> QED
  BY <1>1, Invariant, PTL

(* What exec returns comes from containers that are at rest, without a      *)
(* lease, and its network is in other hands (exec_internal).                *)
THEOREM DoneIsCleanHolds == Spec => []DoneIsClean
<1>1. ASSUME IInv PROVE DoneIsClean
  <2> SUFFICES ASSUME NEW e \in Exec, phase[e] \in {"unleasing", "done"}
               PROVE  /\ ~Running(e)
                      /\ phase[e] = "done" => e \notin leases
                      /\ net[e] \in pool \/ \E f \in Exec \ {e} : net[f] = net[e]
    BY DEF DoneIsClean
  <2>1. ~Running(e)
    BY <1>1 DEF IInv, Returned, Settled, ComingDown, Running, ContainersOf
  <2>2. phase[e] = "done" => e \notin leases
    BY <1>1 DEF IInv, Leased
  <2>3. net[e] \in pool \/ \E f \in Exec \ {e} : net[f] = net[e]
    BY <1>1 DEF IInv, Returned
  <2> QED
    BY <2>1, <2>2, <2>3
<1> QED
  BY <1>1, Invariant, PTL

(* After Client::shutdown no process runs, and no lease or network that was *)
(* given to an exec exists, whatever became of the execs.                   *)
THEOREM ShutdownIsCleanHolds == Spec => []ShutdownIsClean
<1>1. ASSUME IInv PROVE ShutdownIsClean
  BY <1>1 DEF IInv, Cleaned, NetsGiven, ShutdownIsClean
<1> QED
  BY <1>1, Invariant, PTL
=============================================================================
