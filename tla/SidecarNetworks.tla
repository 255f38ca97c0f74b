-------------------------- MODULE SidecarNetworks --------------------------
(***************************************************************************)
(* create_network and delete_network of the sidecar (sidecar/src/main.rs). *)
(*                                                                         *)
(* A request for a network is carried out depth first: a subnet is picked  *)
(* for the bridge to each child, then the child's own tree is realized,    *)
(* and when all children are there the namespace is made, with an uplink   *)
(* and the ends of its bridges attached.  Requests run on threads of their *)
(* own and share the counter of subnets.  Any step may fail; what was made *)
(* before stays.  A namespace is named by its request and its place in the *)
(* tree, an address by its subnet and the last bit.                        *)
(***************************************************************************)
EXTENDS Topology

CONSTANTS
    Request,  \* calls of CreateNetwork
    Wanted,   \* the topology each of them sends
    Users,    \* the trees of containers that are given a network of a request
    Subnets,  \* how many subnets the counter tells apart
    Faulty    \* requests that may fail, while creating or deleting

(* The trees are what with_children makes.  A network is lent by the shape  *)
(* that was asked for (exec.rs, the map of free networks).                  *)
ASSUME TopologyAssumption ==
    /\ Subnets \in Nat \ {0} /\ Faulty \subseteq Request
    /\ \A r \in Request :
         /\ IsShape(DOMAIN Wanted[r]) /\ Ordered(Wanted[r])
         /\ \A u \in Users[r] : DOMAIN u = DOMAIN Wanted[r]

VARIABLES
    counter,    \* SUBNET_COUNTER
    request,    \* what every request is at
    link,       \* the subnets picked for the bridges to parents, by place
    namespaces, \* the namespaces that exist
    address,    \* the addresses attached to each of them
    realized,   \* the trees that realize_topology returned, by the place of their root
    doomed      \* the stack of a delete_network's iterator over the topology

netVars == <<counter, request, link, namespaces, address, realized, doomed>>

Place(r) == DOMAIN Wanted[r]
Child(r, p) == {q \in Place(r) : q # <<>> /\ Front(q) = p}
Elder(r, p) == {q \in Child(r, Front(p)) : Last(q) < Last(p)}

NetInit ==
    /\ counter \in 0..(Subnets - 1)
    /\ request = [r \in Request |-> "idle"]
    /\ link = [r \in Request |-> [p \in {} |-> 0]]
    /\ namespaces = {}
    /\ address = [n \in {} |-> {}]
    /\ realized = [r \in Request |-> [p \in {} |-> New("none")]]
    /\ doomed = [r \in Request |-> <<>>]

Turn(r, from, to) == request[r] = from /\ request' = [request EXCEPT ![r] = to]

CreateNetwork(r) ==
    /\ Turn(r, "idle", "creating")
    /\ UNCHANGED <<counter, link, namespaces, address, realized, doomed>>

Built(r, p) == <<r, p>> \in namespaces
Picked(r, p) == p = <<>> \/ p \in DOMAIN link[r]

(* pick_subnet: fetch_add on an integer of 16 bits.                         *)
NextCounter == (counter + 1) % Subnets

(* realize_topology reaches a child: its bridge gets a subnet.              *)
PickBridge(r, p) ==
    /\ request[r] = "creating"
    /\ p # <<>> /\ ~Picked(r, p) /\ Picked(r, Front(p))
    /\ \A q \in Elder(r, p) : Built(r, q)
    /\ link' = [link EXCEPT ![r] = [q \in DOMAIN @ \cup {p} |->
                                      IF q = p THEN counter ELSE @[q]]]
    /\ counter' = NextCounter
    /\ UNCHANGED <<request, namespaces, address, realized, doomed>>

(* Mutant: both ends of a bridge get the same address.                      *)
EndsOfOneBit(r, p) ==
    (IF p = <<>> THEN {} ELSE {<<link[r][p], 1>>})
        \cup {<<link[r][q], 1>> : q \in Child(r, p)}

(* Its side of the bridge to the parent, and its sides of those to children.*)
BridgeEnds(r, p) ==
    (IF p = <<>> THEN {} ELSE {<<link[r][p], 1>>})
        \cup {<<link[r][q], 0>> : q \in Child(r, p)}

(* create_network_namespace: a namespace with those ends of bridges and the *)
(* uplink, of whose subnet the host has the other address.                  *)
Make(r, p, ends) ==
    /\ namespaces' = namespaces \cup {<<r, p>>}
    /\ address' = [n \in DOMAIN address \cup {<<r, p>>} |->
                     IF n = <<r, p>> THEN {<<counter, 1>>} \cup ends ELSE address[n]]
    /\ counter' = NextCounter

Ready(r, p) ==
    /\ Picked(r, p) /\ ~Built(r, p)
    /\ \A q \in Child(r, p) : Built(r, q)

Ip(r, p) == IF p = <<>> THEN "localhost" ELSE <<link[r][p], 1>>

(* The tree of namespaces that is returned: the children that were returned *)
(* are added to the namespace one by one.                                   *)
Concrete(r, p) ==
    LET grown[i \in 0..Cardinality(Child(r, p))] ==
          IF i = 0 THEN New([namespace |-> <<r, p>>, ip |-> Ip(r, p)])
                   ELSE AddChild(grown[i - 1], realized[r][Append(p, i)])
    IN  grown[Cardinality(Child(r, p))]

CreateNamespace(r, p) ==
    /\ request[r] = "creating" /\ Ready(r, p)
    /\ Make(r, p, BridgeEnds(r, p))
    /\ realized' = [realized EXCEPT ![r] = [q \in DOMAIN @ \cup {p} |->
                                              IF q = p THEN Concrete(r, p) ELSE @[q]]]
    /\ UNCHANGED <<request, link, doomed>>

(* The answer is sent, to a client that may be gone.                        *)
Answer(r) ==
    /\ Built(r, <<>>)
    /\ Turn(r, "creating", "answered")
    /\ UNCHANGED <<counter, link, namespaces, address, realized, doomed>>

Answered(r) == realized[r][<<>>]

(* A step fails, with its namespace half made or not there: the children's  *)
(* stay.                                                                    *)
CreateFails(r) ==
    /\ r \in Faulty
    /\ Turn(r, "creating", "failed")
    /\ \E p \in Place(r) :
         /\ Ready(r, p)
         /\ \/ UNCHANGED <<counter, namespaces, address>>
            \/ \E ends \in SUBSET BridgeEnds(r, p) : Make(r, p, ends)
    /\ UNCHANGED <<link, realized, doomed>>

(* delete_network: the namespaces one after the other.                      *)
DeleteNetwork(r) ==
    /\ Turn(r, "answered", "deleting")
    /\ doomed' = [doomed EXCEPT ![r] = <<Answered(r)>>]
    /\ UNCHANGED <<counter, link, namespaces, address, realized>>

DeleteNamespace(r) ==
    LET n == Last(doomed[r])[<<>>].namespace IN
    /\ request[r] = "deleting" /\ doomed[r] # <<>>
    /\ namespaces' = namespaces \ {n}
    /\ address' = [m \in DOMAIN address \ {n} |-> address[m]]
    /\ doomed' = [doomed EXCEPT ![r] = Popped(@)]
    /\ UNCHANGED <<counter, request, link, realized>>

NetworkDeleted(r) ==
    /\ doomed[r] = <<>>
    /\ Turn(r, "deleting", "deleted")
    /\ UNCHANGED <<counter, link, namespaces, address, realized, doomed>>

(* The first namespace that cannot be deleted ends it.                      *)
DeleteFails(r) ==
    /\ r \in Faulty /\ doomed[r] # <<>>
    /\ Turn(r, "deleting", "stuck")
    /\ UNCHANGED <<counter, link, namespaces, address, realized, doomed>>

NetNext ==
    \E r \in Request :
        \/ CreateNetwork(r) \/ Answer(r) \/ CreateFails(r)
        \/ \E p \in Place(r) : PickBridge(r, p) \/ CreateNamespace(r, p)
        \/ DeleteNetwork(r) \/ DeleteNamespace(r) \/ NetworkDeleted(r) \/ DeleteFails(r)

NetSpec == NetInit /\ [][NetNext]_netVars

-----------------------------------------------------------------------------
(* Namespaces of any networks, concurrent, failed or half deleted ones      *)
(* included, never share an address (SUBNET_COUNTER, pick_subnet), while    *)
(* the counter has not come around.                                         *)
AddressesUnique ==
    \A m, n \in namespaces : m # n => address[m] \cap address[n] = {}

(* Whichever containers of the shape a network is lent to: every container  *)
(* is given a namespace, and every service an address its user has the      *)
(* other end of the bridge of (zip, in the spin-up of an exec).             *)
ServicesReachable ==
    \A r \in Request : request[r] = "answered" =>
        \A u \in Users[r] :
            LET given == ZipTrees(u, Answered(r)) IN
            /\ DOMAIN given = DOMAIN u
            /\ \A e \in Edges(given) :
                 LET user == e[1][2] service == e[2][2] IN
                 /\ {user.namespace, service.namespace} \subseteq namespaces
                 /\ service.ip \in address[service.namespace]
                 /\ <<service.ip[1], 0>> \in address[user.namespace]

(* A network that was deleted has left no namespace behind.                 *)
DeletedIsGone ==
    \A r \in Request : request[r] = "deleted" =>
        \A n \in namespaces : n[1] # r
=============================================================================
