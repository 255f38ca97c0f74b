----------------------------- MODULE MCSidecar -----------------------------
(***************************************************************************)
(* The sidecar with its kinds of requests (handle_connection).  Networks,  *)
(* files and layers share no state, so that a behaviour serves requests of *)
(* one kind.                                                               *)
(***************************************************************************)
EXTENDS SidecarNetworks, FileCopy, LayerExport

VARIABLE serving

(* Trees of containers as they are put together: services in the order in   *)
(* which they were attached.                                                *)
RECURSIVE Tree(_, _)
Tree(d, kinds) == WithChildren(d, [i \in DOMAIN kinds |-> Tree(<<d, i>>, kinds[i])])

Leaf == <<>>
Deep == <<Leaf>>

Requests == {"pair", "wide"}
Orders == [pair |-> {<<Leaf>>}, wide |-> {<<Deep, Leaf>>, <<Leaf, Deep>>}]
Containers == [r \in Requests |-> {Tree("c", o) : o \in Orders[r]}]
Topologies == [r \in Requests |-> Tree("n", CHOOSE o \in Orders[r] : TRUE)]

(* The order of Vec::cmp, and iteration to the end, as the code has them,   *)
(* over trees of up to two levels of up to two children.                    *)
Pools == LET Some(T) == {<<>>} \cup {<<s>> : s \in T} \cup (T \X T) IN Some(Some({Leaf}))
Small == {Tree("t", k) : k \in Pools}

RECURSIVE Compare(_, _)
Compare(s, t) ==
    LET a == Children(s) b == Children(t)
        differ == {i \in DOMAIN a \cap DOMAIN b : Compare(a[i], b[i]) # "equal"}
    IN  CASE differ # {} -> LET i == CHOOSE j \in differ : \A k \in differ : j <= k
                            IN  Compare(a[i], b[i])
          [] Len(a) < Len(b) -> "less" [] Len(a) > Len(b) -> "greater" [] OTHER -> "equal"

ASSUME CmpAssumption == \A s, t \in Small : Cmp(s, t) = Compare(s, t)

(* A directory with an ignored file, an ignored pipe, a file that is listed *)
(* before and one that is listed behind a directory, which has a file and   *)
(* may have a pipe.                                                         *)
Paths == {<<>>, <<"a">>, <<"log">>, <<"pid">>, <<"sub">>, <<"sub", "b">>, <<"sub", "pipe">>,
          <<"xml">>}
Logs == {<<"log">>, <<"pid">>}
Pipes == {<<"pid">>, <<"sub", "pipe">>}
Lengths == [p \in Paths \ ({<<>>, <<"sub">>} \cup Pipes) |-> IF p = <<"a">> THEN 2 ELSE 1]

LayerPaths == {<<"d">>, <<"d", "x">>, <<"d", "y">>, <<"f">>}

Kind == {"networks", "files", "layers"}
mcVars == <<serving, netVars, fileVars, layerVars>>

Init ==
    /\ serving \in Kind
    /\ NetInit /\ (serving = "networks" \/ counter = 0)
    /\ FileInit /\ (serving = "files" \/ (source = "local" /\ specials = {}))
    /\ LayerInit /\ (serving = "layers" \/ (Range(lower) = {Nothing} /\ Range(upper) = {"none"}))

Networks == serving = "networks" /\ NetNext /\ UNCHANGED <<serving, fileVars, layerVars>>
CopyStep == serving = "files" /\ Read /\ UNCHANGED <<serving, netVars, layerVars>>
ImportStep == serving = "files" /\ Import /\ UNCHANGED <<serving, netVars, layerVars>>
HostStep == serving = "files" /\ HostChanges /\ UNCHANGED <<serving, netVars, layerVars>>
Layers == serving = "layers" /\ LayerNext /\ UNCHANGED <<serving, netVars, fileVars>>

Next == Networks \/ CopyStep \/ ImportStep \/ HostStep \/ Layers

(* The tasks of a copy are polled and its sidecar's thread is run as long   *)
(* as they have something to do.                                            *)
Spec == Init /\ [][Next]_mcVars /\ WF_mcVars(CopyStep) /\ WF_mcVars(ImportStep)

(* CopyEnds, where a copy was asked for.                                    *)
EveryCopyEnds == serving = "files" => CopyEnds
=============================================================================
