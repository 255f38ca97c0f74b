---------------------------- MODULE PreludeNodes ----------------------------
(***************************************************************************)
(* The prelude of nodes (engine/nodes.rs) on the data they compute with    *)
(* (engine/data_model.rs, engine/containerd/container_config.rs), and the  *)
(* names under which exec_internal (engine/containerd/exec.rs) and         *)
(* copy_fs_into_container (engine/containerd/files.rs) commit snapshots.   *)
(*                                                                         *)
(* A name is a hash of inputs: two nodes with one name share a snapshot,   *)
(* whoever commits it first.  What snapshots hold, file contents and       *)
(* strings are terms; hashes have no collisions and commands are           *)
(* deterministic.                                                          *)
(***************************************************************************)
EXTENDS Naturals, Sequences, FiniteSets, SequencesExt

CONSTANTS
    Literals,   \* the strings of the program, as sequences of words
    Timeouts,   \* its integers
    ImageNames,
    Destinations, \* where it copies files to
    Nodes,      \* the nodes it uses
    MaxNodes    \* how many nodes are executed

Number(n) == <<"Int", n>>
String(s) == <<"String", s>>
Container(c) == <<"Container", c>>
Service(c, e, h) == <<"Service", [container |-> c, entrypoint |-> e, healthcheck |-> h]>>
FileSystem(f) == <<"FileSystem", f>>

VARIABLES
    values,   \* of executed nodes: the static type, the data, and what a container
              \* was asked to be
    holds     \* the committed snapshots, <<name, contents>>

nodeVars == <<values, holds>>

NoFiles == <<>>
Value(type, data, made) == [type |-> type, data |-> data, made |-> made]

NodesInit ==
    /\ values = {Value("String", String(s), NoFiles) : s \in Literals}
                  \cup {Value("Int", Number(n), NoFiles) : n \in Timeouts}
    /\ holds = {}

-----------------------------------------------------------------------------
(* Types: the parameters of a wrapped function, and its result.  All and    *)
(* Join take any number of inputs, here two.                                *)

Like == {"Container", "Service"}
Str == {"String"}
Every == {"Int", "String", "FileSystem"} \cup Like
Fixed(params, result) == [params |-> params, result |-> result, passthrough |-> FALSE]
(* ContainerLike's own kind is Container.                                   *)
Passthrough(params) == [params |-> params, result |-> "Container", passthrough |-> TRUE]

Prelude ==
    [Noop |-> Passthrough(<<Every>>),
     All |-> Passthrough(<<Every, Every>>),
     Join |-> Fixed(<<Str, Str>>, "String"),
     Image |-> Fixed(<<Str>>, "Container"),
     ImageService |-> Fixed(<<Str>>, "Service"),
     Exec |-> Passthrough(<<Like, Str>>),
     ExecOutput |-> Fixed(<<Like, Str>>, "String"),
     FromHost |-> Fixed(<<Str>>, "FileSystem"),
     Export |-> Fixed(<<Like, Str>>, "FileSystem"),
     ToHost |-> Fixed(<<{"FileSystem"}, Str>>, "Int"),
     With |-> Passthrough(<<Like, {"FileSystem"}, Str>>),
     WorkingDir |-> Passthrough(<<Like, Str>>),
     Env |-> Passthrough(<<Like, Str, Str>>),
     GetEnv |-> Fixed(<<Like, Str>>, "String"),
     User |-> Passthrough(<<Like, Str>>),
     ToService |-> Fixed(<<{"Container"}, Str>>, "Service"),
     WithService |-> Passthrough(<<Like, {"Service"}, Str>>),
     HealthCheck |-> Fixed(<<{"Service"}, Str, {"Int"}>>, "Service"),
     ShellEscape |-> Fixed(<<Str>>, "String")]

ASSUME NodesAssumption == Nodes \subseteq DOMAIN Prelude

(* Mutant: a node on a container or service is declared as its kind says.   *)
ReturnTypeFixed(kind, types) ==
    LET node == Prelude[kind] IN
    IF Len(types) # Len(node.params) THEN "ArgumentCountMismatch"
    ELSE IF \E i \in DOMAIN types : types[i] \notin node.params[i] THEN "TypeMismatch"
    ELSE node.result

(* return_type of Wrap.                                                     *)
ReturnType(kind, types) ==
    LET node == Prelude[kind] IN
    IF Len(types) # Len(node.params) THEN "ArgumentCountMismatch"
    ELSE IF \E i \in DOMAIN types : types[i] \notin node.params[i] THEN "TypeMismatch"
    ELSE IF node.passthrough THEN types[1] ELSE node.result

-----------------------------------------------------------------------------
(* Containers: a snapshot, and a config whose maps are sets of pairs.       *)

Insert(m, k, v) == {e \in m : e[1] # k} \cup {<<k, v>>}

NoConfig == [env |-> {}, working_dir |-> <<>>, user |-> <<>>, services |-> {}]

(* The state a container or a service is in, and the same with another.     *)
State(d) == IF d[1] = "Service" THEN d[2].container ELSE d[2]
WithState(d, c) == IF d[1] = "Service" THEN <<d[1], [d[2] EXCEPT !.container = c]>>
                                       ELSE Container(c)
WithConfig(d, config) == WithState(d, [State(d) EXCEPT !.config = config])

(* Paths are joined; "." stands for the directory itself.                   *)
JoinPath(dir, p) == IF p = <<".">> THEN dir ELSE Append(dir, p)

Contents(name) == (CHOOSE e \in holds : e[1] = name)[2]

(* The containers there are, and those a container has in its services,     *)
(* theirs included.                                                         *)
States == {State(v.data) : v \in {u \in values : u.type \in Like}}
Closed(S) == \A c \in S : \A e \in c.config.services : e[2].container \in S
Within(c) == {x \in States : \A S \in SUBSET States : c \in S /\ Closed(S) => x \in S}

(* A container as its command sees it: its config, with the services, and   *)
(* the files, its own and theirs.                                           *)
Seen(c) == <<c, {<<x.snapshot, Contents(x.snapshot)>> : x \in Within(c)}>>

ImageSnapshot(image) == <<"image", image>>

(* Mutant: the config is not part of the hash.                              *)
ExecNameBare(c, cmd) == <<"exec", c.snapshot, cmd>>

(* CacheScope::ExecInputs and WithInputs, and what they hash.               *)
ExecName(c, cmd) == <<"exec", c, cmd>>
WithName(c, src) == <<"with", c, src>>

(* Committing a name that is there already counts as having committed it.   *)
Commit(name, files) ==
    holds' = IF \E e \in holds : e[1] = name THEN holds ELSE holds \cup {<<name, files>>}

-----------------------------------------------------------------------------
Result(kind, args, data, made) ==
    values' = values \cup {Value(ReturnType(kind, [i \in DOMAIN args |-> args[i].type]),
                                 data, made)}

PullImage(kind, args) ==
    LET image == args[1].data[2]
        c == [snapshot |-> ImageSnapshot(image), config |-> NoConfig]
    IN  /\ kind \in {"Image", "ImageService"} /\ image \in ImageNames
        /\ Commit(ImageSnapshot(image), ImageSnapshot(image))
        /\ \/ kind = "Image" /\ Result(kind, args, Container(c), ImageSnapshot(image))
           \/ /\ kind = "ImageService"
              /\ Result(kind, args, Service(c, image, <<<<"exit 0">>, 1>>), ImageSnapshot(image))

Ran(args) == <<"ran", Seen(State(args[1].data)), args[2].data[2]>>

(* exec and exec_output: the outcome is a container with its config as it   *)
(* was, or what the command wrote.                                          *)
RunCommand(kind, args) ==
    LET c == State(args[1].data)
        name == ExecName(c, args[2].data[2])
    IN  /\ kind \in {"Exec", "ExecOutput"}
        /\ Commit(name, Ran(args))
        /\ \/ /\ kind = "Exec"
              /\ Result(kind, args, WithState(args[1].data, [c EXCEPT !.snapshot = name]),
                        Ran(args))
           \/ /\ kind = "ExecOutput"
              /\ Result(kind, args, String(<<"output">>), NoFiles)

(* with: the files are copied to a place below the working directory.       *)
CopyInto(kind, args) ==
    LET c == State(args[1].data)
        src == args[2].data[2]
        name == WithName(c, src)
        files == <<"copied", Contents(c.snapshot), src,
                   JoinPath(c.config.working_dir, args[3].data[2])>>
    IN  /\ kind = "With" /\ args[3].data[2] \in Destinations
        /\ Commit(name, files)
        /\ Result(kind, args, WithState(args[1].data, [c EXCEPT !.snapshot = name]), files)

(* Nodes that make files: those of the host, or of a container, which the   *)
(* provider reads when it is asked to.                                      *)
Provide(kind, args) ==
    /\ \/ kind = "FromHost" /\ Result(kind, args, FileSystem(<<"host", args[1].data[2]>>), NoFiles)
       \/ /\ kind = "Export"
          /\ LET c == State(args[1].data) IN
             Result(kind, args,
                    FileSystem(<<"container", Contents(c.snapshot),
                                 JoinPath(c.config.working_dir, args[2].data[2])>>), NoFiles)
    /\ UNCHANGED holds

(* Nodes that change the config only.                                       *)
Configure(kind, args) ==
    LET d == args[1].data
        config == State(d).config
        word == args[2].data[2]
        with(c) == Result(kind, args, WithConfig(d, c), args[1].made)
    IN  /\ \/ /\ kind = "WorkingDir"
              /\ with([config EXCEPT !.working_dir = JoinPath(@, word)])
           \/ kind = "Env" /\ with([config EXCEPT !.env = Insert(@, word, args[3].data[2])])
           \/ kind = "User" /\ with([config EXCEPT !.user = <<word>>])
           \/ /\ kind = "WithService"
              /\ with([config EXCEPT !.services = Insert(@, args[3].data[2], word)])
        /\ UNCHANGED holds

(* Nodes of services.                                                       *)
Serve(kind, args) ==
    LET d == args[1].data
        word == args[2].data[2]
    IN  /\ \/ /\ kind = "ToService"
              /\ Result(kind, args, Service(d[2], word, <<<<"exit 0">>, 1>>), args[1].made)
           \/ /\ kind = "HealthCheck"
              /\ Result(kind, args, <<"Service", [d[2] EXCEPT !.healthcheck =
                                                    <<word, args[3].data[2]>>]>>, args[1].made)
        /\ UNCHANGED holds

(* Nodes of plain data.                                                     *)
Compute(kind, args) ==
    /\ \/ kind \in {"Noop", "All"} /\ Result(kind, args, args[1].data, args[1].made)
       \/ kind = "Join" /\ Result(kind, args, String(args[1].data[2] \o args[2].data[2]), NoFiles)
       \/ kind = "ToHost" /\ Result(kind, args, Number(0), NoFiles)
       \/ /\ kind = "ShellEscape"
          /\ Result(kind, args, String(<<"quote">> \o args[1].data[2] \o <<"quote">>), NoFiles)
       \/ /\ kind = "GetEnv"
          /\ LET set == {e \in State(args[1].data).config.env : e[1] = args[2].data[2]} IN
             Result(kind, args, String(IF set = {} THEN <<>> ELSE (CHOOSE e \in set : TRUE)[2]),
                    NoFiles)
    /\ UNCHANGED holds

(* A node whose inputs were executed, and which the compiler lets through.  *)
NodesNext ==
    /\ Cardinality(values) < MaxNodes + Cardinality(Literals) + Cardinality(Timeouts)
    /\ \E kind \in Nodes :
         \E args \in [DOMAIN Prelude[kind].params -> values] :
           /\ ReturnType(kind, [i \in DOMAIN args |-> args[i].type])
                \notin {"ArgumentCountMismatch", "TypeMismatch"}
           /\ \/ PullImage(kind, args) \/ RunCommand(kind, args) \/ CopyInto(kind, args)
              \/ Provide(kind, args) \/ Configure(kind, args) \/ Serve(kind, args)
              \/ Compute(kind, args)

NodesSpec == NodesInit /\ [][NodesNext]_nodeVars

-----------------------------------------------------------------------------
(* Data has the type the compiler was told, so that no node meets an input  *)
(* it cannot unwrap ("Type mismatch at runtime", nodes.rs): nodes on        *)
(* containers and services hand on which of the two it is.                  *)
TypesAreTrue == \A v \in values : v.data[1] = v.type

(* The snapshot of a container holds what the chain of nodes that made the  *)
(* container asked for, whatever other nodes have committed: the names of   *)
(* snapshots (exec_internal, copy_fs_into_container) tell chains apart.     *)
SnapshotsTrue ==
    \A v \in values : v.type \in Like => Contents(State(v.data).snapshot) = v.made
=============================================================================
