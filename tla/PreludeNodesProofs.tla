------------------------- MODULE PreludeNodesProofs -------------------------
(***************************************************************************)
(* Proofs about PreludeNodes, for programs of any size on any words,       *)
(* images and timeouts.                                                    *)
(***************************************************************************)
EXTENDS PreludeNodes, TLAPS

(* A snapshot's name says what it holds.                                    *)
Shaped(e) ==
    \/ \E i : e = <<ImageSnapshot(i), ImageSnapshot(i)>>
    \/ \E c \in States : \E cmd : e = <<ExecName(c, cmd), <<"ran", Seen(c), cmd>>>>
    \/ \E c \in States : \E src : \E to \in Destinations :
         e = <<WithName(c, src), <<"copied", Contents(c.snapshot), src,
                                   JoinPath(c.config.working_dir, to)>>>>

(* All files are copied to one place: names do not tell places apart.       *)
OneDestination == \A a, b \in Destinations : a = b

(* Snapshots H have the name, for what it is to stand for.                  *)
Holding(H, name, made) == \E m : <<name, m>> \in H /\ (OneDestination => m = made)

Unique(H) ==
    /\ \A e \in H : \E name, files : e = <<name, files>>
    /\ \A e, f \in H : e[1] = f[1] => e = f

(* A container of values V, its services too.                               *)
IsContainer(c) ==
    /\ DOMAIN c = {"snapshot", "config"}
    /\ DOMAIN c.config = {"env", "working_dir", "user", "services"}
    /\ \A e \in c.config.services : e[2].container \in States

(* A value is of its type, and a container's snapshot is committed and      *)
(* holds what it was made of.                                               *)
Good(v) ==
    /\ v.type \in Every /\ v.data[1] = v.type
    /\ v.type = "Service" => DOMAIN v.data[2] = {"container", "entrypoint", "healthcheck"}
    /\ v.type \in Like =>
         /\ IsContainer(State(v.data))
         /\ Holding(holds, State(v.data).snapshot, v.made)

IInv ==
    /\ Unique(holds)
    /\ OneDestination => \A e \in holds : Shaped(e)
    /\ \A v \in values : Good(v)

-----------------------------------------------------------------------------
LEMMA InitIInv == NodesInit => IInv
<1> SUFFICES ASSUME NodesInit PROVE IInv
  OBVIOUS
<1>1. holds = {}
  BY DEF NodesInit
<1>2. ASSUME NEW v \in values PROVE Good(v)
  BY DEF NodesInit, Good, Value, String, Number, Like, Every
<1> QED
  BY <1>1, <1>2 DEF IInv, Unique

(* What is committed under a name.                                          *)
LEMMA ContentsOf ==
  ASSUME NEW name, NEW files, Unique(holds), <<name, files>> \in holds
  PROVE  Contents(name) = files
<1> DEFINE e == CHOOSE f \in holds : f[1] = name
<1>1. <<name, files>>[1] = name /\ <<name, files>>[2] = files
  OBVIOUS
<1>2. e \in holds /\ e[1] = name
  BY <1>1
<1>3. e = <<name, files>>
  BY <1>1, <1>2 DEF Unique
<1> QED
  BY <1>1, <1>3 DEF Contents

LEMMA StatesAre ==
  ASSUME IInv
  PROVE  /\ Closed(States)
         /\ \A c \in States : \E made : <<c.snapshot, made>> \in holds
         /\ \A v \in values : v.type \in Like => State(v.data) \in States
BY DEF IInv, Good, Holding, States, IsContainer, Closed

(* Values and snapshots are only added, under new names: what containers    *)
(* see stays.                                                               *)
LEMMA SeenStays ==
  ASSUME IInv, values \subseteq values', holds \subseteq holds', Unique(holds')
  PROVE  /\ States \subseteq States'
         /\ \A c \in States : Contents(c.snapshot)' = Contents(c.snapshot)
         /\ \A c \in States : Seen(c)' = Seen(c)
<1>1. States \subseteq States'
  BY DEF States
<1>2. ASSUME NEW c \in States PROVE Contents(c.snapshot)' = Contents(c.snapshot)
  <2>1. PICK made : <<c.snapshot, made>> \in holds
    BY StatesAre
  <2>2. Contents(c.snapshot) = made
    BY <2>1, ContentsOf DEF IInv
  <2> DEFINE e == CHOOSE f \in holds' : f[1] = c.snapshot
  <2>3. <<c.snapshot, made>> \in holds'
    BY <2>1
  <2>4. <<c.snapshot, made>>[1] = c.snapshot /\ <<c.snapshot, made>>[2] = made
    OBVIOUS
  <2>5. e \in holds' /\ e[1] = c.snapshot
    BY <2>3, <2>4
  <2>6. e = <<c.snapshot, made>>
    BY <2>3, <2>4, <2>5 DEF Unique
  <2> QED
    BY <2>2, <2>4, <2>6 DEF Contents
<1>3. ASSUME NEW c \in States PROVE Within(c)' = Within(c)
  <2>1. ASSUME NEW x \in Within(c)' PROVE x \in Within(c)
    <3>1. \A S \in SUBSET States' : c \in S /\ Closed(S) => x \in S
      BY <2>1 DEF Within
    <3> QED
      BY <1>1, <3>1, StatesAre DEF Within
  <2>2. ASSUME NEW x \in Within(c), NEW S \in SUBSET States', c \in S, Closed(S) PROVE x \in S
    <3>1. Closed(S \cap States)
      BY <2>2, StatesAre DEF Closed
    <3> QED
      BY <2>2, <3>1 DEF Within
  <2> QED
    BY <1>1, <2>1, <2>2 DEF Within
<1>4. ASSUME NEW c \in States PROVE Seen(c)' = Seen(c)
  <2>1. Within(c) \subseteq States
    BY DEF Within
  <2>2. {<<x.snapshot, Contents(x.snapshot)>> : x \in Within(c)}'
          = {<<x.snapshot, Contents(x.snapshot)>> : x \in Within(c)}
    BY <1>2, <1>3, <2>1
  <2> QED
    BY <2>2 DEF Seen
<1> QED
  BY <1>1, <1>2, <1>4

(* Names that are the same stand for the same contents.                     *)
LEMMA NamesTell ==
  ASSUME OneDestination, NEW e, NEW f, Shaped(e), Shaped(f), e[1] = f[1]
  PROVE  e = f
BY DEF OneDestination, Shaped, ImageSnapshot, ExecName, WithName

LEMMA CommitGood ==
  ASSUME IInv, NEW name, NEW files, Shaped(<<name, files>>), Commit(name, files)
  PROVE  /\ holds \subseteq holds' /\ Holding(holds', name, files) /\ Unique(holds')
         /\ OneDestination => \A e \in holds' : Shaped(e)
<1>1. <<name, files>>[1] = name
  OBVIOUS
<1>2. CASE \E e \in holds : e[1] = name
  <2>1. PICK e \in holds : e[1] = name
    BY <1>2
  <2>2. OneDestination => e = <<name, files>>
    BY <1>1, <2>1, NamesTell DEF IInv
  <2>3. \E m : e = <<name, m>>
    BY <2>1 DEF IInv, Unique
  <2> QED
    BY <1>1, <1>2, <2>1, <2>2, <2>3 DEF Commit, IInv, Holding
<1>3. CASE ~\E e \in holds : e[1] = name
  BY <1>1, <1>3 DEF Commit, IInv, Unique, Holding
<1> QED
  BY <1>2, <1>3

(* One more value, and perhaps one more snapshot.                           *)
LEMMA Preserved ==
  ASSUME IInv, NEW v, values' = values \cup {v},
         holds \subseteq holds', Unique(holds'),
         OneDestination => \A e \in holds' : Shaped(e), Good(v)'
  PROVE  IInv'
<1>1. /\ States \subseteq States'
      /\ \A c \in States : Contents(c.snapshot)' = Contents(c.snapshot)
      /\ \A c \in States : Seen(c)' = Seen(c)
  BY SeenStays
<1>2. ASSUME NEW e, Shaped(e) PROVE Shaped(e)'
  BY <1>1, <1>2 DEF Shaped
<1>3. ASSUME NEW u \in values PROVE Good(u)'
  BY <1>1 DEF IInv, Good, Holding, IsContainer
<1> QED
  BY <1>2, <1>3 DEF IInv

-----------------------------------------------------------------------------
(* The inputs the compiler lets through.                                    *)
Passes(kind, args) ==
    /\ kind \in Nodes /\ args \in [DOMAIN Prelude[kind].params -> values]
    /\ ReturnType(kind, [i \in DOMAIN args |-> args[i].type])
         \notin {"ArgumentCountMismatch", "TypeMismatch"}

TypeOf(kind, args) == ReturnType(kind, [i \in DOMAIN args |-> args[i].type])

LEMMA Arguments ==
  ASSUME IInv, NEW kind, NEW args, Passes(kind, args)
  PROVE  /\ \A i \in DOMAIN Prelude[kind].params :
              args[i] \in values /\ Good(args[i]) /\ args[i].type \in Prelude[kind].params[i]
         /\ 1 \in DOMAIN Prelude[kind].params =>
              TypeOf(kind, args) = IF Prelude[kind].passthrough THEN args[1].type
                                                                ELSE Prelude[kind].result
<1> DEFINE types == [i \in DOMAIN args |-> args[i].type]
<1>1. /\ DOMAIN args = DOMAIN Prelude[kind].params /\ \A i \in DOMAIN args : args[i] \in values
      /\ ReturnType(kind, types) \notin {"ArgumentCountMismatch", "TypeMismatch"}
  BY DEF Passes
<1>2. /\ \A i \in DOMAIN types : types[i] \in Prelude[kind].params[i]
      /\ Len(types) = Len(Prelude[kind].params)
      /\ ReturnType(kind, types) = IF Prelude[kind].passthrough THEN types[1]
                                                                ELSE Prelude[kind].result
  BY <1>1 DEF ReturnType
<1> QED
  BY <1>1, <1>2 DEF IInv, TypeOf

(* The parameters of the nodes, as they are used below.                     *)
LEMMA LikeFirst ==
  ASSUME IInv, NEW args,
         NEW kind \in {"Exec", "ExecOutput", "With", "Export", "WorkingDir", "Env", "GetEnv",
                       "User", "WithService"},
         Passes(kind, args)
  PROVE  /\ args[1] \in values /\ Good(args[1]) /\ args[1].type \in Like
         /\ kind \in {"Exec", "With", "WorkingDir", "Env", "User", "WithService"} =>
              TypeOf(kind, args) = args[1].type
         /\ kind \in {"ExecOutput", "GetEnv"} => TypeOf(kind, args) = "String"
         /\ kind = "Export" => TypeOf(kind, args) = "FileSystem"
<1>1. /\ 1 \in DOMAIN Prelude[kind].params /\ Prelude[kind].params[1] = Like
      /\ kind \in {"Exec", "With", "WorkingDir", "Env", "User", "WithService"} =>
           Prelude[kind].passthrough = TRUE
      /\ kind \in {"ExecOutput", "GetEnv", "Export"} => Prelude[kind].passthrough = FALSE
      /\ kind \in {"ExecOutput", "GetEnv"} => Prelude[kind].result = "String"
      /\ kind = "Export" => Prelude[kind].result = "FileSystem"
  BY DEF Prelude, Passthrough, Fixed
<1> QED
  BY <1>1, Arguments

LEMMA ServiceFirst ==
  ASSUME IInv, NEW args, NEW kind \in {"ToService", "HealthCheck"}, Passes(kind, args)
  PROVE  /\ args[1] \in values /\ Good(args[1])
         /\ args[1].type = IF kind = "ToService" THEN "Container" ELSE "Service"
         /\ TypeOf(kind, args) = "Service"
<1>1. /\ Prelude["ToService"] = Fixed(<<{"Container"}, Str>>, "Service")
      /\ Prelude["HealthCheck"] = Fixed(<<{"Service"}, Str, {"Int"}>>, "Service")
  BY DEF Prelude
<1>2. /\ 1 \in DOMAIN Prelude[kind].params
      /\ kind = "ToService" => Prelude[kind].params[1] = {"Container"}
      /\ kind = "HealthCheck" => Prelude[kind].params[1] = {"Service"}
      /\ Prelude[kind].passthrough = FALSE /\ Prelude[kind].result = "Service"
  BY <1>1 DEF Fixed
<1> QED
  BY <1>2, Arguments

LEMMA ServiceSecond ==
  ASSUME IInv, NEW args, Passes("WithService", args)
  PROVE  args[2] \in values /\ Good(args[2]) /\ args[2].type = "Service"
<1>1. /\ 2 \in DOMAIN Prelude["WithService"].params
      /\ Prelude["WithService"].params[2] = {"Service"}
  BY DEF Prelude, Passthrough
<1> QED
  BY <1>1, Arguments

LEMMA PlainNodes ==
  ASSUME IInv, NEW args,
         NEW kind \in {"Noop", "All", "Join", "ToHost", "ShellEscape", "FromHost", "Image",
                       "ImageService"},
         Passes(kind, args)
  PROVE  /\ kind \in {"Noop", "All"} =>
              args[1] \in values /\ Good(args[1]) /\ TypeOf(kind, args) = args[1].type
         /\ kind \in {"Join", "ShellEscape"} => TypeOf(kind, args) = "String"
         /\ kind = "ToHost" => TypeOf(kind, args) = "Int"
         /\ kind = "FromHost" => TypeOf(kind, args) = "FileSystem"
         /\ kind = "Image" => TypeOf(kind, args) = "Container"
         /\ kind = "ImageService" => TypeOf(kind, args) = "Service"
<1>1. /\ 1 \in DOMAIN Prelude[kind].params
      /\ kind \in {"Noop", "All"} => Prelude[kind].passthrough = TRUE
      /\ kind \notin {"Noop", "All"} => Prelude[kind].passthrough = FALSE
      /\ kind \in {"Join", "ShellEscape"} => Prelude[kind].result = "String"
      /\ kind = "ToHost" => Prelude[kind].result = "Int"
      /\ kind = "FromHost" => Prelude[kind].result = "FileSystem"
      /\ kind = "Image" => Prelude[kind].result = "Container"
      /\ kind = "ImageService" => Prelude[kind].result = "Service"
  BY DEF Prelude, Passthrough, Fixed
<1> QED
  BY <1>1, Arguments

-----------------------------------------------------------------------------
(* A new value that is a container or a service, and one that is neither.   *)
LEMMA NewContainer ==
  ASSUME IInv, NEW type \in Like, NEW data, NEW made,
         values' = values \cup {Value(type, data, made)},
         data[1] = type, IsContainer(State(data)), Holding(holds', State(data).snapshot, made),
         type = "Service" => DOMAIN data[2] = {"container", "entrypoint", "healthcheck"},
         holds \subseteq holds', Unique(holds'),
         OneDestination => \A e \in holds' : Shaped(e)
  PROVE  IInv'
<1> DEFINE v == Value(type, data, made)
<1>1. v.type = type /\ v.data = data /\ v.made = made /\ v \in values'
  BY DEF Value
<1>2. States \subseteq States'
  BY SeenStays
<1>3. Good(v)'
  BY <1>1, <1>2 DEF Good, Like, Every, IsContainer, Holding
<1> QED
  BY <1>3, Preserved

LEMMA NewData ==
  ASSUME IInv, NEW type \in {"String", "Int", "FileSystem"}, NEW data, NEW made,
         values' = values \cup {Value(type, data, made)}, data[1] = type,
         holds \subseteq holds', Unique(holds'),
         OneDestination => \A e \in holds' : Shaped(e)
  PROVE  IInv'
<1> DEFINE v == Value(type, data, made)
<1>1. v.type = type /\ v.data = data
  BY DEF Value
<1>2. Good(v)'
  BY <1>1 DEF Good, Like, Every
<1> QED
  BY <1>2, Preserved

LEMMA HoldsStay ==
  ASSUME IInv, UNCHANGED holds
  PROVE  /\ holds \subseteq holds' /\ Unique(holds')
         /\ OneDestination => \A e \in holds' : Shaped(e)
BY DEF IInv

(* A container or service keeps its kind when its state is replaced.        *)
LEMMA WithStateIs ==
  ASSUME NEW a, Good(a), a.type \in Like, NEW c
  PROVE  /\ WithState(a.data, c)[1] = a.type /\ State(WithState(a.data, c)) = c
         /\ a.type = "Service" =>
              DOMAIN WithState(a.data, c)[2] = {"container", "entrypoint", "healthcheck"}
BY DEF Good, Like, WithState, State, Container

LEMMA NewState ==
  ASSUME IInv, NEW a, Good(a), a.type \in Like, NEW c, IsContainer(c), NEW made,
         Holding(holds', c.snapshot, made),
         values' = values \cup {Value(a.type, WithState(a.data, c), made)},
         holds \subseteq holds', Unique(holds'),
         OneDestination => \A e \in holds' : Shaped(e)
  PROVE  IInv'
<1> DEFINE d == WithState(a.data, c)
<1>1. /\ d[1] = a.type /\ State(d) = c
      /\ a.type = "Service" => DOMAIN d[2] = {"container", "entrypoint", "healthcheck"}
  BY WithStateIs
<1>2. values' = values \cup {Value(a.type, d, made)}
  OBVIOUS
<1>3. IsContainer(State(d)) /\ Holding(holds', State(d).snapshot, made)
  BY <1>1
<1> HIDE DEF d
<1> QED
  BY <1>1, <1>2, <1>3, NewContainer

LEMMA PullGood ==
  ASSUME IInv, NEW kind, NEW args, Passes(kind, args), PullImage(kind, args)
  PROVE  IInv'
<1> DEFINE name == ImageSnapshot(args[1].data[2])
           c == [snapshot |-> name, config |-> NoConfig]
<1>1. kind \in {"Image", "ImageService"} /\ Commit(name, name)
  BY DEF PullImage
<1>2. Shaped(<<name, name>>)
  BY DEF Shaped
<1>3. /\ holds \subseteq holds' /\ Holding(holds', name, name) /\ Unique(holds')
      /\ OneDestination => \A e \in holds' : Shaped(e)
  BY <1>1, <1>2, CommitGood
<1>4. IsContainer(c) /\ c.snapshot = name
  BY DEF IsContainer, NoConfig
<1>5. CASE kind = "Image"
  <2>1. values' = values \cup {Value("Container", Container(c), name)}
    BY <1>5, PlainNodes DEF PullImage, Result, TypeOf
  <2>2. Container(c)[1] = "Container" /\ State(Container(c)) = c
    BY DEF Container, State
  <2> QED
    BY <1>3, <1>4, <2>1, <2>2, NewContainer DEF Like
<1>6. CASE kind = "ImageService"
  <2> DEFINE d == Service(c, args[1].data[2], <<<<"exit 0">>, 1>>)
  <2>1. values' = values \cup {Value("Service", d, name)}
    BY <1>6, PlainNodes DEF PullImage, Result, TypeOf
  <2>2. /\ d[1] = "Service" /\ State(d) = c
        /\ DOMAIN d[2] = {"container", "entrypoint", "healthcheck"}
    BY DEF Service, State
  <2> QED
    BY <1>3, <1>4, <2>1, <2>2, NewContainer DEF Like
<1> QED
  BY <1>1, <1>5, <1>6

LEMMA RunGood ==
  ASSUME IInv, NEW kind, NEW args, Passes(kind, args), RunCommand(kind, args)
  PROVE  IInv'
<1> DEFINE c == State(args[1].data)
           name == ExecName(c, args[2].data[2])
           d == [c EXCEPT !.snapshot = name]
<1>1. kind \in {"Exec", "ExecOutput"} /\ Commit(name, Ran(args))
  BY DEF RunCommand
<1>2. args[1] \in values /\ Good(args[1]) /\ args[1].type \in Like /\ c \in States
  BY <1>1, LikeFirst, StatesAre
<1>3. Shaped(<<name, Ran(args)>>)
  BY <1>2 DEF Shaped, Ran
<1>4. /\ holds \subseteq holds' /\ Holding(holds', name, Ran(args)) /\ Unique(holds')
      /\ OneDestination => \A e \in holds' : Shaped(e)
  BY <1>1, <1>3, CommitGood
<1>5. CASE kind = "Exec"
  <2>1. values' = values \cup {Value(args[1].type, WithState(args[1].data, d), Ran(args))}
    BY <1>5, LikeFirst DEF RunCommand, Result, TypeOf
  <2>2. IsContainer(d) /\ d.snapshot = name
    BY <1>2 DEF Good, IsContainer
  <2> QED
    BY <1>2, <1>4, <2>1, <2>2, NewState
<1>6. CASE kind = "ExecOutput"
  <2>1. values' = values \cup {Value("String", String(<<"output">>), NoFiles)}
    BY <1>6, LikeFirst DEF RunCommand, Result, TypeOf
  <2>2. String(<<"output">>)[1] = "String"
    BY DEF String
  <2> QED
    BY <1>4, <2>1, <2>2, NewData
<1> QED
  BY <1>1, <1>5, <1>6

LEMMA CopyGood ==
  ASSUME IInv, NEW kind, NEW args, Passes(kind, args), CopyInto(kind, args)
  PROVE  IInv'
<1> DEFINE c == State(args[1].data)
           src == args[2].data[2]
           name == WithName(c, src)
           d == [c EXCEPT !.snapshot = name]
           files == <<"copied", Contents(c.snapshot), src,
                      JoinPath(c.config.working_dir, args[3].data[2])>>
<1>1. kind = "With" /\ args[3].data[2] \in Destinations /\ Commit(name, files)
  BY DEF CopyInto
<1>2. args[1] \in values /\ Good(args[1]) /\ args[1].type \in Like /\ c \in States
  BY <1>1, LikeFirst, StatesAre
<1>3. Shaped(<<name, files>>)
  BY <1>1, <1>2 DEF Shaped
<1>4. /\ holds \subseteq holds' /\ Holding(holds', name, files) /\ Unique(holds')
      /\ OneDestination => \A e \in holds' : Shaped(e)
  BY <1>1, <1>3, CommitGood
<1>5. values' = values \cup {Value(args[1].type, WithState(args[1].data, d), files)}
  BY <1>1, LikeFirst DEF CopyInto, Result, TypeOf
<1>6. IsContainer(d) /\ d.snapshot = name
  BY <1>2 DEF Good, IsContainer
<1> QED
  BY <1>2, <1>4, <1>5, <1>6, NewState

LEMMA ProvideGood ==
  ASSUME IInv, NEW kind, NEW args, Passes(kind, args), Provide(kind, args)
  PROVE  IInv'
<1>1. TypeOf(kind, args) = "FileSystem"
  BY LikeFirst, PlainNodes DEF Provide
<1>2. \E f : values' = values \cup {Value("FileSystem", FileSystem(f), NoFiles)}
  BY <1>1 DEF Provide, Result, TypeOf
<1>3. \A f : FileSystem(f)[1] = "FileSystem"
  BY DEF FileSystem
<1> QED
  BY <1>2, <1>3, NewData, HoldsStay DEF Provide

LEMMA ConfigureGood ==
  ASSUME IInv, NEW kind, NEW args, Passes(kind, args), Configure(kind, args)
  PROVE  IInv'
<1> DEFINE a == args[1]
           c == State(a.data)
<1>1. kind \in {"WorkingDir", "Env", "User", "WithService"} /\ UNCHANGED holds
  BY DEF Configure
<1>2. /\ a \in values /\ Good(a) /\ a.type \in Like /\ TypeOf(kind, args) = a.type
  BY <1>1, LikeFirst
<1>3. \E config : /\ values' = values \cup {Value(a.type, WithConfig(a.data, config), a.made)}
                  /\ DOMAIN config = {"env", "working_dir", "user", "services"}
                  /\ \A e \in config.services : e[2].container \in States
  <2>1. /\ DOMAIN c.config = {"env", "working_dir", "user", "services"}
        /\ \A e \in c.config.services : e[2].container \in States
    BY <1>2 DEF Good, IsContainer
  <2>2. CASE kind = "WithService"
    <3> DEFINE word == args[2].data[2]
               more == [c.config EXCEPT !.services = Insert(@, args[3].data[2], word)]
    <3>1. word.container \in States
      <4>1. args[2] \in values /\ Good(args[2]) /\ args[2].type = "Service"
        BY <2>2, ServiceSecond
      <4>2. State(args[2].data) = word.container
        BY <4>1 DEF State, Good
      <4> QED
        BY <4>1, <4>2, StatesAre DEF Like
    <3>2. \A e \in more.services : e[2].container \in States
      BY <2>1, <3>1 DEF Insert
    <3>3. values' = values \cup {Value(a.type, WithConfig(a.data, more), a.made)}
      BY <1>2, <2>2 DEF Configure, Result, TypeOf
    <3> QED
      BY <2>1, <3>2, <3>3
  <2>3. CASE kind # "WithService"
    <3>1. PICK config : /\ values' = values \cup {Value(a.type, WithConfig(a.data, config), a.made)}
                        /\ \/ \E w : config = [c.config EXCEPT !.working_dir = w]
                           \/ \E w : config = [c.config EXCEPT !.env = w]
                           \/ \E w : config = [c.config EXCEPT !.user = w]
      BY <1>2, <2>3 DEF Configure, Result, TypeOf
    <3> QED
      BY <2>1, <3>1
  <2> QED
    BY <2>2, <2>3
<1>4. PICK config : /\ values' = values \cup {Value(a.type, WithConfig(a.data, config), a.made)}
                    /\ DOMAIN config = {"env", "working_dir", "user", "services"}
                    /\ \A e \in config.services : e[2].container \in States
  BY <1>3
<1> DEFINE d == [c EXCEPT !.config = config]
<1>5. IsContainer(d) /\ d.snapshot = c.snapshot
  BY <1>2, <1>4 DEF Good, IsContainer
<1>6. Holding(holds, c.snapshot, a.made)
  BY <1>2 DEF Good
<1>7. values' = values \cup {Value(a.type, WithState(a.data, d), a.made)}
  BY <1>4 DEF WithConfig
<1> QED
  BY <1>1, <1>2, <1>5, <1>6, <1>7, HoldsStay, NewState

LEMMA ServeGood ==
  ASSUME IInv, NEW kind, NEW args, Passes(kind, args), Serve(kind, args)
  PROVE  IInv'
<1> DEFINE a == args[1]
<1>1. kind \in {"ToService", "HealthCheck"} /\ UNCHANGED holds
  BY DEF Serve
<1>2. /\ Good(a) /\ a.type = IF kind = "ToService" THEN "Container" ELSE "Service"
      /\ TypeOf(kind, args) = "Service"
  BY <1>1, ServiceFirst
<1>3. \E d : /\ values' = values \cup {Value("Service", d, a.made)}
             /\ d[1] = "Service" /\ State(d) = State(a.data)
             /\ DOMAIN d[2] = {"container", "entrypoint", "healthcheck"}
  <2>1. CASE kind = "ToService"
    <3> DEFINE d == Service(a.data[2], args[2].data[2], <<<<"exit 0">>, 1>>)
    <3>1. values' = values \cup {Value("Service", d, a.made)}
      BY <1>2, <2>1 DEF Serve, Result, TypeOf
    <3>2. /\ d[1] = "Service" /\ State(d) = a.data[2]
          /\ DOMAIN d[2] = {"container", "entrypoint", "healthcheck"}
      BY DEF Service, State
    <3>3. State(a.data) = a.data[2]
      BY <1>2, <2>1 DEF Good, State
    <3> QED
      BY <3>1, <3>2, <3>3
  <2>2. CASE kind = "HealthCheck"
    <3> DEFINE d == <<"Service", [a.data[2] EXCEPT !.healthcheck =
                                    <<args[2].data[2], args[3].data[2]>>]>>
    <3>1. values' = values \cup {Value("Service", d, a.made)}
      BY <1>2, <2>2 DEF Serve, Result, TypeOf
    <3>2. /\ d[1] = "Service" /\ State(d) = State(a.data)
          /\ DOMAIN d[2] = {"container", "entrypoint", "healthcheck"}
      BY <1>2, <2>2 DEF Good, State
    <3> QED
      BY <3>1, <3>2
  <2> QED
    BY <1>1, <2>1, <2>2
<1>4. IsContainer(State(a.data)) /\ Holding(holds, State(a.data).snapshot, a.made)
  BY <1>2 DEF Good, Like
<1> QED
  BY <1>1, <1>3, <1>4, HoldsStay, NewContainer DEF Like

LEMMA ComputeGood ==
  ASSUME IInv, NEW kind, NEW args, Passes(kind, args), Compute(kind, args)
  PROVE  IInv'
<1> DEFINE a == args[1]
<1>1. /\ kind \in {"Noop", "All", "Join", "ToHost", "ShellEscape", "GetEnv"}
      /\ UNCHANGED holds
  BY DEF Compute
<1>2. CASE kind \in {"Noop", "All"}
  <2>1. /\ Good(a) /\ values' = values \cup {Value(a.type, a.data, a.made)}
    BY <1>2, PlainNodes DEF Compute, Result, TypeOf
  <2>2. CASE a.type \in Like
    BY <1>1, <2>1, <2>2, HoldsStay, NewContainer DEF Good
  <2>3. CASE a.type \in {"String", "Int", "FileSystem"}
    BY <1>1, <2>1, <2>3, HoldsStay, NewData DEF Good
  <2> QED
    BY <2>1, <2>2, <2>3 DEF Good, Every
<1>3. CASE kind = "ToHost"
  <2>1. values' = values \cup {Value("Int", Number(0), NoFiles)} /\ Number(0)[1] = "Int"
    BY <1>3, PlainNodes DEF Compute, Result, TypeOf, Number
  <2> QED
    BY <1>1, <2>1, HoldsStay, NewData
<1>4. CASE kind \in {"Join", "ShellEscape", "GetEnv"}
  <2>1. TypeOf(kind, args) = "String"
    BY <1>4, PlainNodes, LikeFirst
  <2>2. \E s : values' = values \cup {Value("String", String(s), NoFiles)}
    BY <1>4, <2>1 DEF Compute, Result, TypeOf
  <2>3. \A s : String(s)[1] = "String"
    BY DEF String
  <2> QED
    BY <1>1, <2>2, <2>3, HoldsStay, NewData
<1> QED
  BY <1>1, <1>2, <1>3, <1>4

LEMMA NextIInv == IInv /\ [NodesNext]_nodeVars => IInv'
<1> SUFFICES ASSUME IInv, [NodesNext]_nodeVars PROVE IInv'
  OBVIOUS
<1>1. CASE NodesNext
  <2>0. PICK kind \in Nodes :
           \E args \in [DOMAIN Prelude[kind].params -> values] :
             /\ ReturnType(kind, [i \in DOMAIN args |-> args[i].type])
                  \notin {"ArgumentCountMismatch", "TypeMismatch"}
             /\ \/ PullImage(kind, args) \/ RunCommand(kind, args) \/ CopyInto(kind, args)
                \/ Provide(kind, args) \/ Configure(kind, args) \/ Serve(kind, args)
                \/ Compute(kind, args)
    BY <1>1 DEF NodesNext
  <2>1. PICK args \in [DOMAIN Prelude[kind].params -> values] :
           /\ ReturnType(kind, [i \in DOMAIN args |-> args[i].type])
                \notin {"ArgumentCountMismatch", "TypeMismatch"}
           /\ \/ PullImage(kind, args) \/ RunCommand(kind, args) \/ CopyInto(kind, args)
              \/ Provide(kind, args) \/ Configure(kind, args) \/ Serve(kind, args)
              \/ Compute(kind, args)
    BY <2>0
  <2>2. Passes(kind, args)
    BY <2>1 DEF Passes
  <2> QED
    BY <2>1, <2>2, PullGood, RunGood, CopyGood, ProvideGood, ConfigureGood, ServeGood,
       ComputeGood
<1>2. CASE UNCHANGED nodeVars
  <2>1. values' = values /\ holds' = holds
    BY <1>2 DEF nodeVars
  <2>2. /\ States \subseteq States'
        /\ \A c \in States : Contents(c.snapshot)' = Contents(c.snapshot)
        /\ \A c \in States : Seen(c)' = Seen(c)
    BY <2>1, SeenStays DEF IInv
  <2>3. OneDestination => \A e \in holds' : Shaped(e)'
    BY <2>1, <2>2 DEF IInv, Shaped
  <2> QED
    BY <2>1, <2>2, <2>3 DEF IInv, Good, IsContainer
<1> QED
  BY <1>1, <1>2

-----------------------------------------------------------------------------
(* The inductive invariant: values are of their types and containers'       *)
(* snapshots are committed, under names that say what they hold.            *)
THEOREM Invariant == NodesSpec => []IInv
BY InitIInv, NextIInv, PTL DEF NodesSpec

(* Whatever the program, data has the type the compiler was told: no node   *)
(* meets an input it cannot unwrap.                                         *)
THEOREM TypesAreTrueHolds == NodesSpec => []TypesAreTrue
<1>1. IInv => TypesAreTrue
  BY DEF IInv, Good, TypesAreTrue
<1> QED
  BY <1>1, Invariant, PTL

(* In programs that copy files to one place the snapshot of every container *)
(* holds what the chain of nodes that made the container asked for.         *)
THEOREM SnapshotsTrueHolds == OneDestination => (NodesSpec => []SnapshotsTrue)
<1> SUFFICES ASSUME OneDestination PROVE NodesSpec => []SnapshotsTrue
  OBVIOUS
<1>1. IInv => SnapshotsTrue
  <2> SUFFICES ASSUME IInv, NEW v \in values, v.type \in Like
               PROVE  Contents(State(v.data).snapshot) = v.made
    BY DEF SnapshotsTrue
  <2>1. <<State(v.data).snapshot, v.made>> \in holds
    BY DEF IInv, Good, Holding
  <2> QED
    BY <2>1, ContentsOf DEF IInv
<1> QED
  BY <1>1, Invariant, PTL
=============================================================================
