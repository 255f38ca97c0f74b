---------------------------- MODULE LayerExport ----------------------------
(***************************************************************************)
(* export_layer of the sidecar (sidecar/src/main.rs): the upper directory  *)
(* of an overlay mount, written as the tar archive of an OCI layer.        *)
(*                                                                         *)
(* A directory tree is a function from its paths to what is there: a file  *)
(* or a directory, each with a version that stands for its contents or for *)
(* its mode and owner.  An upper directory also holds whiteouts and opaque *)
(* directories, the way overlayfs leaves them.  The layer is exported      *)
(* there, and applied to the same tree on another machine.                 *)
(***************************************************************************)
EXTENDS Naturals, Sequences

CONSTANT Path \* of names, with the directories they lead through

VARIABLES
    lower,   \* the tree below the exported layer
    upper,   \* its upper directory
    layer,   \* the archive
    restored, \* the tree the layer makes where it is applied
    stage    \* "mounted", "exported" or "imported"

layerVars == <<lower, upper, layer, restored, stage>>

Below(p, q) == Len(q) < Len(p) /\ SubSeq(p, 1, Len(q)) = q
Parent(p) == SubSeq(p, 1, Len(p) - 1)

Name == UNION {{p[i] : i \in DOMAIN p} : p \in Path}

ASSUME PathAssumption ==
    \A p \in Path : p \in Seq(Name) /\ p # <<>> /\ (Len(p) > 1 => Parent(p) \in Path)

Nothing == <<"none", "">>
File(v) == <<"file", v>>
Dir(v) == <<"dir", v>>

(* Trees in which only directories have something below them.               *)
Trees(v) ==
    {t \in [Path -> {Nothing, File(v), Dir(v)}] :
       \A p \in Path : t[p] # Nothing /\ Len(p) > 1 => t[Parent(p)] = Dir(v)}

(* What overlayfs leaves in the upper directory of a mount over a tree:     *)
(* whiteouts only over what is there, directories that were copied up over  *)
(* directories only, every new one in a directory of the lower tree opaque, *)
(* and below an opaque one new files and directories only.                  *)
UpperKind == {"none", "file", "dir", "opaque", "whiteout"}
Uppers(t) ==
    {u \in [Path -> UpperKind] :
       \A p \in Path :
         LET top == Len(p) = 1
             above == IF top THEN "dir" ELSE u[Parent(p)]
         IN  CASE above = "dir" ->
                    /\ u[p] = "whiteout" => t[p] # Nothing
                    /\ u[p] = "dir" => t[p][1] = "dir"
               [] above = "opaque" -> u[p] \in {"none", "file", "dir"}
               [] OTHER -> u[p] = "none"}

(* The tree a container of the mount sees.                                  *)
Merged ==
    [p \in Path |->
       CASE upper[p] = "file" -> File("new")
         [] upper[p] \in {"dir", "opaque"} -> Dir("new")
         [] upper[p] = "whiteout" -> Nothing
         [] OTHER -> IF \E q \in Path : Below(p, q) /\ upper[q] \notin {"none", "dir"}
                       THEN Nothing ELSE lower[p]]

-----------------------------------------------------------------------------
(* Mutant: a directory is a directory.                                      *)
OpaqueAsDir(p) ==
    CASE upper[p] = "whiteout" -> {<<"wh", p>>}
      [] upper[p] = "none" -> {}
      [] upper[p] = "file" -> {<<"file", p>>}
      [] OTHER -> {<<"dir", p>>}

(* append_upperdir for one entry: whiteouts and opaque directories become   *)
(* markers, and nothing else of them is appended.                           *)
AppendEntry(p) ==
    CASE upper[p] = "whiteout" -> {<<"wh", p>>}
      [] upper[p] = "opaque" -> {<<"opq", p>>}
      [] upper[p] = "none" -> {}
      [] OTHER -> {<<upper[p], p>>}

(* containerd applies a layer to a tree, as the OCI image specification     *)
(* says: whiteouts remove what the tree has there, files replace, directories *)
(* that are named only by what is in them are made with default attributes. *)
(* A file in the place of such a directory is an error.                     *)
Apply(tar) ==
    LET gone(p) == \/ <<"wh", p>> \in tar
                   \/ \E q \in Path : Below(p, q) /\ {<<"wh", q>>, <<"opq", q>>, <<"file", q>>} \cap tar # {}
        kept(p) == IF gone(p) THEN Nothing ELSE lower[p]
        implied(p) == <<"opq", p>> \in tar \/ \E e \in tar : Below(e[2], p)
    IN  [p \in Path |->
           CASE <<"file", p>> \in tar -> File("new")
             [] <<"dir", p>> \in tar -> Dir("new")
             [] OTHER -> IF implied(p)
                           THEN CASE kept(p) = Nothing -> Dir("default")
                                  [] kept(p)[1] = "file" -> <<"error", "">>
                                  [] OTHER -> kept(p)
                           ELSE kept(p)]

LayerInit ==
    /\ lower \in Trees("old")
    /\ upper \in Uppers(lower)
    /\ layer = {}
    /\ restored = lower
    /\ stage = "mounted"

ExportLayer ==
    /\ stage = "mounted" /\ stage' = "exported"
    /\ layer' = UNION {AppendEntry(p) : p \in Path}
    /\ UNCHANGED <<lower, upper, restored>>

ImportLayer ==
    /\ stage = "exported" /\ stage' = "imported"
    /\ restored' = Apply(layer)
    /\ UNCHANGED <<lower, upper, layer>>

LayerNext == ExportLayer \/ ImportLayer

LayerSpec == LayerInit /\ [][LayerNext]_layerVars

-----------------------------------------------------------------------------
Kinds(t) == [p \in Path |-> IF t[p][1] = "file" THEN t[p] ELSE <<t[p][1]>>]

(* A new directory stands where the tree has a file.                        *)
ReplacesFile == \E p \in Path : upper[p] = "opaque" /\ lower[p][1] = "file"

(* The layer makes of the tree below it what the container saw: nothing     *)
(* that was deleted or hidden comes back, nothing is lost, and every file   *)
(* has its new contents or its old ones, as it should.  A directory in the  *)
(* place of a file is beyond what the exported layer can say.               *)
ContentsSurvive ==
    stage = "imported" /\ ~ReplacesFile => Kinds(restored) = Kinds(Merged)
=============================================================================
