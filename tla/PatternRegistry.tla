-------------------------- MODULE PatternRegistry --------------------------
(***************************************************************************)
(* Ids of patterns, which every memory file is written with.  A process    *)
(* reads the manifest when it starts and numbers the names it meets; it    *)
(* saves the manifest after each new name, or once at the end of a bulk    *)
(* update.  Saving is opening a temporary file of a fixed name, which      *)
(* empties it, filling it, and moving it over the manifest.  Nothing tells *)
(* two processes of each other, which may move or fill each other's file,  *)
(* and nothing catches an error: a save that fails ends its process.       *)
(***************************************************************************)
EXTENDS Integers, Sequences, FiniteSetsExt, Functions

CONSTANTS
    Handles,        \* processes with a registry on the manifest
    Defaults,       \* DEFAULT_PATTERN_NAMES, none of them empty
    Met,            \* names met while running
    Classes,        \* ALLOWED_SEMANTIC_CLASSES
    Inferred,       \* infer_pattern_semantics: name -> class
    Manifests,      \* what may be there at first, edited by hand perhaps
    None,
    MaxCrashes

RegistryAssumption ==
    /\ Defaults \in Seq(DOMAIN Inferred) /\ Met \subseteq DOMAIN Inferred
    /\ "" \notin DOMAIN Inferred
    /\ "unknown" \in Classes /\ Inferred \in [DOMAIN Inferred -> Classes]
    /\ \A m \in Manifests \ {None} : DOMAIN m.patterns \subseteq DOMAIN Inferred \cup {""}

VARIABLES
    manifest,       \* None, or [version, patterns, ids, next, semantics]
    tmp,            \* the temporary file
    opened,         \* handle -> the file it has open: "tmp", "manifest", or "none" of them
    mixed,          \* the handles whose file another has opened as well
    registry,       \* handle -> None, or what a manifest has and [bulk, dirty, phase, todo]
    used,           \* <<name, id, class>> relied on by some memory file
    overlapped,     \* two processes have had a registry at once
    crashes

registryVars == <<manifest, tmp, opened, mixed, registry, used, overlapped, crashes>>
files == <<manifest, tmp, opened, mixed>>

RegistryInit ==
    /\ manifest \in Manifests /\ tmp = None
    /\ opened = [h \in Handles |-> "none"] /\ mixed = {}
    /\ registry = [h \in Handles |-> None]
    /\ used = {} /\ overlapped = FALSE /\ crashes = 0

-----------------------------------------------------------------------------
(* _normalized_semantic_metadata: a class nobody knows becomes unknown, so *)
(* that the check of the class after it never fails.                       *)
Normalised(metadata) ==
    [class |-> IF metadata.class \in Classes THEN metadata.class ELSE "unknown",
     tagged |-> metadata.tagged]

(* _validate_semantic_metadata: the tags must be a list of names.          *)
KnownSemantics(metadata) == Normalised(metadata).class \in Classes /\ metadata.tagged

(* _validate_manifest_data.  Ids are their numbers, 0 for anything else.   *)
Valid(data) ==
    /\ data.version = 1 /\ data.next \in Nat \ {0}
    /\ \A name \in DOMAIN data.patterns :
        /\ name # "" /\ data.patterns[name] \in 1..(data.next - 1)
        /\ data.ids[data.patterns[name]] = name
    /\ IsInjective(data.patterns)
    /\ DOMAIN data.ids = Range(data.patterns)
    /\ \A i \in DOMAIN data.semantics : i \in DOMAIN data.ids /\ KnownSemantics(data.semantics[i])

(* _load_semantics: what the manifest says, though infer_pattern_semantics *)
(* may say something else by now.                                          *)
LoadedSemantics(data) ==
    [i \in DOMAIN data.ids |->
        IF i \in DOMAIN data.semantics THEN Normalised(data.semantics[i])
        ELSE [class |-> Inferred[data.ids[i]], tagged |-> TRUE]]

(* _register_new, with the names already there left alone: a number that   *)
(* is taken would be skipped.                                              *)
FreeId(r) ==
    IF r.next \notin DOMAIN r.ids THEN r.next
    ELSE Min({i \in r.next..(r.next + Cardinality(DOMAIN r.ids)) : i \notin DOMAIN r.ids})

With(f, x, value) == [y \in DOMAIN f \cup {x} |-> IF y = x THEN value ELSE f[y]]

Registered(r, name) ==
    IF name \in DOMAIN r.patterns THEN r
    ELSE LET id == FreeId(r)
         IN  [r EXCEPT !.patterns = With(@, name, id), !.ids = With(@, id, name), !.next = id + 1,
                       !.semantics = With(@, id, [class |-> Inferred[name], tagged |-> TRUE]),
                       !.dirty = TRUE]

Data(r) == [version |-> 1, patterns |-> r.patterns, ids |-> r.ids, next |-> r.next,
            semantics |-> r.semantics]

Nothing == [x \in {} |-> 0]

(* A file that is empty, cut short, or two texts in one; it does not parse. *)
Half == [version |-> 0, patterns |-> Nothing, ids |-> Nothing, next |-> 1, semantics |-> Nothing]

(* _load_manifest, of one that is valid; another ends the process.         *)
Loaded ==
    LET data == IF manifest # None THEN manifest
                ELSE [patterns |-> Nothing, ids |-> Nothing, next |-> 1, semantics |-> Nothing]
    IN  [patterns |-> data.patterns, ids |-> data.ids, next |-> data.next,
         semantics |-> LoadedSemantics(data), bulk |-> FALSE, dirty |-> manifest = None,
         phase |-> "starting", todo |-> Defaults]

\* Mutant: a new name is saved with the next bulk update.
SavesNow_Later(r) == r.dirty /\ r.bulk

(* _mark_dirty: saving waits for the end of a bulk update.                 *)
SavesNow(r) == r.dirty /\ ~r.bulk

(* write_text opens the file, be it there and open already.                *)
WithSave(h, r) ==
    IF SavesNow(r)
    THEN LET others == {g \in Handles \ {h} : registry[g] # None /\ opened[g] = "tmp"}
         IN  /\ tmp' = Half
             /\ opened' = [opened EXCEPT ![h] = "tmp"]
             /\ mixed' = IF others = {} THEN mixed \ {h} ELSE mixed \cup others \cup {h}
             /\ registry' = [registry EXCEPT ![h] = [r EXCEPT !.phase = "writing"]]
    ELSE /\ registry' = [registry EXCEPT ![h] = [r EXCEPT !.phase = "running"]]
         /\ UNCHANGED <<tmp, opened, mixed>>

Running(h) == registry[h] # None /\ registry[h].phase = "running"

(* __post_init__: the manifest, then each default name, then a save.       *)
Start(h) ==
    /\ registry[h] = None
    /\ manifest # None => Valid(manifest)
    /\ overlapped' = (overlapped \/ \E other \in Handles : registry[other] # None)
    /\ registry' = [registry EXCEPT ![h] = Loaded]
    /\ UNCHANGED <<files, used, crashes>>

AddDefault(h) ==
    /\ registry[h] # None /\ registry[h].phase = "starting" /\ registry[h].todo # <<>>
    /\ LET r == registry[h]
       IN  registry' = [registry EXCEPT ![h] =
                            [Registered(r, Head(r.todo)) EXCEPT !.todo = Tail(r.todo)]]
    /\ UNCHANGED <<files, used, overlapped, crashes>>

Ready(h) ==
    /\ registry[h] # None /\ registry[h].phase = "starting" /\ registry[h].todo = <<>>
    /\ WithSave(h, registry[h])
    /\ UNCHANGED <<manifest, used, overlapped, crashes>>

(* register, register_if_missing, id.                                      *)
Register(h, name) ==
    /\ Running(h) /\ name \notin DOMAIN registry[h].patterns
    /\ WithSave(h, Registered(registry[h], name))
    /\ UNCHANGED <<manifest, used, overlapped, crashes>>

(* The file is filled, wherever it is by now, in one piece or in several.  *)
Written(h, text) ==
    /\ registry[h] # None /\ registry[h].phase = "writing"
    /\ tmp' = IF opened[h] = "tmp" THEN text ELSE tmp
    /\ manifest' = IF opened[h] = "manifest" THEN text ELSE manifest
    /\ UNCHANGED <<used, overlapped, crashes>>

FillPart(h) == Written(h, Half) /\ UNCHANGED <<opened, mixed, registry>>

Fill(h) ==
    /\ \/ Written(h, Data(registry[h]))
       \/ h \in mixed /\ Written(h, Half)
    /\ opened' = [opened EXCEPT ![h] = "none"] /\ mixed' = mixed \ {h}
    /\ registry' = [registry EXCEPT ![h].phase = "moving"]

(* The move takes the temporary file from those who have it open, and the  *)
(* manifest from those it was moved from under; it fails without a file.   *)
Move(h) ==
    /\ registry[h] # None /\ registry[h].phase = "moving"
    /\ IF tmp = None
       THEN registry' = [registry EXCEPT ![h] = None] /\ UNCHANGED files
       ELSE /\ manifest' = tmp /\ tmp' = None /\ mixed' = mixed
            /\ opened' = [g \in Handles |-> IF opened[g] = "tmp" THEN "manifest" ELSE "none"]
            /\ registry' = [registry EXCEPT ![h].phase = "running", ![h].dirty = FALSE]
    /\ UNCHANGED <<used, overlapped, crashes>>

(* bulk_update, around the loading of the pattern files.                   *)
BeginBulk(h) ==
    /\ Running(h) /\ ~registry[h].bulk
    /\ registry' = [registry EXCEPT ![h].bulk = TRUE]
    /\ UNCHANGED <<files, used, overlapped, crashes>>

EndBulk(h) ==
    /\ Running(h) /\ registry[h].bulk
    /\ WithSave(h, [registry[h] EXCEPT !.bulk = FALSE])
    /\ UNCHANGED <<manifest, used, overlapped, crashes>>

(* A record, draft or proposal is written with the id; none is while       *)
(* pattern files are loaded.                                               *)
UseId(h, name) ==
    /\ Running(h) /\ ~registry[h].bulk /\ name \in DOMAIN registry[h].patterns
    /\ LET id == registry[h].patterns[name]
       IN  used' = used \cup {<<name, id, registry[h].semantics[id].class>>}
    /\ UNCHANGED <<files, registry, overlapped, crashes>>

(* The process ends, anywhere: a file it has open stays as it is.          *)
Stop(h) ==
    /\ registry[h] # None /\ crashes < MaxCrashes
    /\ registry' = [registry EXCEPT ![h] = None]
    /\ crashes' = crashes + 1
    /\ opened' = [opened EXCEPT ![h] = "none"] /\ mixed' = mixed \ {h}
    /\ UNCHANGED <<manifest, tmp, used, overlapped>>

RegistryNext == \E h \in Handles :
    \/ Start(h) \/ AddDefault(h) \/ Ready(h) \/ FillPart(h) \/ Fill(h)
    \/ Move(h) \/ BeginBulk(h) \/ EndBulk(h) \/ Stop(h)
    \/ \E name \in Met : Register(h, name) \/ UseId(h, name)

RegistrySpec == RegistryInit /\ [][RegistryNext]_registryVars

-----------------------------------------------------------------------------
(***************************************************************************)
(* Properties                                                              *)
(***************************************************************************)
\* "Stable mapping between internal pattern ids and human debug names": as long
\* as two processes were never on the manifest at once, an id in a memory file
\* means what it meant when it was written and is of the class it was, whatever
\* crashed since, in the middle of a save too; and nothing runs on a manifest
\* that cannot be read, so that nothing writes over it.  Even of two at once
\* each has names and ids to save that could be read again, though what is on
\* disk may be neither's, or not be readable.
IdsKeepTheirNames ==
    /\ ~overlapped =>
        /\ \A u \in used :
            /\ manifest # None
            /\ u[1] \in DOMAIN manifest.patterns /\ manifest.patterns[u[1]] = u[2]
            /\ LoadedSemantics(manifest)[u[2]].class = u[3]
        /\ manifest # None /\ (\E h \in Handles : registry[h] # None) => Valid(manifest)
    /\ \A h \in Handles : registry[h] # None => Valid(Data(registry[h]))
=============================================================================
