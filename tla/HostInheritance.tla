--------------------------- MODULE HostInheritance ---------------------------
(***************************************************************************)
(* What a host takes from the folders above it (shared/host-inheritance.ts):  *)
(* the walk along parent links, which may be malformed, and the values that    *)
(* win.  Of the scalar fields, which are resolved alike, one is kept.  Nothing *)
(* in the program calls it yet.                                             *)
(***************************************************************************)
EXTENDS Naturals, Sequences, SequencesExt

CONSTANTS
  Folder, Root,
  Gone,       \* an id without a row
  FolderTags, HostTags

VARIABLES
  link,       \* parentId of each folder
  start,      \* the folder of the host
  defaults,   \* the folders that set the field
  ownValue,   \* does the host?
  current, chain,     \* of the walk
  source, tagsOfHost  \* what is resolved, once the walk is over
inputs  == <<link, start, defaults, ownValue>>
inhVars == <<inputs, current, chain, source, tagsOfHost>>

InhInit ==
  /\ link \in [Folder -> Folder \cup {Root, Gone}] /\ start \in Folder \cup {Root, Gone}
  /\ defaults \in SUBSET Folder /\ ownValue \in BOOLEAN
  /\ current = start /\ chain = <<>> /\ source = "unresolved" /\ tagsOfHost = <<>>

\* A turn of the loop of orderedAncestorIds().
More == current \in Folder /\ current \notin ToSet(chain)
orderedAncestorIds ==
  /\ More /\ chain' = Append(chain, current) /\ current' = link[current]
  /\ UNCHANGED <<inputs, source, tagsOfHost>>

nearest ==
  LET i == SelectInSeq(chain, LAMBDA f : f \in defaults) IN IF i = 0 THEN "none" ELSE chain[i]
\* A tag is kept where it comes first.
distinct(s) ==
  LET kept == SelectSeq([n \in DOMAIN s |-> n], LAMBDA n : \A m \in 1 .. n - 1 : s[m] # s[n]) IN
  [k \in DOMAIN kept |-> s[kept[k]]]
resolveInheritedHost ==
  /\ ~More /\ source = "unresolved"
  /\ source' = IF ownValue THEN "host" ELSE nearest
  /\ tagsOfHost' = distinct(HostTags \o FlattenSeq([n \in DOMAIN chain |-> FolderTags[chain[n]]]))
  /\ UNCHANGED <<inputs, current, chain>>

InhNext == orderedAncestorIds \/ resolveInheritedHost
InhSpec == InhInit /\ [][InhNext]_inhVars

-----------------------------------------------------------------------------
\* Types of the state.
InhTypeOK ==
  /\ current \in Folder \cup {Root, Gone} /\ chain \in BoundedSeq(Folder, Cardinality(Folder))
  /\ source \in Folder \cup {"host", "none", "unresolved"}

\* The folder n links above the host's.
Above == LET up[n \in 0 .. Cardinality(Folder)] ==
               IF n = 0 THEN start ELSE IF up[n - 1] \in Folder THEN link[up[n - 1]] ELSE Root
         IN up

\* However the links are malformed: the host's own value wins, else no folder with a value is
\* nearer than the one that supplies it, and none is passed over; and the tags are those of the
\* host and of every folder above, once each, the host's first.
InheritsNearest ==
  source # "unresolved" =>
    /\ source = "host" <=> ownValue
    /\ source = "none" => ~ownValue /\ {Above[n] : n \in DOMAIN Above} \cap defaults = {}
    /\ source \in Folder =>
         \E n \in DOMAIN Above :
           Above[n] = source /\ source \in defaults /\ \A m \in 0 .. n - 1 : Above[m] \notin defaults
    /\ ToSet(tagsOfHost) = ToSet(HostTags)
         \cup UNION {ToSet(FolderTags[Above[n]]) : n \in {m \in DOMAIN Above : Above[m] \in Folder}}
    /\ \A m, n \in DOMAIN tagsOfHost : tagsOfHost[m] = tagsOfHost[n] => m = n
    /\ IsPrefix(HostTags, tagsOfHost)
=============================================================================
