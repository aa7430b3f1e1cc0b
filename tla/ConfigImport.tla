---------------------------- MODULE ConfigImport ----------------------------
(***************************************************************************)
(* The import of hosts: from an OpenSSH configuration, whose Includes are     *)
(* spliced in first (ssh/ssh-config-include, ssh-config-parser,               *)
(* ipc/ssh-config), and from .vnc files (vnc/vnc-connection-parser,            *)
(* ipc/vnc-import), with the buttons that ask for it.  A line is a Host or a   *)
(* Match line, a setting or an Include; a value is the text it stands for.    *)
(***************************************************************************)
EXTENDS Naturals, Sequences, FiniteSets, SequencesExt

CONSTANTS
  Alias, File, Root,
  Configs,     \* what the files may hold: functions of File
  Picks,       \* the .vnc files that may be picked: sequences
  Unreadable, None, Star,
  MAX_DEPTH, MAX_FILES, MaxLines

VARIABLES
  files,                \* the configuration files
  own,                  \* labels of the hosts the user made
  imported,             \* how many hosts an import made, per label
  kind, phase,          \* the import that runs, and how far it is
  stack, content, filesRead, capped,   \* resolveSshConfigIncludes()
  picked, read,         \* .vnc files still to read, and those read
  batch                 \* the hosts of the last import, by label

disk      == <<files, own>>
resolving == <<stack, content, filesRead, capped>>
reading   == <<picked, read>>
importVars == <<disk, imported, kind, phase, resolving, reading, batch>>

NoHosts == [x \in Alias |-> None]

ImportInit ==
  /\ files \in Configs /\ own = {} /\ imported = [x \in Alias |-> 0]
  /\ kind = "none" /\ phase = "idle" /\ stack = <<>> /\ content = <<>> /\ filesRead = 0 /\ capped = FALSE
  /\ picked = <<>> /\ read = <<>> /\ batch = NoHosts

-----------------------------------------------------------------------------
(* The parser of a configuration *)

\* A pattern is an alias or Star, perhaps negated; a block matches by one that is not and none that is.
blockMatchesAlias(patterns, x) ==
  /\ \E q \in patterns : ~q.neg /\ q.is \in {x, Star}
  /\ \A q \in patterns : q.neg => q.is \notin {x, Star}

\* The blocks in order, each with the first value of a keyword; Match opens none, and what comes
\* before the first Host is in none.
AddLine(acc, line) ==
  CASE line.k = "host"  -> [blocks |-> Append(acc.blocks, [patterns |-> line.patterns, value |-> None]), in |-> TRUE]
    [] line.k = "match" -> [acc EXCEPT !.in = FALSE]
    [] line.k = "user"  ->
         LET n == Len(acc.blocks) IN
         IF acc.in /\ acc.blocks[n].value = None THEN [acc EXCEPT !.blocks[n].value = line.value] ELSE acc
    [] OTHER -> acc
Blocks(lines) == FoldLeft(AddLine, [blocks |-> <<>>, in |-> FALSE], lines).blocks

\* Every concrete alias, with the first value among the blocks that match it.
parseSshConfig(lines) ==
  LET bs == Blocks(lines)
      Named(x) == \E i \in DOMAIN bs : [neg |-> FALSE, is |-> x] \in bs[i].patterns
      First(x) == FoldLeft(LAMBDA v, b : IF v = None /\ blockMatchesAlias(b.patterns, x) THEN b.value ELSE v,
                           None, bs)
  IN  [x \in Alias |-> IF Named(x) THEN [user |-> First(x)] ELSE None]

-----------------------------------------------------------------------------
(* The parser of a .vnc file *)

MAX_PORT == 65535
clampPort(n) == IF n \in 1 .. MAX_PORT THEN n ELSE None

\* host::n is a port, host:n a display below 100 and a port from there on.
hostPort(f) ==
  CASE f.colons = 2 -> clampPort(f.n)
    [] f.colons = 1 -> IF f.n < 100 THEN clampPort(5900 + f.n) ELSE clampPort(f.n)
    [] OTHER -> None
vncPort(f) ==
  IF hostPort(f) # None THEN hostPort(f)
  ELSE IF f.port # None /\ clampPort(f.port) # None THEN f.port ELSE 5900

-----------------------------------------------------------------------------
(* Main *)

\* A button is disabled while its own import runs; one by another button meanwhile appears here as
\* hosts that are edited (EditHosts).
Start(k) ==
  /\ phase = "idle" /\ kind' = k /\ phase' = "start" /\ batch' = NoHosts
  /\ stack' = <<>> /\ content' = <<>> /\ filesRead' = 0 /\ capped' = FALSE /\ read' = <<>>
  /\ UNCHANGED <<disk, imported>>
importFromFile == Start("default") /\ picked' = <<>>
importFromPickedFile == Start("file") /\ picked' = <<>>
importVncFromPickedFiles == Start("vnc") /\ picked' \in Picks

End == kind' = "none" /\ phase' = "idle"

\* The picker is cancelled; or the root cannot be read, which is an error for a picked file and
\* an empty import for the default one.
NoFile ==
  /\ phase = "start"
  /\ kind \in {"file", "vnc"} \/ files[Root] = Unreadable
  /\ End /\ UNCHANGED <<disk, imported, resolving, reading, batch>>

\* expandFile(): a file on the chain is not entered again, nor one beyond the guard rails; one that
\* cannot be read adds nothing.  The chain below it is given.
expandFile(f, chain) ==
  LET skip == Len(chain) > MAX_DEPTH \/ (\E i \in DOMAIN chain : chain[i].of = f) \/ capped
      over == filesRead >= MAX_FILES
      text == files[f]
  IN  CASE skip -> stack' = chain /\ UNCHANGED <<filesRead, capped>>
        [] ~skip /\ over -> stack' = chain /\ capped' = TRUE /\ UNCHANGED filesRead
        [] ~skip /\ ~over /\ text = Unreadable -> stack' = chain /\ UNCHANGED <<filesRead, capped>>
        [] OTHER ->
             IF Len(content) + Len(text) > MaxLines
             THEN stack' = chain /\ capped' = TRUE /\ UNCHANGED filesRead
             ELSE /\ stack' = Append(chain, [of |-> f, rest |-> text])
                  /\ filesRead' = filesRead + 1 /\ UNCHANGED capped
ReadRoot ==
  /\ phase = "start" /\ kind \in {"default", "file"} /\ files[Root] # Unreadable
  /\ expandFile(Root, <<>>) /\ phase' = "reading"
  /\ UNCHANGED <<disk, imported, kind, content, reading, batch>>

\* The next line of the file on top: an Include enters its files, in order.
NextLine ==
  /\ phase = "reading" /\ stack # <<>>
  /\ LET top  == Last(stack)
         line == Head(top.rest)
         rest == Append(Front(stack), [top EXCEPT !.rest = Tail(@)])
     IN  CASE top.rest = <<>> -> stack' = Front(stack) /\ UNCHANGED <<content, filesRead, capped>>
           [] top.rest # <<>> /\ line.k = "include" -> expandFile(line.to, rest) /\ UNCHANGED content
           [] OTHER -> stack' = rest /\ content' = Append(content, line) /\ UNCHANGED <<filesRead, capped>>
  /\ UNCHANGED <<disk, imported, kind, phase, reading, batch>>

\* The labels that are there are skipped; one transaction, or nothing.
Import(entries) ==
  LET new == {x \in Alias : entries[x] # None /\ x \notin own /\ imported[x] = 0}
  IN  \/ /\ imported' = [x \in Alias |-> imported[x] + (IF x \in new THEN 1 ELSE 0)]
         /\ batch' = [x \in Alias |-> IF x \in new THEN entries[x] ELSE None]
      \/ UNCHANGED <<imported, batch>>
importFromContent ==
  /\ phase = "reading" /\ kind # "vnc" /\ stack = <<>> /\ Import(parseSshConfig(content)) /\ End
  /\ UNCHANGED <<disk, resolving, reading>>

\* The .vnc files are read one after the other; one that cannot be read ends the import.
ReadVnc ==
  /\ phase = "start" /\ kind = "vnc" /\ picked # <<>>
  /\ IF Head(picked) = Unreadable THEN End /\ UNCHANGED reading
     ELSE read' = Append(read, Head(picked)) /\ picked' = Tail(picked) /\ UNCHANGED <<kind, phase>>
  /\ UNCHANGED <<disk, imported, resolving, batch>>
\* The first file of a label is the one that is imported; one without a host is skipped.
importVncFromFiles ==
  /\ phase = "start" /\ kind = "vnc" /\ picked = <<>>
  /\ Import([x \in Alias |->
              LET fs == SelectSeq(read, LAMBDA f : f.host # None /\ f.name = x)
              IN  IF fs = <<>> THEN None ELSE [port |-> vncPort(Head(fs))]])
  /\ End /\ UNCHANGED <<disk, resolving, reading>>

\* The user makes and deletes hosts, also while an import reads its files.
EditHosts ==
  /\ \E x \in Alias :
       \/ own' = own \cup {x} /\ UNCHANGED imported
       \/ own' = own \ {x} /\ imported' = [imported EXCEPT ![x] = 0]
  /\ UNCHANGED <<files, kind, phase, resolving, reading, batch>>

ImportNext ==
  \/ importFromFile \/ importFromPickedFile \/ importVncFromPickedFiles \/ NoFile \/ ReadRoot \/ NextLine
  \/ importFromContent \/ ReadVnc \/ importVncFromFiles \/ EditHosts

ImportSpec == ImportInit /\ [][ImportNext]_importVars

-----------------------------------------------------------------------------
\* Types of the state.
ImportTypeOK ==
  /\ own \subseteq Alias /\ imported \in [Alias -> 0 .. 1]
  /\ kind \in {"none", "default", "file", "vnc"} /\ phase \in {"idle", "start", "reading"}
  /\ filesRead \in 0 .. MAX_FILES /\ capped \in BOOLEAN /\ Len(content) <= MaxLines
  /\ DOMAIN batch = Alias

\* Whatever the files include of each other, the chain of files that are open is no cycle and no
\* longer than it may be: the resolution ends.
ChainIsAPath ==
  Len(stack) <= MAX_DEPTH + 1 /\ \A i, j \in DOMAIN stack : stack[i].of = stack[j].of => i = j

\* An alias is imported with the value that ssh would use: the first, in the order of the lines,
\* under a Host line that matches it.
Header(lines, i) ==
  LET hs == {j \in 1 .. i : lines[j].k \in {"host", "match"}}
  IN  IF hs = {} THEN None ELSE lines[CHOOSE j \in hs : \A m \in hs : m <= j]
SshValue(lines, x) ==
  LET Applies(i) == /\ lines[i].k = "user" /\ Header(lines, i) # None /\ Header(lines, i).k = "host"
                    /\ [neg |-> TRUE, is |-> x] \notin Header(lines, i).patterns
                    /\ \E q \in Header(lines, i).patterns : ~q.neg /\ q.is \in {x, Star}
      at == {i \in DOMAIN lines : Applies(i)}
  IN  IF at = {} THEN None ELSE lines[CHOOSE i \in at : \A j \in at : i <= j].value
ImportsAsSsh ==
  \A x \in Alias : batch[x] # None /\ "user" \in DOMAIN batch[x] => batch[x].user = SshValue(content, x)

\* Without a cap, what is parsed is the root with every Include in its place.
Spliced[f \in File, chain \in SUBSET File] ==
  IF f \in chain \/ files[f] = Unreadable \/ Cardinality(chain) > MAX_DEPTH THEN <<>>
  ELSE FlattenSeq([i \in DOMAIN files[f] |->
                    IF files[f][i].k = "include" THEN Spliced[files[f][i].to, chain \cup {f}]
                    ELSE <<files[f][i]>>])
IncludesInPlace ==
  phase = "reading" /\ stack = <<>> /\ ~capped => content = Spliced[Root, {}]

\* A port is one that can be connected to.
PortsLegal ==
  \A x \in Alias : batch[x] # None /\ "port" \in DOMAIN batch[x] => batch[x].port \in 1 .. MAX_PORT
=============================================================================
