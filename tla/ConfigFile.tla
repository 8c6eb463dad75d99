----------------------------- MODULE ConfigFile -----------------------------
(***************************************************************************)
(* Loading the configuration: pv_config_load and what it calls             *)
(* (src/config.c).  The file is opened below its validated directory,      *)
(* read in several pieces between two fstat calls that must agree, parsed  *)
(* into a candidate, and only a complete candidate becomes the             *)
(* configuration.                                                          *)
(*                                                                         *)
(* The other actor is an editor, which writes the file in place or puts a  *)
(* new file in its place between any two steps.  A file is a sequence of   *)
(* lines; a line sets a key, is a comment, or is malformed.  Every change  *)
(* of a file gives it a new time stamp.                                    *)
(***************************************************************************)
EXTENDS Naturals, Sequences

CONSTANTS
    Keys,           \* the keys, five in the code
    Values,         \* the values in a key's range
    Default,        \* what a key is without a line
    Starts,         \* what the file may hold at first
    MaxLines,       \* PV_CONFIG_MAX_BYTES
    MaxFiles,       \* bound: files the editor makes
    MaxEdits        \* bound: changes the editor makes

Line == [key : Keys, value : Values \cup {"bad"}]
Comment == [key |-> "#", value |-> "none"]
Junk == [key |-> "junk", value |-> "none"]          \* no key, an unknown one, too long
AllLines == Line \cup {Comment, Junk}
Defaults == [k \in Keys |-> Default]
Earlier == [k \in Keys |-> CHOOSE v \in Values : TRUE]  \* what the caller's config holds
Files == 1..MaxFiles

ConfigConstants ==
    /\ "#" \notin Keys /\ Default \notin Values /\ Starts \subseteq Seq(AllLines)
    /\ MaxLines \in Nat \ {0} /\ MaxFiles \in Nat \ {0} /\ MaxEdits \in Nat

NoStat == [size |-> 0, stamp |-> 0, links |-> 0, private |-> FALSE]

VARIABLES
    files, path,    \* the files, and the one the path names (0: none)
    parent,         \* the directory: absent, unsafe or safe
    edits,
    pc, status,
    fd,             \* the file the descriptor is open on
    initial,        \* initial_info
    content,        \* what has been read so far
    candidate, seen, pos,
    config,         \* the caller's
    atOpen, before  \* history: the file at the first fstat, the caller's config before

editor == <<files, path, parent, edits>>
parser == <<candidate, seen, pos>>
history == <<atOpen, before>>
vars == <<editor, pc, status, fd, initial, content, parser, config, history>>

NewFile(lines, private) == [lines |-> lines, stamp |-> 1, links |-> 1, private |-> private]

Init ==
    /\ \E lines \in Starts, private \in BOOLEAN :
          files = [f \in Files |-> IF f = 1 THEN NewFile(lines, private) ELSE NewFile(<<>>, TRUE)]
    /\ parent \in {"absent", "unsafe", "safe"}
    /\ path \in IF parent = "absent" THEN {0} ELSE {0, 1}
    /\ edits = 0
    /\ pc = "open" /\ status = "OK" /\ fd = 0
    /\ initial = NoStat
    /\ content = <<>> /\ candidate = Defaults /\ seen = {} /\ pos = 0
    /\ config = Earlier
    /\ atOpen = NewFile(<<>>, TRUE) /\ before = config

-----------------------------------------------------------------------------
(***************************************************************************)
(* The loader.                                                             *)
(***************************************************************************)

Stat(f) == [size |-> Len(files[f].lines), stamp |-> files[f].stamp,
            links |-> files[f].links, private |-> files[f].private]

Stop(s) == pc' = "returned" /\ status' = s

\* open_config_file: without a directory or a file there is nothing to read; a
\* directory that is not safe, a file that cannot be opened (a symbolic link, no
\* permission) and any other failed call are errors.
Open ==
    /\ pc = "open"
    /\ \/ /\ parent = "absent" \/ (parent = "safe" /\ path = 0)
          /\ pc' = "assign"
          /\ UNCHANGED <<status, fd>>
       \/ Stop("IO") /\ UNCHANGED fd
       \/ /\ parent = "safe" /\ path # 0
          /\ pc' = "validate" /\ fd' = path
          /\ UNCHANGED status
    /\ UNCHANGED <<editor, initial, content, parser, config, history>>

\* The first fstat: the file is private, has one name, and is not too long.  It may
\* fail, and so may the close of the directory behind it.
Validate ==
    /\ pc = "validate"
    /\ atOpen' = files[fd]
    /\ initial' = Stat(fd)
    /\ \/ Stop("IO")
       \/ /\ files[fd].private /\ files[fd].links = 1
          /\ Len(files[fd].lines) > MaxLines
          /\ Stop("LIMIT")
       \/ /\ files[fd].private /\ files[fd].links = 1
          /\ Len(files[fd].lines) <= MaxLines
          /\ pc' = "read"
          /\ UNCHANGED status
    /\ UNCHANGED <<editor, fd, content, parser, config, before>>

\* One read: some of what the file holds now behind what has been read; at the
\* limit one more byte is asked for.
Read ==
    /\ pc = "read"
    /\ LET there == files[fd].lines
           used == Len(content)
       IN \/ /\ used < MaxLines /\ used < Len(there)
             /\ \E n \in used + 1..IF Len(there) < MaxLines THEN Len(there) ELSE MaxLines :
                   content' = content \o SubSeq(there, used + 1, n)
             /\ UNCHANGED <<pc, status>>
          \/ /\ used < MaxLines /\ used >= Len(there)
             /\ pc' = "stat"
             /\ UNCHANGED <<status, content>>
          \/ /\ used = MaxLines
             /\ IF Len(there) > MaxLines THEN Stop("LIMIT") ELSE pc' = "stat" /\ UNCHANGED status
             /\ UNCHANGED content
          \/ Stop("IO") /\ UNCHANGED content
    /\ UNCHANGED <<editor, fd, initial, parser, config, history>>

\* A mutant: only the size is compared.
UnchangedSize == Stat(fd).size = initial.size /\ Stat(fd).size = Len(content)

\* The second fstat agrees with the first, and with what was read; then the file is
\* closed.  Either call may fail.
Unchanged == Stat(fd) = initial /\ initial.size = Len(content)

Verify ==
    /\ pc = "stat"
    /\ \/ Unchanged /\ pc' = "parse" /\ UNCHANGED status
       \/ Stop("IO")
    /\ UNCHANGED <<editor, fd, initial, content, parser, config, history>>

\* mark_key.
MayMark(k) == k \notin seen

\* A mutant: the lines are parsed into the caller's configuration.
ParseInPlace ==
    /\ pc = "parse" /\ pos < Len(content)
    /\ LET l == content[pos + 1]
       IN IF l = Comment \/ l \notin Line THEN pos' = pos + 1 /\ UNCHANGED <<pc, status, seen, candidate, config>>
          ELSE IF l.key \in seen \/ l.value = "bad"
          THEN Stop("FORMAT") /\ UNCHANGED <<parser, config>>
          ELSE /\ pos' = pos + 1 /\ seen' = seen \cup {l.key}
               /\ candidate' = [candidate EXCEPT ![l.key] = l.value]
               /\ config' = candidate' /\ UNCHANGED <<pc, status>>
    /\ UNCHANGED <<editor, fd, initial, content, history>>

\* parse_config_line, on the candidate.
ParseLine ==
    /\ pc = "parse" /\ pos < Len(content)
    /\ LET l == content[pos + 1]
       IN \/ /\ l = Comment
             /\ pos' = pos + 1
             /\ UNCHANGED <<pc, status, candidate, seen>>
          \/ /\ l \in Line /\ MayMark(l.key) /\ l.value # "bad"
             /\ pos' = pos + 1
             /\ seen' = seen \cup {l.key}
             /\ candidate' = [candidate EXCEPT ![l.key] = l.value]
             /\ UNCHANGED <<pc, status>>
          \/ /\ l = Junk \/ (l \in Line /\ (~MayMark(l.key) \/ l.value = "bad"))
             /\ Stop("FORMAT")
             /\ UNCHANGED parser
    /\ UNCHANGED <<editor, fd, initial, content, config, history>>

Parsed ==
    /\ pc = "parse" /\ pos = Len(content)
    /\ pc' = "assign"
    /\ UNCHANGED <<editor, status, fd, initial, content, parser, config, history>>

\* The candidate becomes the configuration.
Assign ==
    /\ pc = "assign"
    /\ config' = candidate
    /\ Stop("OK")
    /\ UNCHANGED <<editor, fd, initial, content, parser, history>>

-----------------------------------------------------------------------------
(***************************************************************************)
(* The editor.                                                             *)
(***************************************************************************)

Edit == edits < MaxEdits /\ edits' = edits + 1 /\ pc # "returned"

Touch(f, lines) == files' = [files EXCEPT ![f].lines = lines, ![f].stamp = @ + 1]

\* Writing in place: the file is cut short, a line is added or overwritten.
WriteInPlace ==
    /\ Edit /\ path # 0
    /\ \/ files[path].lines # <<>> /\ Touch(path, <<>>)
       \/ \E l \in AllLines : /\ Len(files[path].lines) <= MaxLines
                              /\ Touch(path, Append(files[path].lines, l))
       \/ \E l \in AllLines, i \in DOMAIN files[path].lines :
             Touch(path, [files[path].lines EXCEPT ![i] = l])
    /\ UNCHANGED <<path, parent>>

\* Putting a new file in place; the old one has no name any more.
Replace ==
    /\ Edit /\ parent # "absent"
    /\ \E f \in Files : \E private \in BOOLEAN, l \in AllLines :
          /\ f > path /\ \A g \in Files : g > path => f <= g
          /\ files' = [g \in Files |->
                         IF g = f THEN NewFile(<<l>>, private)
                         ELSE IF g = path THEN [files[g] EXCEPT !.links = 0, !.stamp = @ + 1]
                         ELSE files[g]]
          /\ path' = f
    /\ UNCHANGED parent

\* The call is over.
Rest == pc = "returned" /\ UNCHANGED vars

Load == Open \/ Validate \/ Read \/ Verify \/ ParseLine \/ Parsed \/ Assign
Editor == (WriteInPlace \/ Replace) /\ UNCHANGED <<pc, status, fd, initial, content, parser, config, history>>
Next == Load \/ Editor \/ Rest

Spec == Init /\ [][Next]_vars

-----------------------------------------------------------------------------

\* What a file says: every line is a comment or gives a key a good value, no
\* key twice; the keys without a line have their defaults.
Valid(lines) ==
    /\ \A i \in DOMAIN lines : lines[i] = Comment \/ lines[i] \in [key : Keys, value : Values]
    /\ \A i, j \in DOMAIN lines :
          lines[i].key = lines[j].key /\ lines[i] # Comment => i = j
Meaning(lines) ==
    [k \in Keys |-> IF \E i \in DOMAIN lines : lines[i].key = k
                    THEN lines[CHOOSE i \in DOMAIN lines : lines[i].key = k].value
                    ELSE Default]

\* A load that succeeds took the file as it stood at one moment, however the
\* editor changed it between the reads, and gives what that file says; the
\* defaults stand in for a file that is not there, never for one that is there
\* and cannot be trusted.
LoadedIsMeaning ==
    pc = "returned" /\ status = "OK" =>
       IF fd = 0 THEN config = Defaults
       ELSE atOpen.private /\ Valid(atOpen.lines) /\ config = Meaning(atOpen.lines)

\* A load that fails, at whatever line, leaves the caller's configuration as it
\* was.
FailureKeepsConfig == pc = "returned" /\ status # "OK" => config = before
=============================================================================
