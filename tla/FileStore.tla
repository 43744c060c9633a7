------------------------------ MODULE FileStore ------------------------------
(***************************************************************************)
(* What a file system promises its programs: a file is a sequence of       *)
(* bytes, a descriptor a position in a file.  A write stores at the        *)
(* position of its descriptor, in the file of its descriptor; a seek past  *)
(* the end grows this file with zeros; an open finds the file by its name  *)
(* and may empty it.  No other call changes a byte, none changes a file or *)
(* a descriptor that it does not name, and a call that fails changes       *)
(* nothing.  After a panic nothing is promised.                            *)
(***************************************************************************)
EXTENDS Integers, Sequences, FiniteSetsExt

CONSTANTS
    Procs, Fds,
    Hosts,       \* the host directories that the files may come from
    Opens, Lengths, Seeks,   \* what programs pass to open, read and write, seek
    PieceSize,   \* bytes that the kernel moves at once
    MaxFileSize

VARIABLES
    alive,      \* mounted and not stopped
    names,      \* names[path]: the node that a path leads to, 0 if there is none
    content,    \* content[n]: the bytes of file n
    fds         \* fds[p][i]: the descriptor i of process p

vars == <<alive, names, content, fds>>

HostByte == 1
WrittenByte == 2
Unused == [node |-> 0, pos |-> 0, readable |-> FALSE, writable |-> FALSE]
NoFds == [i \in Fds |-> Unused]

Init == ~alive /\ names = << >> /\ content = << >> /\ fds = [p \in Procs |-> NoFds]

Size(n) == Len(content[n])
IsOpen(p, i) == fds[p][i] # Unused
InFile(p, i) == fds[p][i].node \in DOMAIN content
Lowest(p) == {i \in Fds : ~IsOpen(p, i) /\ \A j \in Fds : j < i => IsOpen(p, j)}

(* The paths of a host file lead to its bytes; hard links to the same. *)
Image(host) ==
    \A i \in 1..Len(host) : host[i].kind = "file" =>
      \A path \in DOMAIN names' : path.name = host[i].name =>
        /\ content'[names'[path]] = [b \in 1..host[i].size |-> HostByte]
        /\ \A j \in 1..Len(host), other \in DOMAIN names' : other.name = host[j].name =>
             (names'[other] = names'[path] <=> host[i].real = host[j].real)

Mount == ~alive /\ alive' /\ UNCHANGED fds /\ \E host \in Hosts : Image(host)

Stop == alive /\ ~alive' /\ content' = << >> /\ names' = << >> /\ fds' = [p \in Procs |-> NoFds]

-----------------------------------------------------------------------------

(* s with len written bytes at off, and zeros up to there if it is shorter *)
Store(s, off, len) ==
    [i \in 1..Max({off + len, Len(s)}) |->
       IF i > off /\ i <= off + len THEN WrittenByte ELSE IF i <= Len(s) THEN s[i] ELSE 0]

MoveTo(p, i, pos) == fds' = [fds EXCEPT ![p][i].pos = pos]

Write(p, i, len) ==
    LET d == fds[p][i]
        end == Min({d.pos + len, MaxFileSize})
    IN  /\ d.writable /\ InFile(p, i) /\ d.pos < MaxFileSize
        /\ MoveTo(p, i, end)
        /\ content' = [content EXCEPT ![d.node] = Store(@, d.pos, end - d.pos)]

(* Of a read into a bad buffer the first piece has been consumed. *)
Read(p, i, len) ==
    LET d == fds[p][i]
    IN  /\ d.readable /\ InFile(p, i) /\ d.pos < Size(d.node)
        /\ \E most \in {len, Min({len, PieceSize})} : MoveTo(p, i, Min({d.pos + most, Size(d.node)}))
        /\ UNCHANGED content

Target(d, off, whence) ==
    CASE whence = "SET" -> off
      [] whence = "CUR" -> d.pos + off
      [] whence = "END" -> Size(d.node) + off
      [] OTHER -> -1

Seek(p, i, off, whence) ==
    LET d == fds[p][i]
        to == Target(d, off, whence)
    IN  /\ InFile(p, i) /\ to \in 0..(MaxFileSize - 1)
        /\ MoveTo(p, i, to)
        /\ content' = [content EXCEPT ![d.node] = Store(@, Max({to, Len(@)}), 0)]

(* What a descriptor for node is when it is opened, in the table of p *)
Opened(table, i, node, pos, acc) ==
    [table EXCEPT ![i] = [node |-> node, pos |-> pos, readable |-> acc # "WRONLY",
                          writable |-> acc # "RDONLY"]]

Open(p, path, flags) ==
    \E i \in Lowest(p) :
      /\ IsOpen(p, i)'
      /\ \E n \in {names[path]} :
           /\ n # 0 /\ (flags.trunc => flags.acc # "RDONLY")
           /\ content' = IF flags.trunc \/ flags.creat THEN [content EXCEPT ![n] = << >>] ELSE content
           /\ fds' = [fds EXCEPT ![p] = Opened(@, i, n, IF flags.append THEN Len(content'[n]) ELSE 0,
                                               flags.acc)]

Close(p, i) == IsOpen(p, i) /\ fds' = [fds EXCEPT ![p][i] = Unused] /\ UNCHANGED content

Dup(p, i, j) ==
    /\ IsOpen(p, i) /\ ~IsOpen(p, j)
    /\ fds' = [fds EXCEPT ![p][j] = fds[p][i]]
    /\ UNCHANGED content

Fork(p, child) ==
    /\ fds[child] = NoFds
    /\ fds' = [fds EXCEPT ![child] = fds[p]]
    /\ UNCHANGED content

Exit(p) == fds' = [fds EXCEPT ![p] = NoFds] /\ UNCHANGED content

(* stdin and stdout stay; the program is left open, read up to somewhere. *)
Exec(p, path) ==
    LET kept == [i \in Fds |-> IF i \in {0, 1} THEN fds[p][i] ELSE Unused]
    IN  \E i \in {i \in Fds : kept[i] = Unused /\ \A j \in Fds : j < i => kept[j] # Unused} :
          /\ IsOpen(p, i)' /\ UNCHANGED content
          /\ \E n \in {names[path]} : n \in DOMAIN content /\ \E pos \in 1..Size(n) :
               fds' = [fds EXCEPT ![p] = Opened(kept, i, n, pos, "RDONLY")]

Call(p) ==
    \/ \E <<path, flags>> \in Opens : Open(p, path, flags) \/ Exec(p, path)
    \/ \E i \in Fds, len \in Lengths : Write(p, i, len) \/ Read(p, i, len)
    \/ \E i \in Fds, s \in Seeks : Seek(p, i, s[1], s[2])
    \/ \E i \in Fds : Close(p, i)
    \/ \E i, j \in Fds : Dup(p, i, j)
    \/ \E child \in Procs : Fork(p, child)
    \/ Exit(p)

Next ==
    \/ Mount \/ Stop
    \/ alive /\ UNCHANGED <<alive, names>> /\ \E p \in Procs : Call(p)

Spec == Init /\ [][Next]_vars
=============================================================================
