------------------------------ MODULE MCFiles --------------------------------
(* Images, paths, flags and lengths for the runs of the file system.       *)
EXTENDS SfsStore, TLC

CONSTANTS p0, p1, p2

MCEntry(name, kind, real, size) == [name |-> name, kind |-> kind, real |-> real, size |-> size]
P(dev, name) == [dev |-> dev, name |-> name]
F(acc, set) == [acc |-> acc, creat |-> "creat" \in set, excl |-> "excl" \in set,
                trunc |-> "trunc" \in set, append |-> "append" \in set]

\* descriptors: a program with two names, a subdirectory, a symbolic link, or a file with a
\* double indirect block; every kind of path and flag; no free block
FilesHosts == {<<MCEntry("sh", "file", 1, 1), MCEntry("d", "dir", 2, 0), MCEntry("l", "link", 3, 1),
                 MCEntry("s2", "file", 1, 1), MCEntry("pad", "file", 4, 1)>>,
               <<MCEntry("big", "file", 1, 9)>>}
FilesOpens ==
    {<<P("stdin", ""), F("RDONLY", {})>>, <<P("stdin", ""), F("RDWR", {})>>,
     <<P("stdout", ""), F("WRONLY", {})>>, <<P("/", "d"), F("RDONLY", {})>>,
     <<P("/", "d"), F("WRONLY", {})>>, <<P("rel", "sh"), F("WRONLY", {"trunc", "append"})>>,
     <<P("rel", "sh"), F("WRONLY", {"creat"})>>, <<P("disk0", "s2"), F("RDWR", {"creat", "excl"})>>,
     <<P("rel", "sh"), F("RDONLY", {"trunc"})>>, <<P("rel", "sh"), F("INVAL", {})>>,
     <<P(":", "l"), F("RDONLY", {})>>, <<P("rel", "big"), F("RDONLY", {})>>, <<P("rel", "none"), F("RDONLY", {})>>,
     <<P("rel", "none"), F("WRONLY", {"creat"})>>, <<P("nodev", ""), F("RDONLY", {})>>}
FilesSeeks == {<<1, "END">>, <<0, "BAD">>}
FilesSymmetry == Permutations({p1, p2})

\* blocks: files over the direct blocks, a disk that fills up; "a" grows through its index
\* block, is truncated through it, and its growth may fail half way
SfsHosts == {<<MCEntry("a", "file", 1, 3), MCEntry("b", "file", 2, 1)>>}
SfsOpens == {<<P("rel", "a"), F("RDWR", {"trunc"})>>, <<P("/", "b"), F("WRONLY", {"append"})>>}
SfsSeeks == {<<4, "END">>}
FlashOpens == {<<P("rel", "a"), F("RDWR", {})>>, <<P("/", "b"), F("RDWR", {"trunc"})>>}
=============================================================================
