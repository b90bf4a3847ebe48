------------------------------ MODULE FileTree ------------------------------
(***************************************************************************)
(* The world outside the program, as src/ relies on it: a file system that *)
(* other processes change at any time, and the inotify instance that tells *)
(* the program about it.                                                   *)
(*                                                                         *)
(* A watch belongs to an inode, not to a path: it survives a rename, goes  *)
(* with the inode, and a second inotify_add_watch of the inode returns the *)
(* same descriptor.  Events are queued in order, one that equals the last  *)
(* queued is merged into it, and a full queue takes one Q_OVERFLOW and     *)
(* loses the rest.  A rename queues MOVED_TO on the new parent before      *)
(* MOVE_SELF on the moved directory.                                       *)
(*                                                                         *)
(* Left out: hard links, attribute changes by others, unmounts, IN_IGNORED *)
(* and the event kinds the program does not ask for, a descriptor number   *)
(* coming round again while something still refers to it.                  *)
(***************************************************************************)
EXTENDS Names

CONSTANTS
    Inode,              \* files, directories and symbolic links
    NoInode,            \* "nothing has this path"
    Kind,               \* [Inode -> {"dir", "file", "symlink"}]; links dangle
    HeldOpen,           \* inodes another process keeps open when it removes them
    InitialTrees,       \* the trees a run may start from
    MarkedBefore,       \* the sets of inodes that may be marked by then
    Creatable,          \* the paths something may be created at, with its kind
    Deletable,          \* the paths that may be deleted
    Renamable,          \* pairs <<from, to>> that a rename may try
    RenameReplaces,     \* may a rename replace what is at its target?
    MaxQueuedEvents,    \* fs.inotify.max_queued_events
    MaxOps              \* bound on the changes others make to the tree

ASSUME NoInodeAssumption == NoInode \notin Inode
ASSUME KindAssumption == Kind \in [Inode -> {"dir", "file", "symlink"}]
ASSUME TreesAssumption == InitialTrees \subseteq [Path -> Inode \cup {NoInode}]
ASSUME NoHardLinksAssumption ==
    \A t \in InitialTrees : \A p, q \in Path : t[p] = t[q] /\ t[p] # NoInode => p = q
ASSUME MarksAssumption == MarkedBefore \subseteq SUBSET Inode
ASSUME ChangesAssumption == Deletable \subseteq Path /\ Renamable \subseteq Path \X Path

VARIABLES
    tree,       \* what each path names
    marked,     \* the inodes with user.com.dropbox.ignored = 1
    watch,      \* the inode each live watch descriptor watches
    queue,      \* the events waiting to be read
    ops         \* how many changes others have made so far

kernel == <<watch, queue>>
world == <<tree, marked, watch, queue, ops>>

TreeInit ==
    /\ tree \in InitialTrees
    /\ \E inodes \in MarkedBefore : marked = inodes \cap {tree[path] : path \in Path}
    /\ watch = [wd \in Wd |-> NoInode]
    /\ queue = <<>>
    /\ ops = 0

Exists(path) == tree[path] # NoInode
HasKind(path, kind) == Exists(path) /\ Kind[tree[path]] = kind
IsDir(path) == HasKind(path, "dir")

\* path.exists() follows symbolic links, and those here lead nowhere.
Resolves(path) == Exists(path) /\ ~HasKind(path, "symlink")

Children(path) == {c \in Path : Parent(c) = path /\ Exists(c)}

\* An entry may be put at the top level or into a directory.
HasRoomFor(path) == Len(path) > 1 => IsDir(Parent(path))

Live(wd) == watch[wd] # NoInode

\* The live descriptor of an inode.
WdOf(inode) ==
    IF \E wd \in Wd : watch[wd] = inode THEN CHOOSE wd \in Wd : watch[wd] = inode
    ELSE NoWd

ParentWd(path) == IF Len(path) = 1 THEN NoWd ELSE WdOf(tree[Parent(path)])

-----------------------------------------------------------------------------
\* The event queue.

NoName == ""
Event(mask, wd, name) == [mask |-> mask, wd |-> wd, name |-> name]
OverflowEvent == Event("Q_OVERFLOW", NoWd, NoName)

Masks == {"CREATE", "MOVED_TO", "MOVE_SELF", "DELETE_SELF"}
Events == [mask : Masks, wd : Wd, name : {FileName(path) : path \in Path} \cup {NoName}]
          \cup {OverflowEvent}

\* What queueing an event on a watch does to a queue.
Notify(events, mask, wd, name) ==
    LET event == Event(mask, wd, name)
    IN  IF wd = NoWd THEN events
        ELSE IF events # <<>> /\ Last(events) = event THEN events
        ELSE IF Len(events) < MaxQueuedEvents THEN Append(events, event)
        ELSE IF Contains(events, OverflowEvent) THEN events
        ELSE Append(events, OverflowEvent)

-----------------------------------------------------------------------------
\* What other processes do.

Create(path, inode) ==
    /\ <<path, Kind[inode]>> \in Creatable
    /\ ~Exists(path) /\ HasRoomFor(path)
    /\ \A p \in Path : tree[p] # inode
    /\ WdOf(inode) = NoWd
    /\ tree' = [tree EXCEPT ![path] = inode]
    /\ queue' = Notify(queue, "CREATE", ParentWd(path), FileName(path))
    /\ UNCHANGED <<marked, watch>>

\* The inode is gone: its attribute and its watch with it.
Drop(inode, events) ==
    /\ marked' = marked \ {inode}
    /\ watch' = [wd \in Wd |-> IF watch[wd] = inode THEN NoInode ELSE watch[wd]]
    /\ queue' = Notify(events, "DELETE_SELF", WdOf(inode), NoName)

\* The last link to an inode goes.  One that another process holds open lives
\* on without a path, and with its watch, until Release.
Unlink(inode, events) ==
    IF inode \in HeldOpen THEN queue' = events /\ UNCHANGED <<marked, watch>>
                          ELSE Drop(inode, events)

\* rmdir or unlink.
Delete(path) ==
    /\ path \in Deletable
    /\ Exists(path) /\ Children(path) = {}
    /\ tree' = [tree EXCEPT ![path] = NoInode]
    /\ Unlink(tree[path], queue)

Release(inode) ==
    /\ WdOf(inode) # NoWd
    /\ \A p \in Path : tree[p] # inode
    /\ Drop(inode, queue)
    /\ UNCHANGED tree

\* rename(2) moves everything below "from" along.  What it replaces is removed.
CanRename(from, to) ==
    /\ <<from, to>> \in Renamable
    /\ Exists(from) /\ HasRoomFor(to) /\ ~StartsWith(to, from)
    /\ \A p \in Path : Exists(p) /\ StartsWith(p, from) => Rebase(p, from, to) \in Path
    /\ Exists(to) => /\ RenameReplaces
                     /\ IsDir(from) <=> IsDir(to)
                     /\ Children(to) = {}

TreeAfterRename(from, to) ==
    [p \in Path |->
        IF StartsWith(p, to) /\ Rebase(p, to, from) \in Path THEN tree[Rebase(p, to, from)]
        ELSE IF StartsWith(p, to) \/ StartsWith(p, from) THEN NoInode
        ELSE tree[p]]

Rename(from, to) ==
    /\ CanRename(from, to)
    /\ tree' = TreeAfterRename(from, to)
    /\ LET arrived == Notify(queue, "MOVED_TO", ParentWd(to), FileName(to))
           moved == Notify(arrived, "MOVE_SELF", WdOf(tree[from]), NoName)
       IN  IF Exists(to) THEN Unlink(tree[to], moved)
                         ELSE queue' = moved /\ UNCHANGED <<marked, watch>>

TreeNext ==
    \/ /\ ops < MaxOps
       /\ ops' = ops + 1
       /\ \/ \E path \in Path, inode \in Inode : Create(path, inode)
          \/ \E path \in Deletable : Delete(path)
          \/ \E move \in Renamable : Rename(move[1], move[2])
    \/ (\E inode \in Inode : Release(inode)) /\ UNCHANGED ops

-----------------------------------------------------------------------------
\* The calls the program makes.

\* read(2) on the inotify descriptor takes events from the front of the queue.
ReadFirst(n) == queue' = SubSeq(queue, n + 1, Len(queue))

\* inotify_add_watch on an inode that is not watched yet.
AddKernelWatch(wd, inode) == watch' = [watch EXCEPT ![wd] = inode]

\* inotify_rm_watch, EINVAL for a watch that is gone already.
RemoveKernelWatches(wds) ==
    watch' = [wd \in Wd |-> IF wd \in wds THEN NoInode ELSE watch[wd]]

\* Closing the inotify instance.
CloseKernel ==
    /\ watch' = [wd \in Wd |-> NoInode]
    /\ queue' = <<>>

-----------------------------------------------------------------------------
\* The tree, the attributes, the watches and the queue are well formed.
TreeTypeOK ==
    /\ tree \in [Path -> Inode \cup {NoInode}]
    /\ marked \subseteq Inode
    /\ watch \in [Wd -> Inode \cup {NoInode}]
    /\ queue \in Seq(Events)
=============================================================================
