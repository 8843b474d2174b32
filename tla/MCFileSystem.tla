---------------------------- MODULE MCFileSystem ----------------------------
(* Path names for model checking FileSystem.                               *)
EXTENDS FileSystem

\* A name in the starting directory, one in a subdirectory, and the parent.
MCPaths == {<<"a">>, <<"a", "b">>, <<"..">>}

AllOps == {"open", "trunc", "create", "mkdir", "mknod", "link", "unlink", "chdir", "write", "close"}

Workload(procs, ops, n) == [procs |-> procs, ops |-> ops, calls |-> n]

\* Every call; calls on directories, with a removed directory in use; calls on
\* files, with a full disk; calls by one process, with ".." of a removed one.
MCWorkloads ==
  {Workload(Procs, AllOps, 3),
   Workload(Procs, {"mkdir", "unlink", "chdir"}, 4),
   Workload(Procs, {"create", "unlink", "write", "close"}, 5),
   Workload({1}, {"mkdir", "create", "link", "unlink", "chdir"}, 6)}

\* Directories are made and removed.
MakeAndRemove == {Workload(Procs, {"mkdir", "unlink"}, 4)}
=============================================================================
